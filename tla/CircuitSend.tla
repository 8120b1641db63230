---------------------------- MODULE CircuitSend ----------------------------
(***************************************************************************)
(* The sending side of one circuit (src/tor/circuit.rs): the threads that  *)
(* share it, the two locks they take, the circuit's package window and the *)
(* channel queue they all feed.                                            *)
(*                                                                         *)
(*   Writers   threads inside Circuit::send_data (RELAY_DATA)              *)
(*   Senders   threads inside Circuit::send_relay (BEGIN, END, SENDME, ..) *)
(*   Closers   threads inside Circuit::close                               *)
(*   Pump      the circuit's receive thread, which answers DATA cells with *)
(*             SENDMEs and may add an XOFF                                 *)
(*                                                                         *)
(* A relay checks each cell against a running digest of all the cells it   *)
(* has received, so cells must reach the channel in the order their        *)
(* digests were computed.  A cell is its kind and its place in the digest  *)
(* chain; payloads are left out.  All hops share one chain here: every     *)
(* cell, whatever hop it is for, advances the first hop's forward cipher,  *)
(* so the order of that one stream is the order of them all.               *)
(***************************************************************************)
EXTENDS Integers, Sequences

CONSTANTS Writers, Senders, Closers, Pump, None,
          WindowStart,   \* CIRCUIT_WINDOW_START
          Increment,     \* CIRCUIT_WINDOW_INCREMENT
          OutCap,        \* MAX_OUTBOUND_BYTES, in cells
          MaxCalls,      \* bound: calls of send_data, send_relay and close
          MaxDown,       \* bound: DATA cells the far end sends
          MayFail,       \* whether the relay or the channel may give up
          Timeouts       \* whether SENDME_TIMEOUT can pass

ASSUME SendAssumption ==
    /\ WindowStart \in Nat /\ Increment \in Nat \ {0}
    /\ Increment <= WindowStart
    /\ OutCap \in Nat \ {0}
    /\ MaxCalls \in Nat /\ MaxDown \in Nat
    /\ MayFail \in BOOLEAN /\ Timeouts \in BOOLEAN
    /\ None \notin Writers \cup Senders \cup Closers \cup {Pump}
    /\ Pump \notin Writers \cup Senders \cup Closers
    /\ Writers \cap Senders = {} /\ Closers \cap (Writers \cup Senders) = {}

Threads == Writers \cup Senders \cup Closers \cup {Pump}

VARIABLES
    pc,          \* where each thread is
    calls,       \* calls begun so far
    expired,     \* writers whose SENDME_TIMEOUT has passed in this call
    order,       \* holder of Inner::send_order
    state,       \* holder of Inner::state, where it outlives one step
    package,     \* FlowControl::Window.package
    deliver,     \* FlowControl::Window.deliver
    digest,      \* cells whose digest has been computed
    built,       \* the cell a thread has built and not yet handed over
    lane,        \* every cell handed to the channel, oldest first
    swapped,     \* how many of them the I/O thread has taken
    arrived,     \* how many the relay has received
    farUnacked,  \* DATA cells the far end has and has not acknowledged
    farPackage,  \* DATA cells it may still send
    down,        \* DATA cells it has sent
    inbound,     \* cells queued for the pump
    handling,    \* the cell the pump is working on
    registered,  \* the channel still holds this circuit's queue
    closed,      \* Inner::closed
    chanClosed   \* Shared::closed of the channel

locks == <<order, state>>
chain == <<digest, built>>
wire  == <<lane, swapped, arrived>>
far   == <<farUnacked, farPackage, down>>
rx    == <<inbound, handling, registered>>
flags == <<closed, chanClosed>>
vars  == <<pc, calls, expired, locks, package, deliver, chain, wire, far, rx, flags>>

Cells == [kind : {"DATA", "CTRL", "SENDME", "XOFF", "DESTROY"}, digest : Nat]
NoCell == [kind |-> "DESTROY", digest |-> 0]
Inbounds == {"DATA", "SENDME", "DESTROY"}

IsClosed == closed \/ chanClosed

Goto(t, l) == pc' = [pc EXCEPT ![t] = l]

\* Condvar::notify_all on Inner::event: every sleeping writer starts to wake.
Woken(f) == [t \in Threads |-> IF f[t] = "sleep" THEN "wake" ELSE f[t]]

Init ==
    /\ pc = [t \in Threads |-> IF t = Pump THEN "recv" ELSE "idle"]
    /\ calls = 0
    /\ expired = {}
    /\ order = None /\ state = None
    /\ package = WindowStart /\ deliver = WindowStart
    /\ digest = 0 /\ built = [t \in Threads |-> NoCell]
    /\ lane = <<>> /\ swapped = 0 /\ arrived = 0
    /\ farUnacked = 0 /\ farPackage = WindowStart /\ down = 0
    /\ inbound = <<>> /\ handling = "DATA" /\ registered = TRUE
    /\ closed = FALSE /\ chanClosed = FALSE

-----------------------------------------------------------------------------
(* Circuit::send_data, first half: wait for room in the package window.    *)
(* Each pass of the loop runs under the state lock.                        *)

\* The start of a pass: entry to send_data, or back from a wait.
SendDataPass(w) ==
    /\ \/ pc[w] = "idle" /\ calls < MaxCalls
          /\ calls' = calls + 1
       \/ pc[w] = "wake" /\ UNCHANGED calls
    /\ state = None
    /\ UNCHANGED <<order, deliver, chain, wire, far, rx, flags>>

\* There is room: account for the cell before going on to send it.
SendDataRoom(w) ==
    /\ SendDataPass(w)
    /\ package > 0
    /\ package' = package - 1
    /\ expired' = expired \ {w}
    /\ Goto(w, "order")
    /\ UNCHANGED state

\* No room, and the circuit is closed or the deadline has passed.
SendDataError(w) ==
    /\ SendDataPass(w)
    /\ package <= 0
    /\ IsClosed \/ w \in expired
    /\ expired' = expired \ {w}
    /\ Goto(w, "idle")
    /\ UNCHANGED <<state, package>>

\* No room and no reason to give up: about to wait, still holding the lock.
SendDataPark(w) ==
    /\ SendDataPass(w)
    /\ package <= 0
    /\ ~IsClosed /\ w \notin expired
    /\ state' = w
    /\ Goto(w, "park")
    /\ UNCHANGED <<expired, package>>

\* Condvar::wait_timeout releases the state lock and sleeps in one step.
SendDataSleep(w) ==
    /\ pc[w] = "park"
    /\ state' = None
    /\ Goto(w, "sleep")
    /\ UNCHANGED <<calls, expired, order, package, deliver, chain, wire, far, rx, flags>>

\* SENDME_TIMEOUT passes while the writer sleeps.
SendDataExpire(w) ==
    /\ Timeouts
    /\ pc[w] = "sleep"
    /\ expired' = expired \cup {w}
    /\ Goto(w, "wake")
    /\ UNCHANGED <<calls, locks, package, deliver, chain, wire, far, rx, flags>>

-----------------------------------------------------------------------------
(* Building and queueing a cell under the ordering lock: all of send_relay *)
(* and the second half of send_data.                                       *)

\* Entry of send_relay.
SendRelayBegin(s) ==
    /\ pc[s] = "idle" /\ calls < MaxCalls
    /\ calls' = calls + 1
    /\ Goto(s, "order")
    /\ UNCHANGED <<expired, locks, package, deliver, chain, wire, far, rx, flags>>

\* Mutant of TakeOrder: the ordering lock is not waited for.
TakeOrderUnlocked(t) ==
    /\ pc[t] = "order"
    /\ order' = t
    /\ Goto(t, "build")
    /\ UNCHANGED <<calls, expired, state, package, deliver, chain, wire, far, rx, flags>>

TakeOrder(t) ==
    /\ pc[t] = "order"
    /\ order = None
    /\ order' = t
    /\ Goto(t, "build")
    /\ UNCHANGED <<calls, expired, state, package, deliver, chain, wire, far, rx, flags>>

\* build_relay_cell: the cell's digest covers every cell built before it.
BuildRelayCell(t, kind) ==
    /\ digest' = digest + 1
    /\ built' = [built EXCEPT ![t] = [kind |-> kind, digest |-> digest + 1]]

Build(t) ==
    /\ pc[t] = "build"
    /\ state = None
    /\ BuildRelayCell(t, IF t \in Writers THEN "DATA" ELSE "CTRL")
    /\ Goto(t, "send")
    /\ UNCHANGED <<calls, expired, locks, package, deliver, wire, far, rx, flags>>

\* build_relay_cell refuses (no RELAY_EARLY budget left, no such hop) before
\* it touches the digest.  Data cells cannot fail these checks.
BuildRefused(s) ==
    /\ MayFail
    /\ pc[s] = "build" /\ s \in Senders
    /\ state = None
    /\ order' = None
    /\ Goto(s, "idle")
    /\ UNCHANGED <<calls, expired, state, package, deliver, chain, wire, far, rx, flags>>

\* Channel::send_cell: wait for space in the queue, fail once it is closed.
Enqueue(cell) ==
    /\ ~chanClosed
    /\ Len(lane) - swapped < OutCap
    /\ lane' = Append(lane, cell)
    /\ UNCHANGED <<swapped, arrived>>

SendCell(t) ==
    /\ pc[t] = "send"
    /\ \/ Enqueue(built[t])
       \/ chanClosed /\ UNCHANGED wire
    /\ order' = None
    /\ built' = [built EXCEPT ![t] = NoCell]
    /\ Goto(t, "idle")
    /\ UNCHANGED <<calls, expired, state, package, deliver, digest, far, rx, flags>>

-----------------------------------------------------------------------------
(* The pump: recv, handle_cell, handle_relay, and its exit.                *)

PumpRecv ==
    /\ pc[Pump] = "recv"
    /\ \/ /\ inbound # <<>>
          /\ inbound' = Tail(inbound)
          /\ handling' = Head(inbound)
          /\ Goto(Pump, IF closed \/ Head(inbound) = "DESTROY" THEN "exit" ELSE "order")
       \/ /\ inbound = <<>> /\ ~registered
          /\ Goto(Pump, "exit")
          /\ UNCHANGED <<inbound, handling>>
    /\ UNCHANGED <<calls, expired, locks, package, deliver, chain, wire, far,
                   registered, flags>>

PumpOrder ==
    /\ pc[Pump] = "order"
    /\ order = None
    /\ order' = Pump
    /\ Goto(Pump, "handle")
    /\ UNCHANGED <<calls, expired, state, package, deliver, chain, wire, far, rx, flags>>

\* Mutant of PumpSendme: the window is refilled and nobody is told.
PumpSendmeSilent ==
    /\ pc[Pump] = "handle" /\ handling = "SENDME"
    /\ state = None
    /\ package' = package + Increment
    /\ order' = None
    /\ Goto(Pump, "recv")
    /\ UNCHANGED <<calls, expired, state, deliver, chain, wire, far, rx, flags>>

\* A circuit SENDME refills the package window and wakes every writer.
PumpSendme ==
    /\ pc[Pump] = "handle" /\ handling = "SENDME"
    /\ state = None
    /\ package' = package + Increment
    /\ order' = None
    /\ pc' = [Woken(pc) EXCEPT ![Pump] = "recv"]
    /\ UNCHANGED <<calls, expired, state, deliver, chain, wire, far, rx, flags>>

\* FlowControl::note_received under the window scheme.
NoteReceived(d) ==
    [overrun |-> d - 1 < 0,
     ack     |-> d - 1 <= WindowStart - Increment,
     deliver |-> IF d - 1 >= 0 /\ d - 1 <= WindowStart - Increment
                 THEN d - 1 + Increment ELSE d - 1]

\* A DATA cell: an overrun ends the circuit, and a whole increment is
\* acknowledged at once, under the same hold of the ordering lock.
PumpData ==
    /\ pc[Pump] = "handle" /\ handling = "DATA"
    /\ state = None
    /\ LET r == NoteReceived(deliver)
       IN  /\ deliver' = r.deliver
           /\ order' = IF r.overrun THEN None ELSE order
           /\ Goto(Pump, IF r.overrun THEN "exit" ELSE IF r.ack THEN "send" ELSE "buffer")
           /\ IF r.ack /\ ~r.overrun THEN BuildRelayCell(Pump, "SENDME") ELSE UNCHANGED chain
    /\ UNCHANGED <<calls, expired, state, package, wire, far, rx, flags>>

\* send_cell for the pump's own answer; a failure ends the pump.
PumpSend ==
    /\ pc[Pump] = "send"
    /\ built' = [built EXCEPT ![Pump] = NoCell]
    /\ \/ /\ Enqueue(built[Pump])
          /\ IF built[Pump].kind = "SENDME"
             THEN Goto(Pump, "buffer") /\ UNCHANGED order
             ELSE Goto(Pump, "recv") /\ order' = None
       \/ /\ chanClosed
          /\ Goto(Pump, "exit") /\ order' = None
          /\ UNCHANGED wire
    /\ UNCHANGED <<calls, expired, state, package, deliver, digest, far, rx, flags>>

\* The payload goes to its stream.  A stream that is backed up asks for an
\* XOFF, which send_prebuilt builds without taking the order lock again.
PumpBuffer ==
    /\ pc[Pump] = "buffer"
    /\ \/ /\ order' = None
          /\ Goto(Pump, "recv")
          /\ UNCHANGED chain
       \/ /\ state = None
          /\ BuildRelayCell(Pump, "XOFF")
          /\ Goto(Pump, "send")
          /\ UNCHANGED order
    /\ UNCHANGED <<calls, expired, state, package, deliver, wire, far, rx, flags>>

\* Leaving the loop: mark the circuit closed first, then unregister it, fail
\* its streams and wake the writers.  Neither step takes the state lock.
PumpExit ==
    /\ pc[Pump] = "exit"
    /\ closed' = TRUE
    /\ Goto(Pump, "notify")
    /\ UNCHANGED <<calls, expired, locks, package, deliver, chain, wire, far, rx, chanClosed>>

PumpNotify ==
    /\ pc[Pump] = "notify"
    /\ registered' = FALSE
    /\ pc' = [Woken(pc) EXCEPT ![Pump] = "done"]
    /\ UNCHANGED <<calls, expired, locks, package, deliver, chain, wire, far,
                   inbound, handling, flags>>

-----------------------------------------------------------------------------
(* Circuit::close.                                                         *)

CloseSwap(c) ==
    /\ pc[c] = "idle" /\ ~closed /\ calls < MaxCalls
    /\ closed' = TRUE /\ calls' = calls + 1
    /\ Goto(c, "destroy")
    /\ UNCHANGED <<expired, locks, package, deliver, chain, wire, far, rx, chanClosed>>

\* The DESTROY is no part of the digest chain and takes no lock.
CloseDestroy(c) ==
    /\ pc[c] = "destroy"
    /\ Enqueue([kind |-> "DESTROY", digest |-> 0]) \/ (chanClosed /\ UNCHANGED wire)
    /\ Goto(c, "notify")
    /\ UNCHANGED <<calls, expired, locks, package, deliver, chain, far, rx, flags>>

CloseNotify(c) ==
    /\ pc[c] = "notify"
    /\ registered' = FALSE
    /\ pc' = [Woken(pc) EXCEPT ![c] = "done"]
    /\ UNCHANGED <<calls, expired, locks, package, deliver, chain, wire, far,
                   inbound, handling, flags>>

-----------------------------------------------------------------------------
(* The channel's I/O thread and the relays beyond it.                      *)

\* run_io swaps the whole queue out once what it took before is written.
IoSwap ==
    /\ ~chanClosed
    /\ arrived = swapped /\ swapped < Len(lane)
    /\ swapped' = Len(lane)
    /\ UNCHANGED <<pc, calls, expired, locks, package, deliver, chain, lane, arrived,
                   far, rx, flags>>

\* A cell is written and reaches the relays, which count it.
IoWrite ==
    /\ ~chanClosed
    /\ arrived < swapped
    /\ arrived' = arrived + 1
    /\ LET kind == lane[arrived + 1].kind
       IN  /\ farUnacked' = IF kind = "DATA" THEN farUnacked + 1 ELSE farUnacked
           /\ farPackage' = IF kind = "SENDME" THEN farPackage + Increment ELSE farPackage
    /\ UNCHANGED <<pc, calls, expired, locks, package, deliver, chain, lane, swapped,
                   down, rx, flags>>

\* Mutant of IoEnd: the circuits' queues are not dropped.
IoEndKeepsQueues ==
    /\ MayFail
    /\ ~chanClosed
    /\ chanClosed' = TRUE
    /\ UNCHANGED <<pc, calls, expired, locks, package, deliver, chain, wire, far, rx, closed>>

\* run_io ends: the channel is closed and every circuit's queue is dropped.
IoEnd ==
    /\ MayFail
    /\ ~chanClosed
    /\ chanClosed' = TRUE
    /\ registered' = FALSE
    /\ UNCHANGED <<pc, calls, expired, locks, package, deliver, chain, wire, far,
                   inbound, handling, closed>>

\* Channel deliver(): a cell joins the pump's queue while it is registered.
Deliver(kind) ==
    /\ ~chanClosed
    /\ inbound' = IF registered THEN Append(inbound, kind) ELSE inbound
    /\ UNCHANGED <<pc, calls, expired, locks, package, deliver, chain, wire, handling,
                   registered, flags>>

\* The far end acknowledges a whole increment of DATA cells.
FarSendme ==
    /\ farUnacked >= Increment
    /\ farUnacked' = farUnacked - Increment
    /\ Deliver("SENDME")
    /\ UNCHANGED <<farPackage, down>>

\* The far end sends DATA while its window lasts.
FarData ==
    /\ down < MaxDown
    /\ farPackage > 0
    /\ down' = down + 1
    /\ farPackage' = farPackage - 1
    /\ Deliver("DATA")
    /\ UNCHANGED farUnacked

\* A relay on the path tears the circuit down.
FarDestroy ==
    /\ MayFail
    /\ registered
    /\ ~\E i \in DOMAIN inbound : inbound[i] = "DESTROY"
    /\ Deliver("DESTROY")
    /\ UNCHANGED far

-----------------------------------------------------------------------------

Running(w) ==
    \/ SendDataRoom(w) \/ SendDataError(w)
    \/ SendDataPark(w) \/ SendDataSleep(w)
    \/ TakeOrder(w) \/ Build(w) \/ SendCell(w)

Writer(w) == Running(w) \/ SendDataExpire(w)

Sender(s) ==
    SendRelayBegin(s) \/ TakeOrder(s) \/ Build(s) \/ BuildRefused(s) \/ SendCell(s)

Closer(c) == CloseSwap(c) \/ CloseDestroy(c) \/ CloseNotify(c)

PumpStep ==
    \/ PumpRecv \/ PumpOrder \/ PumpSendme \/ PumpData \/ PumpSend
    \/ PumpBuffer \/ PumpExit \/ PumpNotify

Io == IoSwap \/ IoWrite \/ IoEnd
Far == FarSendme \/ FarData \/ FarDestroy

Next ==
    \/ \E w \in Writers : Writer(w)
    \/ \E s \in Senders : Sender(s)
    \/ \E c \in Closers : Closer(c)
    \/ PumpStep
    \/ Io
    \/ Far

Spec == Init /\ [][Next]_vars

(***************************************************************************)
(* Every thread that can take a step keeps running, the I/O thread keeps   *)
(* writing and the far end acknowledges what it has.  Nothing is assumed   *)
(* of who wins a contended lock, of new work arriving, or of closing.  A   *)
(* writer's deadline is counted on only once the circuit is closed: until  *)
(* then somebody must wake it.                                             *)
(***************************************************************************)
Fairness ==
    /\ \A w \in Writers : WF_vars(Running(w)) /\ WF_vars(IsClosed /\ SendDataExpire(w))
    /\ \A s \in Senders : WF_vars(Sender(s))
    /\ \A c \in Closers : WF_vars(CloseDestroy(c) \/ CloseNotify(c))
    /\ WF_vars(PumpStep)
    /\ WF_vars(IoSwap \/ IoWrite)
    /\ WF_vars(FarSendme)

FairSpec == Spec /\ Fairness

-----------------------------------------------------------------------------

Labels == {"idle", "park", "sleep", "wake", "order", "build", "send", "recv", "handle",
           "buffer", "exit", "notify", "destroy", "done"}

ThreadsOK ==
    /\ pc \in [Threads -> Labels]
    /\ calls \in Nat
    /\ expired \subseteq Writers
    /\ order \in Threads \cup {None} /\ state \in Threads \cup {None}

WindowsOK ==
    /\ package \in Int /\ deliver \in Int
    /\ farUnacked \in Nat /\ farPackage \in Int /\ down \in Nat

ChainOK == digest \in Nat /\ built \in [Threads -> Cells]

WireOK == lane \in Seq(Cells) /\ swapped \in 0..Len(lane) /\ arrived \in 0..swapped

InboundOK == inbound \in Seq(Inbounds) /\ handling \in Inbounds

FlagsOK == registered \in BOOLEAN /\ closed \in BOOLEAN /\ chanClosed \in BOOLEAN

TypeOK == ThreadsOK /\ WindowsOK /\ ChainOK /\ WireOK /\ InboundOK /\ FlagsOK

IsRelay(cell) == cell.kind # "DESTROY"

\* The relay cells handed to the channel are in the order their digests were
\* computed, whichever threads built them: the first hop's running digest
\* check never fails (Inner::send_order).
LaneInOrder ==
    \A i, j \in DOMAIN lane :
        IsRelay(lane[i]) /\ IsRelay(lane[j]) /\ i < j => lane[i].digest < lane[j].digest

\* No relay cell is handed over once a cell before it in the digest chain has
\* been lost: a failed send_cell is never followed by a successful one.
LaneHasNoGap ==
    \A i \in DOMAIN lane : IsRelay(lane[i]) =>
        \A d \in 1..lane[i].digest : \E j \in 1..i : IsRelay(lane[j]) /\ lane[j].digest = d

\* What a relay checks of the cells that reach it.
DigestChain == LaneInOrder /\ LaneHasNoGap

\* Where a thread holds Inner::send_order.
OrderHeld == {"build", "send", "handle", "buffer"}

\* The ordering lock belongs to exactly the thread inside such a section.
OrderInv == \A t \in Threads : pc[t] \in OrderHeld <=> order = t

\* A cell built and not yet handed over is the newest of the chain, and every
\* older one is in the lane unless the channel is closed for good.
ChainInv ==
    /\ \A t \in Threads : pc[t] = "send" =>
           /\ IsRelay(built[t]) /\ built[t].digest = digest
           /\ \A i \in DOMAIN lane : IsRelay(lane[i]) => lane[i].digest < digest
    /\ \A i \in DOMAIN lane : IsRelay(lane[i]) => lane[i].digest <= digest
    /\ chanClosed \/ \A d \in 1..digest :
           \/ \E j \in DOMAIN lane : IsRelay(lane[j]) /\ lane[j].digest = d
           \/ d = digest /\ \E t \in Threads : pc[t] = "send"

\* The inductive invariant behind DigestChain.
SendInv == TypeOK /\ OrderInv /\ ChainInv /\ DigestChain

\* Every call of send_data, send_relay and close returns, whatever the
\* interleaving: no writer is left asleep, and no lock is held for ever.
CallsReturn ==
    \A t \in Threads \ {Pump} : pc[t] \notin {"idle", "done"} ~> pc[t] \in {"idle", "done"}

\* The pump ends once the circuit is closed by anyone or the channel is.
PumpEnds == IsClosed ~> pc[Pump] = "done"
=============================================================================
