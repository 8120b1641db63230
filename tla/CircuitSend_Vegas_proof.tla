---------------------- MODULE CircuitSend_Vegas_proof ----------------------
(* Proofs about CircuitSend, for any set of threads and any window sizes,   *)
(* and, after them, about Vegas, the congestion window that the sender of a *)
(* circuit keeps to.                                                        *)
EXTENDS CircuitSend, Vegas, TLAPS


(***************************************************************************)
(* Which threads there are, without having to open the definition.         *)
(***************************************************************************)
LEMMA ThreadsInclude ==
    /\ Writers \subseteq Threads /\ Senders \subseteq Threads
    /\ Closers \subseteq Threads /\ Pump \in Threads /\ None \notin Threads
  BY SendAssumption DEF SendAssumption, Threads

(***************************************************************************)
(* Every cell of the lane has a place in the digest chain.                 *)
(***************************************************************************)
LEMMA LaneDigests ==
    ASSUME lane \in Seq(Cells)
    PROVE  \A i \in DOMAIN lane : lane[i].digest \in Nat
<1>1. \A i \in DOMAIN lane : lane[i] \in Cells
  OBVIOUS
<1>2. \A cell \in Cells : cell.digest \in Nat
  BY DEF Cells
<1>3. QED
  BY <1>1, <1>2

(***************************************************************************)
(* Waking the sleeping writers keeps pc a function into its labels.        *)
(***************************************************************************)
LEMMA WokenType ==
    ASSUME NEW f \in [Threads -> Labels]
    PROVE  Woken(f) \in [Threads -> Labels]
  BY DEF Woken, Labels

(***************************************************************************)
(* A new circuit is well typed.                                            *)
(***************************************************************************)
LEMMA InitTypeOK == Init => TypeOK
<1> SUFFICES ASSUME Init PROVE TypeOK
  OBVIOUS
<1> USE DEF Init
<1>1. ThreadsOK
  BY DEF ThreadsOK, Labels
<1>2. WindowsOK
  BY SendAssumption DEF SendAssumption, WindowsOK
<1>3. ChainOK
  BY DEF ChainOK, Cells, NoCell
<1>4. WireOK
  BY DEF WireOK
<1>5. InboundOK
  BY DEF InboundOK, Inbounds
<1>6. FlagsOK
  BY DEF FlagsOK
<1>7. QED
  BY <1>1, <1>2, <1>3, <1>4, <1>5, <1>6 DEF TypeOK

(***************************************************************************)
(* Every variable of the circuit keeps its type under every step of the    *)
(* writers, senders, closers, pump, I/O thread and far end.                *)
(***************************************************************************)
LEMMA StepTypeOK == TypeOK /\ [Next]_vars => TypeOK'
<1> USE DEF vars, locks, chain, wire, far, rx, flags
<1> SUFFICES ASSUME TypeOK, [Next]_vars PROVE TypeOK'
  OBVIOUS
<1> USE SendAssumption, ThreadsInclude DEF SendAssumption, TypeOK
<1>1. ThreadsOK'
  <2> USE DEF ThreadsOK, Goto
  <2>1. ASSUME NEW w \in Writers, Writer(w) PROVE ThreadsOK'
    BY <2>1 DEF Writer, Running, SendDataRoom, SendDataError, SendDataPark, SendDataPass,
                SendDataSleep, SendDataExpire, TakeOrder, Build, SendCell, Labels
  <2>2. ASSUME NEW s \in Senders, Sender(s) PROVE ThreadsOK'
    BY <2>2 DEF Sender, SendRelayBegin, TakeOrder, Build, BuildRefused, SendCell, Labels
  <2>3. ASSUME NEW c \in Closers, Closer(c) PROVE ThreadsOK'
    BY <2>3, WokenType DEF Closer, CloseSwap, CloseDestroy, CloseNotify, Labels
  <2>4. CASE PumpStep
    BY <2>4, WokenType DEF PumpStep, PumpRecv, PumpOrder, PumpSendme, PumpData, NoteReceived,
                PumpSend, PumpBuffer, PumpExit, PumpNotify, Labels
  <2>5. CASE Io \/ Far \/ UNCHANGED vars
    BY <2>5 DEF Io, IoSwap, IoWrite, IoEnd, Far, FarSendme, FarData, FarDestroy, Deliver
  <2>6. QED
    BY <2>1, <2>2, <2>3, <2>4, <2>5 DEF Next
<1>2. WindowsOK'
  <2> USE DEF WindowsOK
  <2>1. ASSUME NEW w \in Writers, Writer(w) PROVE WindowsOK'
    BY <2>1 DEF Writer, Running, SendDataRoom, SendDataError, SendDataPark, SendDataPass,
                SendDataSleep, SendDataExpire, TakeOrder, Build, SendCell
  <2>2. ASSUME NEW s \in Senders, Sender(s) PROVE WindowsOK'
    BY <2>2 DEF Sender, SendRelayBegin, TakeOrder, Build, BuildRefused, SendCell
  <2>3. ASSUME NEW c \in Closers, Closer(c) PROVE WindowsOK'
    BY <2>3 DEF Closer, CloseSwap, CloseDestroy, CloseNotify
  <2>4. CASE PumpStep
    BY <2>4 DEF PumpStep, PumpRecv, PumpOrder, PumpSendme, PumpData, NoteReceived,
                PumpSend, PumpBuffer, PumpExit, PumpNotify
  <2>5. CASE Io \/ Far \/ UNCHANGED vars
    BY <2>5 DEF Io, IoSwap, IoWrite, IoEnd, Far, FarSendme, FarData, FarDestroy, Deliver
  <2>6. QED
    BY <2>1, <2>2, <2>3, <2>4, <2>5 DEF Next
<1>3. ChainOK'
  <2> USE DEF ChainOK
  <2>1. NoCell \in Cells
    BY DEF Cells, NoCell
  <2>2. ASSUME NEW t \in Threads, NEW k \in {"DATA", "CTRL", "SENDME", "XOFF"},
               BuildRelayCell(t, k)
        PROVE  ChainOK'
    BY <2>2 DEF BuildRelayCell, Cells
  <2>3. ASSUME NEW t \in Threads, built' = [built EXCEPT ![t] = NoCell], digest' = digest
        PROVE  ChainOK'
    BY <2>1, <2>3
  <2>4. CASE UNCHANGED chain
    BY <2>4
  <2>5. QED
    BY <2>2, <2>3, <2>4 DEF Next, Writer, Running, SendDataRoom, SendDataError, SendDataPark,
       SendDataPass, SendDataSleep, SendDataExpire, TakeOrder, Build, SendCell, Sender,
       SendRelayBegin, BuildRefused, Closer, CloseSwap, CloseDestroy, CloseNotify,
       PumpStep, PumpRecv, PumpOrder, PumpSendme, PumpData, PumpSend, PumpBuffer,
       PumpExit, PumpNotify, Io, IoSwap, IoWrite, IoEnd, Far, FarSendme, FarData,
       FarDestroy, Deliver
<1>4. WireOK'
  <2> USE DEF WireOK
  <2>1. ASSUME NEW cell \in Cells, Enqueue(cell) PROVE WireOK'
    BY <2>1 DEF Enqueue
  <2>2. CASE UNCHANGED wire
    BY <2>2
  <2>3. CASE IoSwap \/ IoWrite
    BY <2>3 DEF IoSwap, IoWrite
  <2>4. [kind |-> "DESTROY", digest |-> 0] \in Cells
    BY DEF Cells
  <2>5. \A t \in Threads : built[t] \in Cells
    BY DEF ChainOK
  <2>6. QED
    BY <2>1, <2>2, <2>3, <2>4, <2>5 DEF Next, Writer, Running, SendDataRoom, SendDataError,
       SendDataPark, SendDataPass, SendDataSleep, SendDataExpire, TakeOrder, Build,
       SendCell, Sender, SendRelayBegin, BuildRefused, Closer, CloseSwap, CloseDestroy,
       CloseNotify, PumpStep, PumpRecv, PumpOrder, PumpSendme, PumpData, PumpSend,
       PumpBuffer, PumpExit, PumpNotify, Io, IoEnd, Far, FarSendme, FarData,
       FarDestroy, Deliver
<1>5. InboundOK'
  <2> USE DEF InboundOK
  <2>1. CASE PumpRecv
    BY <2>1 DEF PumpRecv
  <2>2. CASE Far
    BY <2>2 DEF Far, FarSendme, FarData, FarDestroy, Deliver, Inbounds
  <2>3. CASE UNCHANGED <<inbound, handling>>
    BY <2>3
  <2>4. QED
    BY <2>1, <2>2, <2>3 DEF Next, Writer, Running, SendDataRoom, SendDataError, SendDataPark,
       SendDataPass, SendDataSleep, SendDataExpire, TakeOrder, Build, SendCell, Sender,
       SendRelayBegin, BuildRefused, Closer, CloseSwap, CloseDestroy, CloseNotify,
       PumpStep, PumpOrder, PumpSendme, PumpData, PumpSend, PumpBuffer, PumpExit,
       PumpNotify, Io, IoSwap, IoWrite, IoEnd
<1>6. FlagsOK'
  BY DEF FlagsOK, Next, Writer, Running, SendDataRoom, SendDataError, SendDataPark,
       SendDataPass, SendDataSleep, SendDataExpire, TakeOrder, Build, SendCell, Sender,
       SendRelayBegin, BuildRefused, Closer, CloseSwap, CloseDestroy, CloseNotify,
       PumpStep, PumpRecv, PumpOrder, PumpSendme, PumpData, PumpSend, PumpBuffer,
       PumpExit, PumpNotify, Io, IoSwap, IoWrite, IoEnd, Far, FarSendme, FarData,
       FarDestroy, Deliver
<1>7. QED
  BY <1>1, <1>2, <1>3, <1>4, <1>5, <1>6

(***************************************************************************)
(* Type correctness of the whole specification.                            *)
(***************************************************************************)
THEOREM TypeCorrect == Spec => []TypeOK
  BY InitTypeOK, StepTypeOK, PTL DEF Spec

-----------------------------------------------------------------------------
(***************************************************************************)
(* The ordering lock is held by exactly the thread between taking it and   *)
(* handing its cell over, for each action on its own.                      *)
(***************************************************************************)
LEMMA OrderStep ==
    ASSUME TypeOK, OrderInv, [Next]_vars
    PROVE  OrderInv'
<1> USE ThreadsInclude
    DEF TypeOK, ThreadsOK, OrderInv, OrderHeld, Goto, vars, locks
<1>1. ASSUME NEW w \in Writers, Writer(w) PROVE OrderInv'
  BY <1>1 DEF Writer, Running, SendDataRoom, SendDataError, SendDataPark, SendDataPass,
              SendDataSleep, SendDataExpire, TakeOrder, Build, SendCell
<1>2. ASSUME NEW s \in Senders, Sender(s) PROVE OrderInv'
  BY <1>2 DEF Sender, SendRelayBegin, TakeOrder, Build, BuildRefused, SendCell
<1>3. ASSUME NEW c \in Closers, Closer(c) PROVE OrderInv'
  BY <1>3 DEF Closer, CloseSwap, CloseDestroy, CloseNotify, Woken
<1>4. CASE PumpStep
  <2>1. CASE PumpRecv \/ PumpOrder \/ PumpSendme
    BY <2>1 DEF PumpRecv, PumpOrder, PumpSendme, Woken
  <2>2. CASE PumpData
    BY <2>2 DEF PumpData, NoteReceived
  <2>3. CASE PumpSend \/ PumpBuffer
    BY <2>3 DEF PumpSend, PumpBuffer
  <2>4. CASE PumpExit \/ PumpNotify
    BY <2>4 DEF PumpExit, PumpNotify, Woken
  <2>5. QED
    BY <1>4, <2>1, <2>2, <2>3, <2>4 DEF PumpStep
<1>5. CASE Io \/ Far \/ UNCHANGED vars
  BY <1>5 DEF Io, IoSwap, IoWrite, IoEnd, Far, FarSendme, FarData, FarDestroy, Deliver
<1>6. QED
  BY <1>1, <1>2, <1>3, <1>4, <1>5 DEF Next

(***************************************************************************)
(* A step that neither builds nor hands over a cell keeps the chain.       *)
(***************************************************************************)
LEMMA KeepChain ==
    ASSUME TypeOK, ChainInv, DigestChain,
           UNCHANGED <<digest, built, lane>>, chanClosed => chanClosed',
           \A t \in Threads : pc'[t] = "send" <=> pc[t] = "send"
    PROVE  ChainInv' /\ DigestChain'
  BY DEF ChainInv, DigestChain, LaneInOrder, LaneHasNoGap

(***************************************************************************)
(* build_relay_cell keeps the chain when nobody else has a cell in hand.   *)
(***************************************************************************)
LEMMA BuildChain ==
    ASSUME TypeOK, ChainInv, DigestChain,
           NEW t \in Threads, NEW k \in {"DATA", "CTRL", "SENDME", "XOFF"},
           BuildRelayCell(t, k),
           UNCHANGED <<lane, chanClosed>>,
           \A u \in Threads : pc[u] # "send",
           \A u \in Threads : pc'[u] = "send" <=> u = t
    PROVE  ChainInv' /\ DigestChain'
<1>1. /\ digest \in Nat /\ digest' = digest + 1
      /\ built'[t].kind = k /\ built'[t].digest = digest + 1
  BY DEF BuildRelayCell, TypeOK, ChainOK
<1>2. \A i \in DOMAIN lane : lane[i].digest \in Nat
  BY LaneDigests DEF TypeOK, WireOK
<1>3. IsRelay(built'[t])
  BY <1>1 DEF IsRelay
<1>4. DigestChain'
  BY DEF DigestChain, LaneInOrder, LaneHasNoGap
<1>5. \A i \in DOMAIN lane : IsRelay(lane[i]) => lane[i].digest <= digest
  BY DEF ChainInv
<1>6. chanClosed \/ \A d \in 1..digest :
          \E j \in DOMAIN lane : IsRelay(lane[j]) /\ lane[j].digest = d
  BY DEF ChainInv
<1>7. ASSUME NEW d \in 1..(digest + 1) PROVE d \in 1..digest \/ d = digest + 1
  BY <1>1
<1>8. ChainInv'
  BY <1>1, <1>2, <1>3, <1>5, <1>6, <1>7 DEF ChainInv
<1>9. QED
  BY <1>4, <1>8

(***************************************************************************)
(* send_cell appends the one cell in hand, which is the next of the chain. *)
(***************************************************************************)
LEMMA SendChain ==
    ASSUME TypeOK, ChainInv, DigestChain,
           NEW t \in Threads, pc[t] = "send",
           Enqueue(built[t]), UNCHANGED <<digest, chanClosed>>,
           \A u \in Threads : pc'[u] # "send"
    PROVE  ChainInv' /\ DigestChain'
<1> DEFINE n == Len(lane) + 1
<1>1. /\ lane \in Seq(Cells) /\ digest \in Nat /\ built[t] \in Cells
      /\ lane' = Append(lane, built[t]) /\ ~chanClosed
  BY DEF TypeOK, WireOK, ChainOK, Enqueue
<1>2. /\ DOMAIN lane = 1..Len(lane) /\ DOMAIN lane' = 1..n /\ Len(lane) \in Nat
      /\ lane'[n] = built[t]
      /\ \A i \in 1..Len(lane) : lane'[i] = lane[i]
  BY <1>1
<1>3. IsRelay(built[t]) /\ built[t].digest = digest
  BY DEF ChainInv
<1>4. \A i \in DOMAIN lane : IsRelay(lane[i]) => lane[i].digest < digest
  BY DEF ChainInv
<1>5. \A i \in DOMAIN lane : lane[i].digest \in Nat
  BY <1>1, LaneDigests
<1>6. \A d \in 1..digest : d # digest =>
          \E j \in DOMAIN lane : IsRelay(lane[j]) /\ lane[j].digest = d
  BY <1>1 DEF ChainInv
<1>7. LaneInOrder'
  BY <1>2, <1>3, <1>4, <1>5 DEF DigestChain, LaneInOrder
<1>8. LaneHasNoGap'
  <2> SUFFICES ASSUME NEW i \in 1..n, IsRelay(lane'[i]), NEW d \in 1..lane'[i].digest
               PROVE  \E j \in 1..i : IsRelay(lane'[j]) /\ lane'[j].digest = d
    BY <1>2 DEF LaneHasNoGap
  <2>1. CASE i = n /\ d = digest
    BY <2>1, <1>2, <1>3
  <2>2. CASE i = n /\ d # digest
    BY <2>2, <1>1, <1>2, <1>3, <1>6
  <2>3. CASE i \in 1..Len(lane)
    BY <2>3, <1>2 DEF DigestChain, LaneHasNoGap
  <2>4. QED
    BY <2>1, <2>2, <2>3, <1>2
<1>9. \A i \in DOMAIN lane' : IsRelay(lane'[i]) => lane'[i].digest <= digest
  BY <1>1, <1>2, <1>3, <1>4, <1>5
<1>10. \A d \in 1..digest : \E j \in DOMAIN lane' : IsRelay(lane'[j]) /\ lane'[j].digest = d
  <2> SUFFICES ASSUME NEW d \in 1..digest
               PROVE  \E j \in 1..n : IsRelay(lane'[j]) /\ lane'[j].digest = d
    BY <1>2
  <2>1. CASE d = digest
    BY <2>1, <1>2, <1>3
  <2>2. CASE d # digest
    BY <2>2, <1>2, <1>6
  <2>3. QED
    BY <2>1, <2>2
<1>11. ChainInv'
  BY <1>9, <1>10 DEF ChainInv
<1>12. QED
  BY <1>7, <1>8, <1>11 DEF DigestChain

(***************************************************************************)
(* A DESTROY joins the lane without being part of the chain.               *)
(***************************************************************************)
LEMMA DestroyChain ==
    ASSUME TypeOK, ChainInv, DigestChain,
           Enqueue([kind |-> "DESTROY", digest |-> 0]),
           UNCHANGED <<digest, built, chanClosed>>,
           \A t \in Threads : pc'[t] = "send" <=> pc[t] = "send"
    PROVE  ChainInv' /\ DigestChain'
<1> DEFINE n == Len(lane) + 1
<1> DEFINE destroy == [kind |-> "DESTROY", digest |-> 0]
<1>1. lane \in Seq(Cells) /\ destroy \in Cells /\ lane' = Append(lane, destroy)
  BY DEF TypeOK, WireOK, Cells, Enqueue
<1>2. /\ DOMAIN lane = 1..Len(lane) /\ DOMAIN lane' = 1..n /\ Len(lane) \in Nat
      /\ lane'[n] = destroy
      /\ \A i \in 1..Len(lane) : lane'[i] = lane[i]
  BY <1>1
<1>3. ~IsRelay(lane'[n])
  BY <1>2 DEF IsRelay
<1>4. \A i \in DOMAIN lane' : IsRelay(lane'[i]) => i \in DOMAIN lane /\ lane'[i] = lane[i]
  BY <1>2, <1>3
<1>5. LaneInOrder'
  BY <1>4 DEF DigestChain, LaneInOrder
<1>6. LaneHasNoGap'
  BY <1>2, <1>4 DEF DigestChain, LaneHasNoGap
<1>7. ChainInv'
  BY <1>2, <1>4 DEF ChainInv
<1>8. QED
  BY <1>5, <1>6, <1>7 DEF DigestChain

(***************************************************************************)
(* Every step of the circuit keeps the chain: Build, PumpData and          *)
(* PumpBuffer extend it, SendCell and PumpSend hand its newest cell over,  *)
(* CloseDestroy passes it by, and the others leave it alone.               *)
(***************************************************************************)
LEMMA ChainStep ==
    ASSUME TypeOK, OrderInv, ChainInv, DigestChain, [Next]_vars
    PROVE  ChainInv' /\ DigestChain'
<1> USE ThreadsInclude DEF Goto, vars, locks, chain, wire, far, rx, flags
<1>1. pc \in [Threads -> Labels]
  BY DEF TypeOK, ThreadsOK
<1>2. ASSUME NEW t \in Threads, pc[t] \in OrderHeld
      PROVE  \A u \in Threads : u # t => pc[u] # "send"
  BY <1>2 DEF OrderInv, OrderHeld
<1>3. ASSUME NEW t \in Threads, Build(t)
      PROVE  ChainInv' /\ DigestChain'
  <2>1. \A u \in Threads : pc[u] # "send"
    BY <1>2, <1>3 DEF Build, OrderHeld
  <2>2. \A u \in Threads : pc'[u] = "send" <=> u = t
    BY <1>1, <1>3, <2>1 DEF Build
  <2>3. QED
    BY <1>3, <2>1, <2>2, BuildChain DEF Build
<1>4. ASSUME NEW t \in Threads, SendCell(t)
      PROVE  ChainInv' /\ DigestChain'
  <2>1. \A u \in Threads : pc'[u] # "send"
    BY <1>1, <1>2, <1>4 DEF SendCell, OrderHeld
  <2>2. CASE Enqueue(built[t])
    BY <1>4, <2>1, <2>2, SendChain DEF SendCell
  <2>3. CASE chanClosed /\ UNCHANGED wire
    BY <1>4, <2>1, <2>3 DEF SendCell, ChainInv, DigestChain, LaneInOrder, LaneHasNoGap
  <2>4. QED
    BY <1>4, <2>2, <2>3 DEF SendCell
<1>5. CASE PumpData \/ PumpBuffer
  <2>1. pc[Pump] \in OrderHeld /\ pc[Pump] # "send"
    BY <1>5 DEF PumpData, PumpBuffer, OrderHeld
  <2>2. \A u \in Threads : pc[u] # "send"
    BY <1>2, <2>1
  <2>3. \A u \in Threads \ {Pump} : pc'[u] # "send"
    BY <1>1, <1>5, <2>2 DEF PumpData, PumpBuffer
  <2>4. CASE pc'[Pump] = "send"
    <3>1. /\ BuildRelayCell(Pump, "SENDME") \/ BuildRelayCell(Pump, "XOFF")
          /\ UNCHANGED <<lane, chanClosed>>
      BY <1>1, <1>5, <2>4 DEF PumpData, PumpBuffer
    <3>2. QED
      BY <2>2, <2>3, <2>4, <3>1, BuildChain
  <2>5. CASE pc'[Pump] # "send"
    <3>1. UNCHANGED <<digest, built, lane, chanClosed>>
      BY <1>1, <1>5, <2>5 DEF PumpData, PumpBuffer
    <3>2. QED
      BY <2>2, <2>3, <2>5, <3>1, KeepChain
  <2>6. QED
    BY <2>4, <2>5
<1>6. CASE PumpSend
  <2>1. \A u \in Threads : pc'[u] # "send"
    BY <1>1, <1>2, <1>6 DEF PumpSend, OrderHeld
  <2>2. CASE Enqueue(built[Pump])
    BY <1>6, <2>1, <2>2, SendChain DEF PumpSend
  <2>3. CASE chanClosed /\ UNCHANGED wire
    BY <1>6, <2>1, <2>3 DEF PumpSend, ChainInv, DigestChain, LaneInOrder, LaneHasNoGap
  <2>4. QED
    BY <1>6, <2>2, <2>3 DEF PumpSend
<1>7. ASSUME NEW c \in Closers, CloseDestroy(c)
      PROVE  ChainInv' /\ DigestChain'
  <2>1. \A u \in Threads : pc'[u] = "send" <=> pc[u] = "send"
    BY <1>1, <1>7 DEF CloseDestroy
  <2>2. CASE Enqueue([kind |-> "DESTROY", digest |-> 0])
    BY <1>7, <2>1, <2>2, DestroyChain DEF CloseDestroy
  <2>3. CASE UNCHANGED wire
    BY <1>7, <2>1, <2>3, KeepChain DEF CloseDestroy
  <2>4. QED
    BY <1>7, <2>2, <2>3 DEF CloseDestroy
<1>8. ASSUME NEW w \in Writers,
             SendDataRoom(w) \/ SendDataError(w) \/ SendDataPark(w) \/ SendDataSleep(w)
                 \/ SendDataExpire(w)
      PROVE  ChainInv' /\ DigestChain'
  <2>1. \A u \in Threads : pc'[u] = "send" <=> pc[u] = "send"
    BY <1>1, <1>8 DEF SendDataRoom, SendDataError, SendDataPark, SendDataPass,
                      SendDataSleep, SendDataExpire
  <2>2. UNCHANGED <<digest, built, lane, chanClosed>>
    BY <1>8 DEF SendDataRoom, SendDataError, SendDataPark, SendDataPass,
                SendDataSleep, SendDataExpire
  <2>3. QED
    BY <2>1, <2>2, KeepChain
<1>9. ASSUME NEW t \in Threads, SendRelayBegin(t) \/ TakeOrder(t) \/ BuildRefused(t)
      PROVE  ChainInv' /\ DigestChain'
  <2>1. \A u \in Threads : pc'[u] = "send" <=> pc[u] = "send"
    BY <1>1, <1>9 DEF SendRelayBegin, TakeOrder, BuildRefused
  <2>2. QED
    BY <1>9, <2>1, KeepChain DEF SendRelayBegin, TakeOrder, BuildRefused
<1>10. ASSUME NEW c \in Closers, CloseSwap(c) \/ CloseNotify(c)
       PROVE  ChainInv' /\ DigestChain'
  <2>1. \A u \in Threads : pc'[u] = "send" <=> pc[u] = "send"
    BY <1>1, <1>10 DEF CloseSwap, CloseNotify, Woken
  <2>2. QED
    BY <1>10, <2>1, KeepChain DEF CloseSwap, CloseNotify
<1>11. CASE PumpRecv \/ PumpOrder \/ PumpSendme \/ PumpExit \/ PumpNotify
  <2>1. \A u \in Threads : pc'[u] = "send" <=> pc[u] = "send"
    BY <1>1, <1>11 DEF PumpRecv, PumpOrder, PumpSendme, PumpExit, PumpNotify, Woken
  <2>2. UNCHANGED <<digest, built, lane, chanClosed>>
    BY <1>11 DEF PumpRecv, PumpOrder, PumpSendme, PumpExit, PumpNotify
  <2>3. QED
    BY <2>1, <2>2, KeepChain
<1>12. CASE Io \/ Far \/ UNCHANGED vars
  <2>1. UNCHANGED <<pc, digest, built, lane>> /\ (chanClosed => chanClosed')
    BY <1>12 DEF Io, IoSwap, IoWrite, IoEnd, Far, FarSendme, FarData, FarDestroy, Deliver
  <2>2. QED
    BY <2>1, KeepChain
<1>13. QED
  BY <1>3, <1>4, <1>5, <1>6, <1>7, <1>8, <1>9, <1>10, <1>11, <1>12
     DEF Next, Writer, Running, Sender, Closer, PumpStep

(***************************************************************************)
(* However the threads of a circuit interleave, and wherever the channel   *)
(* or the circuit dies, the relay cells that reach the channel form an     *)
(* unbroken prefix of the digest chain.                                    *)
(***************************************************************************)
THEOREM DigestOrder == Spec => []DigestChain
<1>1. Init => SendInv
  <2> SUFFICES ASSUME Init PROVE SendInv
    OBVIOUS
  <2>1. TypeOK
    <3>1. Init => TypeOK
      BY InitTypeOK
    <3>2. QED
      BY <3>1
  <2>2. OrderInv
    BY ThreadsInclude DEF Init, OrderInv, OrderHeld
  <2>3. lane = <<>> /\ digest = 0 /\ \A t \in Threads : pc[t] # "send"
    BY DEF Init
  <2>4. ChainInv /\ DigestChain
    BY <2>3 DEF ChainInv, DigestChain, LaneInOrder, LaneHasNoGap
  <2>5. QED
    BY <2>1, <2>2, <2>4 DEF SendInv
<1>2. SendInv /\ [Next]_vars => SendInv'
  BY StepTypeOK, OrderStep, ChainStep DEF SendInv
<1>3. SendInv => DigestChain
  BY DEF SendInv
<1>4. QED
  BY <1>1, <1>2, <1>3, PTL DEF Spec

-----------------------------------------------------------------------------
(* Congestion control: module Vegas.                                       *)


(***************************************************************************)
(* Integer division: the quotient and the remainder, and how they change   *)
(* when the dividend grows by one or by the divisor.                       *)
(***************************************************************************)
LEMMA Division ==
    ASSUME NEW n \in Nat, NEW k \in Nat \ {0}
    PROVE  n = k * (n \div k) + (n % k) /\ n \div k \in Nat /\ n % k \in 0..k - 1
OBVIOUS

\* Quotient and remainder are unique.
LEMMA Unique ==
    ASSUME NEW k \in Nat \ {0}, NEW q \in Int, NEW p \in Int,
           NEW r \in 0..k - 1, NEW s \in 0..k - 1, k * q + r = k * p + s
    PROVE  q = p /\ r = s
<1>1. k * (q - p) = s - r
  OBVIOUS
<1>2. CASE q - p >= 1
  <2>1. k * (q - p) >= k
    BY <1>2
  <2>2. QED
    BY <1>1, <2>1
<1>3. CASE q - p <= -1
  <2>1. k * (q - p) <= -k
    BY <1>3
  <2>2. QED
    BY <1>1, <2>1
<1>4. QED
  BY <1>1, <1>2, <1>3

\* A quotient and a remainder found by any means are those of the operators.
LEMMA Quotient ==
    ASSUME NEW k \in Nat \ {0}, NEW n \in Nat, NEW q \in Int, NEW r \in 0..k - 1,
           n = k * q + r
    PROVE  n \div k = q /\ n % k = r
<1>1. n = k * (n \div k) + (n % k) /\ n \div k \in Nat /\ n % k \in 0..k - 1
  BY Division
<1>2. PICK p \in Nat, s \in 0..k - 1 : p = n \div k /\ s = n % k /\ n = k * p + s
  BY <1>1
<1>3. p = q /\ s = r
  BY ONLY k \in Nat \ {0}, q \in Int, r \in 0..k - 1, n = k * q + r, <1>2, Unique
<1>4. QED
  BY <1>2, <1>3

\* The quotient grows by one when the remainder comes round to zero.
LEMMA OneMore ==
    ASSUME NEW n \in Nat, NEW k \in Nat \ {0}
    PROVE  (n + 1) \div k = IF (n + 1) % k = 0 THEN n \div k + 1 ELSE n \div k
<1>1. PICK q \in Nat, r \in 0..k - 1 : n \div k = q /\ n % k = r /\ n = k * q + r
  BY Division
<1>2. PICK m \in Nat : m = n + 1
  OBVIOUS
<1>3. CASE r = k - 1
  <2>1. m = k * (q + 1) + 0
    BY <1>1, <1>2, <1>3
  <2>2. m \div k = q + 1 /\ m % k = 0
    BY <2>1, Quotient
  <2>3. QED
    BY <1>1, <1>2, <2>2
<1>4. CASE r # k - 1
  <2>1. m = k * q + (r + 1)
    BY <1>1, <1>2, <1>4
  <2>2. m \div k = q /\ m % k = r + 1
    BY <1>1, <1>2, <1>4, <2>1, Quotient
  <2>3. QED
    BY <1>1, <1>2, <2>2
<1>5. QED
  BY <1>3, <1>4

\* The quotient of a number that is larger by the divisor.
LEMMA OneWhole ==
    ASSUME NEW n \in Nat, NEW k \in Nat \ {0}
    PROVE  (n + k) \div k = n \div k + 1 /\ (n + k) % k = n % k
<1>1. PICK q \in Nat, r \in 0..k - 1 : n \div k = q /\ n % k = r /\ n = k * q + r
  BY Division
<1>2. PICK m \in Nat : m = n + k
  OBVIOUS
<1>3. m = k * (q + 1) + r
  BY <1>1, <1>2
<1>4. m \div k = q + 1 /\ m % k = r
  BY <1>3, Quotient
<1>5. QED
  BY <1>1, <1>2, <1>4

\* Quotients grow with the number that is divided.
LEMMA Monotone ==
    ASSUME NEW m \in Nat, NEW n \in Nat, NEW k \in Nat \ {0}, m <= n
    PROVE  m \div k <= n \div k
<1>1. PICK p \in Nat, s \in 0..k - 1 : m \div k = p /\ m = k * p + s
  BY Division
<1>2. PICK q \in Nat, r \in 0..k - 1 : n \div k = q /\ n = k * q + r
  BY Division
<1>3. CASE p >= q + 1
  <2>1. k * p >= k * q + k
    BY <1>3
  <2>2. QED
    BY <1>1, <1>2, <2>1
<1>4. QED
  BY <1>1, <1>2, <1>3

(***************************************************************************)
(* A window scaled by a ratio of at most one does not grow.                *)
(***************************************************************************)
LEMMA Scaled ==
    ASSUME NEW a \in Nat, NEW b \in Nat, NEW c \in Nat \ {0}, b <= c
    PROVE  (a * b) \div c \in Nat /\ (a * b) \div c <= a
<1>1. a * b \in Nat /\ a * b <= a * c
  OBVIOUS
<1>2. PICK q \in Nat : q = (a * b) \div c /\ c * q <= a * b
  BY <1>1, Division
<1>3. c * q <= c * a
  BY <1>1, <1>2
<1>4. q <= a
  BY <1>2, <1>3
<1>5. QED
  BY <1>2, <1>4

(***************************************************************************)
(* The weighted average of a reset lies at or below the larger round trip. *)
(***************************************************************************)
LEMMA Averaged ==
    ASSUME NEW e \in Nat, NEW m \in Nat, NEW p \in Nat, p <= 100, m <= e
    PROVE  /\ (m \div 100) * (100 - p) + (e \div 100) * p \in Nat
           /\ (m \div 100) * (100 - p) + (e \div 100) * p <= e
<1>1. PICK x \in Nat, y \in Nat : x = m \div 100 /\ y = e \div 100 /\ x <= y /\ 100 * y <= e
  OBVIOUS
<1>2. x * (100 - p) <= y * (100 - p) /\ x * (100 - p) \in Nat
  BY <1>1
<1>3. y * (100 - p) = y * 100 - y * p /\ y * p \in Nat
  OBVIOUS
<1>4. QED
  BY <1>1, <1>2, <1>3

(***************************************************************************)
(* Smoothing two samples of at least a microsecond gives at least one.     *)
(***************************************************************************)
LEMMA SmoothedAboveZero ==
    ASSUME NEW r \in Nat \ {0}, NEW e \in Nat \ {0}, NEW n \in Nat, n >= 2
    PROVE  (2 * r + e * (n - 1)) \div (n + 1) \in Nat \ {0}
<1>1. e * (n - 1) >= n - 1
  OBVIOUS
<1>2. PICK t \in Nat, k \in Nat \ {0} : t = 2 * r + e * (n - 1) /\ k = n + 1 /\ t >= k
  BY <1>1
<1>3. PICK q \in Nat, s \in 0..k - 1 : t \div k = q /\ t % k = s /\ t = k * q + s
  BY Division
<1>4. q # 0
  BY <1>2, <1>3
<1>5. QED
  BY <1>2, <1>3, <1>4

(***************************************************************************)
(* The code's helpers: clamp_cwnd keeps a window in range, whichever way   *)
(* round the consensus set the limits, and the others return what their    *)
(* types say.                                                              *)
(***************************************************************************)
LEMMA Clamped ==
    ASSUME NEW w \in Nat
    PROVE  /\ ClampCwnd(w) \in Floor..Ceiling
           /\ w >= Floor => ClampCwnd(w) <= w
<1>0. CwndMin \in Nat /\ CwndMax \in Nat
  BY VegasAssumption DEF VegasAssumption
<1> DEFINE low == AtLeast(AtLeast(0, CwndMin), 1)
           high == AtLeast(CwndMax, 1)
<1>1. low \in Nat /\ high \in Nat /\ CwndMin <= low /\ 1 <= low
      /\ (low = CwndMin \/ low = 1)
  BY ONLY <1>0 DEF AtLeast
<1>2. Floor = AtMost(low, high) /\ Ceiling = high
  BY DEF Floor, Ceiling, ClampCwnd
<1>3. AtLeast(AtLeast(w, CwndMin), 1) = AtLeast(w, low)
  BY ONLY <1>0, w \in Nat DEF AtLeast
<1>4. ClampCwnd(w) = AtMost(AtLeast(w, low), high)
  BY <1>3 DEF ClampCwnd
<1> HIDE DEF low, high
<1>5. QED
  BY ONLY w \in Nat, <1>1, <1>2, <1>4 DEF AtLeast, AtMost

\* A window below the floor is raised to it.
LEMMA LowClamp ==
    ASSUME NEW w \in Nat, w < Floor
    PROVE  ClampCwnd(w) = Floor
<1>0. CwndMin \in Nat /\ CwndMax \in Nat
  BY VegasAssumption DEF VegasAssumption
<1>1. QED
  BY <1>0 DEF ClampCwnd, Floor, AtLeast, AtMost

\* The floor is at most the ceiling, and neither is zero.
LEMMA Limits == Floor \in Nat \ {0} /\ Ceiling \in Nat \ {0} /\ Floor <= Ceiling
BY VegasAssumption DEF VegasAssumption, ClampCwnd, Floor, Ceiling, AtLeast, AtMost

\* A rounded quotient is a number.
LEMMA RoundedNat ==
    ASSUME NEW a \in Nat, NEW b \in Nat \ {0}
    PROVE  Rounded(a, b) \in Nat
<1>1. PICK x \in Nat : x = a + b \div 2
  OBVIOUS
<1>2. x \div b \in Nat
  BY Division
<1>3. QED
  BY <1>1, <1>2 DEF Rounded

\* How many SENDMEs there are to a window, and to an update of it.
LEMMA Rates ==
    ASSUME NEW w \in Nat, NEW slow \in BOOLEAN
    PROVE  SendmePerCwnd(w) \in Nat /\ CwndUpdateRate(slow, w) \in Nat
<1> USE VegasAssumption DEF VegasAssumption
<1>1. SendmePerCwnd(w) \in Nat
  BY RoundedNat DEF SendmePerCwnd, AtLeast
<1>2. CwndIncRate * Inc \in Nat \ {0}
  OBVIOUS
<1>3. CwndUpdateRate(slow, w) \in Nat
  BY <1>2, RoundedNat DEF CwndUpdateRate, AtLeast
<1>4. QED
  BY <1>1, <1>3

\* The number of samples smoothed over is at least two.
LEMMA Smoothing ==
    ASSUME cwnd \in Nat, inSlowStart \in BOOLEAN
    PROVE  EwmaN \in Nat /\ EwmaN >= 2
<1> USE VegasAssumption DEF VegasAssumption
<1>1. PICK r \in Nat : r = CwndUpdateRate(FALSE, cwnd)
  BY Rates
<1>0. r * EwmaCwndPct \in Nat
  OBVIOUS
<1>2. PICK x \in Nat : x = CwndUpdateRate(FALSE, cwnd) * EwmaCwndPct
  BY <1>0, <1>1, Zenon
<1>3. PICK y \in Nat : y = x \div 100
  OBVIOUS
<1>4. EwmaN = IF inSlowStart THEN AtLeast(EwmaSs, 2) ELSE AtLeast(AtMost(y, EwmaMax), 2)
  BY <1>2, <1>3 DEF EwmaN
<1>5. QED
  BY <1>4 DEF AtLeast, AtMost

\* The increment of slow start is a number.
LEMMA IncrementGrows ==
    ASSUME cwnd \in Nat \ {0}
    PROVE  Rfc3742SsInc \in Nat
<1> USE VegasAssumption DEF VegasAssumption
<1>1. PICK x \in Nat : x = CwndIncPctSs * Inc + 50
  OBVIOUS
<1>2. x \div 100 \in Nat
  OBVIOUS
<1>3. Inc * SsCap \in Nat /\ 2 * cwnd \in Nat \ {0}
  OBVIOUS
<1>4. Rounded(Inc * SsCap, 2 * cwnd) \in Nat
  BY <1>3, RoundedNat
<1>5. QED
  BY <1>1, <1>2, <1>4 DEF Rfc3742SsInc, AtLeast

\* The window lies between floor and ceiling.
LEMMA Windows ==
    ASSUME VegasTypeOK
    PROVE  cwnd \in Nat \ {0} /\ Floor <= cwnd /\ cwnd <= Ceiling
BY Limits DEF VegasTypeOK, CwndOK

(***************************************************************************)
(* update_rtt keeps the smallest round trip at or below the smoothed one,  *)
(* so the BDP it computes is at most the window.                           *)
(***************************************************************************)
LEMMA Estimates ==
    ASSUME VegasInv, NEW rtt \in Rtts \cup {0, Backwards}, Usable(rtt)
    PROVE  /\ Smoothed(rtt) \in Nat \ {0}
           /\ Smallest(Smoothed(rtt)) \in 1..Smoothed(rtt)
           /\ Bdp(Smoothed(rtt)) \in 0..cwnd
<1>1. rtt \in Nat \ {0}
  BY VegasAssumption DEF VegasAssumption, Usable
<1>2. ewma \in Nat /\ minRtt \in Nat /\ cwnd \in Nat /\ inSlowStart \in BOOLEAN
  BY Windows DEF VegasInv, VegasTypeOK, EstimatesOK
<1>3. PICK n \in Nat : n = EwmaN /\ n >= 2
  BY <1>2, Smoothing
<1>4. PICK e \in Nat \ {0} : e = Smoothed(rtt)
  <2>1. CASE ewma = 0
    BY <1>1, <2>1 DEF Smoothed
  <2>2. CASE ewma # 0
    <3>1. (2 * rtt + ewma * (n - 1)) \div (n + 1) \in Nat \ {0}
      BY <1>1, <1>2, <1>3, <2>2, SmoothedAboveZero
    <3>2. Smoothed(rtt) = (2 * rtt + ewma * (n - 1)) \div (n + 1)
      BY <1>3, <2>2 DEF Smoothed
    <3>3. QED
      BY <3>1, <3>2, Zenon
  <2>3. QED
    BY <2>1, <2>2
<1>5. PICK m \in Nat : m = Smallest(e) /\ m >= 1 /\ m <= e
  BY <1>2 DEF VegasInv, RttOrder, Smallest
<1>6. (cwnd * m) \div e \in Nat /\ (cwnd * m) \div e <= cwnd
  BY <1>2, <1>5, Scaled
<1>7. Bdp(e) \in 0..cwnd
  BY <1>2, <1>5, <1>6 DEF Bdp
<1>8. QED
  BY <1>4, <1>5, <1>7

(***************************************************************************)
(* The rules of vegas_update return a window, and with a queue that is too *)
(* long they return one no larger than the present.                        *)
(***************************************************************************)
LEMMA SlowRule ==
    ASSUME VegasTypeOK, NEW b \in 0..cwnd
    PROVE  /\ SlowCwnd(b) \in Nat
           /\ Less(cwnd, b) >= Gamma => SlowCwnd(b) <= cwnd
<1>0. Gamma \in Nat /\ SsMax \in Nat
  BY VegasAssumption DEF VegasAssumption
<1>1. cwnd \in Nat \ {0} /\ Floor <= cwnd /\ Floor \in Nat /\ Ceiling \in Nat
  BY Windows, Limits
<1>2. Less(cwnd, b) = cwnd - b
  BY <1>1 DEF Less
<1>3. PICK inc \in Nat : inc = Rfc3742SsInc
  BY <1>1, IncrementGrows
<1>4. /\ ClampCwnd(b + Gamma) \in Nat
      /\ ClampCwnd(cwnd + inc) \in Nat
      /\ cwnd - b >= Gamma => ClampCwnd(b + Gamma) <= cwnd
  <2>1. b + Gamma \in Nat /\ cwnd + inc \in Nat
    BY <1>0, <1>1
  <2>2. ClampCwnd(b + Gamma) \in Floor..Ceiling /\ ClampCwnd(cwnd + inc) \in Floor..Ceiling
    BY <2>1, Clamped
  <2>3. ASSUME cwnd - b >= Gamma PROVE ClampCwnd(b + Gamma) <= cwnd
    <3>1. b + Gamma <= cwnd
      BY <1>0, <1>1, <2>3
    <3>2. CASE b + Gamma >= Floor
      BY <1>1, <2>1, <2>2, <3>1, <3>2, Clamped
    <3>3. CASE b + Gamma < Floor
      BY <1>1, <2>1, <3>3, LowClamp
    <3>4. QED
      BY <1>1, <2>1, <3>2, <3>3
  <2>4. QED
    BY <1>1, <2>2, <2>3
<1>5. /\ Grown(b) \in Nat
      /\ cwnd - b >= Gamma => Grown(b) <= cwnd
  <2>1. CASE cwnd - b >= Gamma
    <3>1. Grown(b) = ClampCwnd(b + Gamma)
      BY <1>0, <1>1, <1>2, <2>1 DEF Grown
    <3>2. QED
      BY <1>4, <2>1, <3>1
  <2>2. CASE cwnd - b < Gamma /\ FullNow
    <3>1. Grown(b) = ClampCwnd(cwnd + inc)
      BY <1>0, <1>1, <1>2, <1>3, <2>2 DEF Grown
    <3>2. QED
      BY <1>0, <1>1, <1>4, <2>2, <3>1
  <2>3. CASE cwnd - b < Gamma /\ ~FullNow
    <3>1. Grown(b) = cwnd
      BY <1>0, <1>1, <1>2, <2>3 DEF Grown
    <3>2. QED
      BY <1>0, <1>1, <2>3, <3>1
  <2>4. QED
    BY <1>0, <1>1, <2>1, <2>2, <2>3
<1>6. ClampCwnd(SsMax) \in Nat
  BY <1>0, <1>1, Clamped
<1>7. ASSUME Grown(b) >= SsMax, Grown(b) <= cwnd PROVE ClampCwnd(SsMax) <= cwnd
  <2>1. CASE SsMax >= Floor
    BY <1>0, <1>1, <1>5, <1>6, <1>7, <2>1, Clamped
  <2>2. CASE SsMax < Floor
    BY <1>0, <1>1, <2>2, LowClamp
  <2>3. QED
    BY <1>0, <1>1, <2>1, <2>2
<1>8. QED
  BY <1>2, <1>5, <1>6, <1>7 DEF SlowCwnd

\* In steady state a queue longer than beta does not make the window grow.
LEMMA SteadyRule ==
    ASSUME VegasTypeOK, NEW b \in 0..cwnd
    PROVE  /\ SteadyCwnd(b) \in Nat
           /\ Less(cwnd, b) >= Beta + 1 => SteadyCwnd(b) <= cwnd
<1>0. Alpha \in Nat /\ Beta \in Nat /\ Delta \in Nat /\ CwndInc \in Nat
  BY VegasAssumption DEF VegasAssumption
<1>1. cwnd \in Nat
  BY Windows
<1>2. PICK q \in Nat : q = Less(cwnd, b) /\ q = cwnd - b
  BY <1>1 DEF Less
<1>3. CASE q > Delta
  <2>1. SteadyCwnd(b) = Less(b + Delta, CwndInc)
    BY <1>0, <1>2, <1>3 DEF SteadyCwnd
  <2>2. QED
    BY <1>0, <1>1, <1>2, <1>3, <2>1 DEF Less
<1>4. CASE q <= Delta /\ q > Beta
  <2>1. SteadyCwnd(b) = Less(cwnd, CwndInc)
    BY <1>0, <1>2, <1>4 DEF SteadyCwnd
  <2>2. QED
    BY <1>0, <1>1, <1>2, <1>4, <2>1 DEF Less
<1>5. CASE q <= Delta /\ q <= Beta
  <2>1. SteadyCwnd(b) \in {cwnd, cwnd + CwndInc}
    BY <1>0, <1>2, <1>5 DEF SteadyCwnd
  <2>2. QED
    BY <1>0, <1>1, <1>2, <1>5, <2>1
<1>6. QED
  BY <1>0, <1>3, <1>4, <1>5

(***************************************************************************)
(* The end of vegas_update: whatever window was chosen, the counters are   *)
(* armed and a reset keeps the smallest round trip in order.               *)
(***************************************************************************)
LEMMA Settled ==
    ASSUME CountersOK, EstimatesOK,
           NEW w \in Floor..Ceiling, NEW slow \in BOOLEAN,
           NEW e \in Nat \ {0}, NEW m \in 1..e, Settle(w, slow, m, e)
    PROVE  /\ CwndOK' /\ cwnd' = w
           /\ minRtt' \in 1..e
           /\ nextCc' \in Nat /\ nextCwnd' \in Nat
           /\ inSlowStart' \in BOOLEAN /\ cwndFull' \in BOOLEAN
<1>1. w \in Nat
  BY Limits
<1>2. SendmePerCwnd(w) \in Nat /\ CwndUpdateRate(slow, w) \in Nat
  BY <1>1, Rates
<1>3. Reset(m, e) \in 1..e
  <2>1. PICK x \in Nat : /\ x = (m \div 100) * (100 - RttResetPct) + (e \div 100) * RttResetPct
                         /\ x <= e
    BY VegasAssumption, Averaged DEF VegasAssumption
  <2>2. QED
    BY <2>1 DEF Reset, AtLeast
<1>4. CwndOK' /\ cwnd' = w
  BY DEF Settle, CwndOK, Floor, Ceiling, ClampCwnd
<1>5. minRtt' \in 1..e
  BY <1>3 DEF Settle
<1>6. nextCc' \in Nat /\ nextCwnd' \in Nat
  BY <1>2 DEF Settle, CountersOK, Less
<1>7. inSlowStart' \in BOOLEAN /\ cwndFull' \in BOOLEAN
  BY DEF Settle
<1>8. QED
  BY <1>4, <1>5, <1>6, <1>7

(***************************************************************************)
(* A usable SENDME: the window it chooses, and that a long queue never     *)
(* makes it larger.                                                        *)
(***************************************************************************)
LEMMA UsedSendme ==
    ASSUME VegasInv, NEW rtt \in Rtts \cup {0, Backwards}, OnSendmeUsed(rtt)
    PROVE  /\ CwndOK' /\ EstimatesOK' /\ RttOrder'
           /\ nextCc' \in Nat /\ nextCwnd' \in Nat
           /\ bdp' <= cwnd
           /\ Less(cwnd, bdp') >= (IF inSlowStart THEN Gamma ELSE Beta + 1) => cwnd' <= cwnd
<1>1. PICK e \in Nat \ {0} : e = Smoothed(rtt) /\ Smallest(e) \in 1..e /\ Bdp(e) \in 0..cwnd
  BY Estimates DEF OnSendmeUsed
<1>2. PICK m \in 1..e, b \in 0..cwnd : m = Smallest(e) /\ b = Bdp(e)
  BY <1>1
<1>3. cwnd \in Nat /\ Floor <= cwnd /\ VegasTypeOK /\ CountersOK /\ EstimatesOK
  BY Windows DEF VegasInv, VegasTypeOK
<1>4. ewma' = e /\ bdp' = b
  BY <1>1, <1>2 DEF OnSendmeUsed
<1>5. clockBroken' \in BOOLEAN
  BY <1>3 DEF OnSendmeUsed, StillBroken, EstimatesOK
<1> DEFINE slow == inSlowStart /\ StaysSlow(b)
<1>0. slow \in BOOLEAN
  BY DEF StaysSlow
<1>6. PICK w \in Nat :
         /\ Settle(ClampCwnd(w), slow, m, e)
         /\ Less(cwnd, b) >= (IF inSlowStart THEN Gamma ELSE Beta + 1) => w <= cwnd
  <2>1. CASE inSlowStart
    <3>1. SlowCwnd(b) \in Nat /\ (Less(cwnd, b) >= Gamma => SlowCwnd(b) <= cwnd)
      BY <1>3, SlowRule
    <3>2. Settle(ClampCwnd(SlowCwnd(b)), slow, m, e)
      <4>1. slow = StaysSlow(b)
        BY <2>1 DEF StaysSlow
      <4>2. Settle(ClampCwnd(SlowCwnd(b)), StaysSlow(b), m, e)
        BY <1>1, <1>2, <2>1 DEF OnSendmeUsed
      <4>3. QED
        BY <4>1, <4>2
    <3>3. QED
      BY <2>1, <3>1, <3>2
  <2>2. CASE ~inSlowStart /\ nextCc <= 1
    <3>1. SteadyCwnd(b) \in Nat /\ (Less(cwnd, b) >= Beta + 1 => SteadyCwnd(b) <= cwnd)
      BY <1>3, SteadyRule
    <3>2. Settle(ClampCwnd(SteadyCwnd(b)), slow, m, e)
      BY <1>1, <1>2, <2>2 DEF OnSendmeUsed
    <3>3. QED
      BY <2>2, <3>1, <3>2
  <2>3. CASE ~inSlowStart /\ ~(nextCc <= 1)
    <3>1. Settle(ClampCwnd(cwnd), slow, m, e)
      BY <1>1, <1>2, <2>3 DEF OnSendmeUsed
    <3>2. QED
      BY <1>3, <2>3, <3>1
  <2>4. QED
    BY <2>1, <2>2, <2>3
<1>7. ClampCwnd(w) \in Floor..Ceiling /\ (w <= cwnd => ClampCwnd(w) <= cwnd)
  <2>1. ClampCwnd(w) \in Floor..Ceiling
    BY Clamped
  <2>2. CASE w >= Floor
    BY <1>3, <2>1, <2>2, Clamped, Limits
  <2>3. CASE w < Floor
    BY <1>3, <2>1, <2>3, LowClamp
  <2>4. QED
    BY <2>1, <2>2, <2>3, Limits
<1>8. /\ CwndOK' /\ cwnd' = ClampCwnd(w)
      /\ minRtt' \in 1..e
      /\ nextCc' \in Nat /\ nextCwnd' \in Nat
      /\ inSlowStart' \in BOOLEAN /\ cwndFull' \in BOOLEAN
  BY <1>0, <1>3, <1>6, <1>7, Settled
<1>9. EstimatesOK' /\ RttOrder'
  BY <1>3, <1>4, <1>5, <1>8 DEF EstimatesOK, RttOrder
<1>10. QED
  BY <1>3, <1>4, <1>6, <1>7, <1>8, <1>9

(***************************************************************************)
(* Sent and acknowledged cells keep their marks in step.                   *)
(***************************************************************************)
LEMMA MarksStep ==
    ASSUME CountersOK, MarksMatch, [VegasNext]_vegas_vars
    PROVE  MarksMatch' /\ sent' \in Nat /\ acked' \in Nat /\ marks' \in Nat
<1> USE VegasAssumption DEF VegasAssumption
<1>1. sent \in Nat /\ acked \in Nat /\ marks \in Nat /\ Inc \in Nat \ {0} /\ acked <= sent
  BY DEF CountersOK, MarksMatch
<1>2. CASE OnSend
  <2>1. sent' = sent + 1 /\ acked' = acked
        /\ marks' = IF (sent + 1) % Inc = 0 THEN marks + 1 ELSE marks
    BY <1>2 DEF OnSend
  <2>2. (sent + 1) \div Inc = IF (sent + 1) % Inc = 0 THEN sent \div Inc + 1 ELSE sent \div Inc
    BY <1>1, OneMore
  <2>3. sent \div Inc \in Nat /\ acked \div Inc \in Nat
    BY <1>1, Division
  <2>4. QED
    BY ONLY <1>1, <2>1, <2>2, <2>3, MarksMatch DEF MarksMatch
<1>3. ASSUME NEW rtt \in Rtts \cup {0, Backwards}, OnSendmeSkipped(rtt) \/ OnSendmeUsed(rtt)
      PROVE  MarksMatch' /\ sent' \in Nat /\ acked' \in Nat /\ marks' \in Nat
  <2>1. sent' = sent /\ acked' = acked + Inc /\ Inflight >= Inc
        /\ (marks' = marks - 1 \/ marks' = Less(marks, 1))
    BY <1>3 DEF OnSendmeSkipped, OnSendmeUsed
  <2>2. acked + Inc <= sent
    BY <1>1, <2>1 DEF Inflight, Less
  <2>3. (acked + Inc) \div Inc = acked \div Inc + 1 /\ (acked + Inc) % Inc = acked % Inc
    BY <1>1, OneWhole
  <2>4. PICK a \in Nat, s \in Nat, k \in Nat :
           a = acked \div Inc /\ s = sent \div Inc /\ k = (acked + Inc) \div Inc /\ k <= s
    <3>1. acked + Inc \in Nat
      BY <1>1
    <3>2. (acked + Inc) \div Inc <= sent \div Inc
      BY <1>1, <2>2, <3>1, Monotone
    <3>3. acked \div Inc \in Nat /\ sent \div Inc \in Nat
      BY <1>1, Division
    <3>4. QED
      BY <2>3, <3>2, <3>3
  <2>5. marks = s - a /\ k = a + 1 /\ acked % Inc = 0
    BY <2>3, <2>4 DEF MarksMatch
  <2>6. marks >= 1 /\ marks' = marks - 1
    BY <1>1, <2>1, <2>4, <2>5 DEF Less
  <2>7. QED
    BY ONLY <1>1, <2>1, <2>2, <2>3, <2>4, <2>5, <2>6 DEF MarksMatch
<1>4. CASE OnSendmeRefused \/ UNCHANGED vegas_vars
  BY <1>1, <1>4 DEF OnSendmeRefused, vegas_vars, MarksMatch
<1>5. QED
  BY <1>2, <1>3, <1>4 DEF VegasNext, OnSendme

\* The invariant holds at the start.
LEMMA InitVegas == VegasInit => VegasInv
<1> SUFFICES ASSUME VegasInit PROVE VegasInv
  OBVIOUS
<1>1. CwndInit \in Nat /\ Inc \in Nat \ {0}
  BY VegasAssumption DEF VegasAssumption
<1>2. PICK w \in Floor..Ceiling : w = ClampCwnd(CwndInit)
  BY <1>1, Clamped
<1>3. w \in Nat
  BY Limits
<1>4. SendmePerCwnd(w) \in Nat /\ CwndUpdateRate(TRUE, w) \in Nat
  BY <1>3, Rates
<1>5. VegasTypeOK
  BY <1>2, <1>4 DEF VegasInit, VegasTypeOK, CountersOK, EstimatesOK, CwndOK
<1>6. MarksMatch
  <2>1. 0 \div Inc = 0 /\ 0 % Inc = 0
    BY <1>1, Quotient
  <2>2. QED
    BY <2>1 DEF VegasInit, MarksMatch
<1>7. QED
  BY <1>5, <1>6 DEF VegasInit, VegasInv, RttOrder

\* Every step keeps the invariant.
LEMMA StepVegas ==
    ASSUME VegasInv, [VegasNext]_vegas_vars
    PROVE  VegasInv'
<1>1. VegasTypeOK /\ CountersOK /\ EstimatesOK /\ CwndOK /\ MarksMatch /\ RttOrder
  BY DEF VegasInv, VegasTypeOK
<1>2. MarksMatch' /\ sent' \in Nat /\ acked' \in Nat /\ marks' \in Nat
  BY <1>1, MarksStep
<1>3. ASSUME NEW rtt \in Rtts \cup {0, Backwards}, OnSendmeUsed(rtt) PROVE VegasInv'
  <2>1. /\ CwndOK' /\ EstimatesOK' /\ RttOrder'
        /\ nextCc' \in Nat /\ nextCwnd' \in Nat
    BY <1>3, UsedSendme
  <2>2. failed' \in BOOLEAN
    BY <1>1, <1>3 DEF OnSendmeUsed, CountersOK
  <2>3. QED
    BY <1>2, <2>1, <2>2 DEF VegasInv, VegasTypeOK, CountersOK
<1>4. ASSUME NEW rtt \in Rtts \cup {0, Backwards}, OnSendmeSkipped(rtt) PROVE VegasInv'
  <2>1. CwndOK' /\ RttOrder'
    BY <1>1, <1>4 DEF OnSendmeSkipped, CwndOK, RttOrder, Floor, Ceiling, ClampCwnd
  <2>2. EstimatesOK'
    BY <1>1, <1>4 DEF OnSendmeSkipped, EstimatesOK, StillBroken
  <2>3. nextCc' \in Nat /\ nextCwnd' \in Nat /\ failed' \in BOOLEAN
    BY <1>1, <1>4 DEF OnSendmeSkipped, CountersOK, Less
  <2>4. QED
    BY <1>2, <2>1, <2>2, <2>3 DEF VegasInv, VegasTypeOK, CountersOK
<1>5. CASE OnSend \/ OnSendmeRefused \/ UNCHANGED vegas_vars
  <2>1. CwndOK' /\ RttOrder' /\ EstimatesOK'
    BY <1>1, <1>5 DEF OnSend, OnSendmeRefused, vegas_vars, clock, CwndOK, RttOrder, EstimatesOK,
       Floor, Ceiling, ClampCwnd
  <2>2. nextCc' \in Nat /\ nextCwnd' \in Nat /\ failed' \in BOOLEAN
    BY <1>1, <1>5 DEF OnSend, OnSendmeRefused, vegas_vars, CountersOK
  <2>3. QED
    BY <1>2, <2>1, <2>2 DEF VegasInv, VegasTypeOK, CountersOK
<1>6. QED
  BY <1>3, <1>4, <1>5 DEF VegasNext, OnSendme

(***************************************************************************)
(* Every reachable state satisfies the inductive invariant.                *)
(***************************************************************************)
THEOREM VegasSafe == VegasSpec => []VegasInv
<1>1. VegasInv /\ [VegasNext]_vegas_vars => VegasInv'
  BY StepVegas
<1>2. QED
  BY <1>1, InitVegas, PTL DEF VegasSpec

(***************************************************************************)
(* on_sendme always finds the mark of the increment it acknowledges, and   *)
(* RTT_min stays at or below the smoothed round trip.                      *)
(***************************************************************************)
THEOREM MarksAndRtts == VegasSpec => []VegasTypeOK /\ []MarksMatch /\ []RttOrder
<1>1. VegasInv => VegasTypeOK /\ MarksMatch /\ RttOrder
  BY DEF VegasInv
<1>2. QED
  BY <1>1, VegasSafe, PTL

(***************************************************************************)
(* A circuit that may not send has a whole increment outstanding, provided *)
(* cc_cwnd_min is at least the negotiated increment.                       *)
(***************************************************************************)
THEOREM OwedSendme == VegasSpec => []NeverStuck
<1>1. VegasInv => NeverStuck
  <2> SUFFICES ASSUME VegasInv, Floor >= Inc, ~CanSend PROVE Inflight >= Inc
    BY DEF NeverStuck
  <2>1. cwnd \in Nat /\ Floor <= cwnd /\ Floor \in Nat /\ Inc \in Nat /\ Inflight \in Nat
    BY Windows, Limits, VegasAssumption
       DEF VegasInv, VegasTypeOK, CountersOK, Inflight, Less, VegasAssumption
  <2>2. QED
    BY <2>1 DEF CanSend
<1>2. QED
  BY <1>1, VegasSafe, PTL

(***************************************************************************)
(* update_rtt's BDP never exceeds the window it was measured over, and a   *)
(* queue above the threshold never makes vegas_update grow the window.     *)
(***************************************************************************)
THEOREM QueueYields == VegasSpec => BdpWithinWindow /\ WindowYields
<1> DEFINE Fresh == bdp' # bdp => bdp' <= cwnd
           Yields == Less(cwnd, bdp') >= (IF inSlowStart THEN Gamma ELSE Beta + 1)
                     => cwnd' <= cwnd
<1>1. VegasInv /\ [VegasNext]_vegas_vars => [Fresh]_vegas_vars /\ [Yields]_vegas_vars
  <2> SUFFICES ASSUME VegasInv, VegasNext PROVE Fresh /\ Yields
    OBVIOUS
  <2>1. cwnd \in Nat
    BY Windows DEF VegasInv
  <2>2. ASSUME NEW rtt \in Rtts \cup {0, Backwards}, OnSendmeUsed(rtt)
        PROVE  Fresh /\ Yields
    BY <2>2, UsedSendme
  <2>3. CASE UNCHANGED <<cwnd, bdp>>
    BY <2>1, <2>3
  <2>4. QED
    BY <2>2, <2>3 DEF VegasNext, OnSendme, OnSend, OnSendmeRefused, OnSendmeSkipped, clock
<1>2. QED
  BY <1>1, VegasSafe, PTL DEF VegasSpec, BdpWithinWindow, WindowYields

(***************************************************************************)
(* Vegas keeps the promise every writer relies on: it is a send window.    *)
(***************************************************************************)
THEOREM Implements == VegasSpec => IsSendWindow
<1>1. VegasInit => Window!Init
  <2>1. CwndInit \in Nat
    BY VegasAssumption DEF VegasAssumption
  <2>2. QED
    BY <2>1, Clamped DEF VegasInit, Window!Init
<1>2. VegasInv /\ VegasInv' /\ [VegasNext]_vegas_vars
      => [Window!Next]_<<sent - acked, cwnd, failed>>
  <2> SUFFICES ASSUME VegasInv, VegasInv', [VegasNext]_vegas_vars
               PROVE  [Window!Next]_<<sent - acked, cwnd, failed>>
    OBVIOUS
  <2>1. sent \in Nat /\ acked \in Nat /\ acked <= sent /\ Inc \in Nat /\ Inflight = sent - acked
    BY VegasAssumption
       DEF VegasInv, VegasTypeOK, CountersOK, MarksMatch, Inflight, Less, VegasAssumption
  <2>2. CASE OnSend
    BY <2>1, <2>2 DEF OnSend, CanSend, Window!Next, Window!Send
  <2>3. CASE OnSendmeRefused
    BY <2>1, <2>3 DEF OnSendmeRefused, Window!Next, Window!Violation
  <2>4. ASSUME NEW rtt \in Rtts \cup {0, Backwards}, OnSendmeSkipped(rtt) \/ OnSendmeUsed(rtt)
        PROVE  Window!Acknowledge
    <3>1. ~failed /\ Inflight >= Inc /\ acked' = acked + Inc /\ sent' = sent /\ failed' = failed
      BY <2>4 DEF OnSendmeSkipped, OnSendmeUsed
    <3>2. cwnd' \in Floor..Ceiling
      BY DEF VegasInv, VegasTypeOK, CwndOK, Floor, Ceiling, ClampCwnd
    <3>3. QED
      BY <2>1, <3>1, <3>2 DEF Window!Acknowledge
  <2>5. CASE UNCHANGED vegas_vars
    BY <2>5 DEF vegas_vars
  <2>6. QED
    BY <2>2, <2>3, <2>4, <2>5 DEF VegasNext, OnSendme, Window!Next
<1>3. QED
  BY <1>1, <1>2, VegasSafe, PTL DEF VegasSpec, IsSendWindow, Window!Spec
=============================================================================
