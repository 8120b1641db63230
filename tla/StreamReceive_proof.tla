------------------------ MODULE StreamReceive_proof ------------------------
(* Proofs about StreamReceive, for any streams, windows and cell sizes.    *)
EXTENDS StreamReceive, SequenceTheorems, TLAPS

(***************************************************************************)
(* A new circuit satisfies the invariant.                                  *)
(***************************************************************************)
LEMMA InitInv == Init => ReceiveInv
<1> SUFFICES ASSUME Init PROVE ReceiveInv
  OBVIOUS
<1> USE ReceiveAssumption DEF ReceiveAssumption, Init
<1>1. ClientOK
  BY DEF ClientOK
<1>2. FarOK
  BY DEF FarOK
<1>3. NetOK
  BY DEF NetOK
<1>4. CircuitCredit /\ NeverOverrun
  BY DEF CircuitCredit, NeverOverrun
<1>5. StreamCredit
  <2>1. ASSUME NEW s \in Streams PROVE Promised(s) = 0
    <3>1. streamSendmes[s] = 0 /\ reader[s] # "sendme"
      OBVIOUS
    <3>2. StreamInc * 0 = 0
      OBVIOUS
    <3>3. QED
      BY ONLY <3>1, <3>2 DEF Promised
  <2>2. ASSUME NEW s \in Streams PROVE StreamBalance(s)
    BY <2>1 DEF StreamBalance
  <2>3. QED
    BY <2>2 DEF StreamCredit
<1>6. BufferCredit
  <2>1. 0 + CellMax * StreamStart <= CellMax * (StreamStart + StreamInc)
    <3>1. CellMax * (StreamStart + StreamInc) = CellMax * StreamStart + CellMax * StreamInc
      OBVIOUS
    <3>2. CellMax * StreamInc \in Nat /\ CellMax * StreamStart \in Nat
      OBVIOUS
    <3>3. QED
      BY <3>1, <3>2
  <2>2. QED
    BY <2>1 DEF BufferCredit, BufferFits
<1>7. ReaderOwes
  BY DEF ReaderOwes, Settled
<1>8. XoffMeant
  BY DEF XoffMeant, Meant, LastWord
<1>9. QED
  BY <1>1, <1>2, <1>3, <1>4, <1>5, <1>6, <1>7, <1>8 DEF ReceiveInv, TypeOK

(***************************************************************************)
(* What each variable holds keeps its type under every step.               *)
(***************************************************************************)
LEMMA StepType ==
    ASSUME TypeOK, [Next]_vars
    PROVE  TypeOK'
<1> USE ReceiveAssumption DEF ReceiveAssumption, TypeOK, vars, client, farEnd, net
<1>1. ClientOK'
  <2> USE DEF ClientOK
  <2>1. ASSUME NEW s \in Streams, Reader(s) PROVE ClientOK'
    <3>1. CASE Read(s)
      BY <3>1 DEF Read
    <3>2. CASE ReleaseSendme(s)
      BY <3>2 DEF ReleaseSendme, OwesSendme
    <3>3. CASE ReleaseXon(s) \/ ReleaseNothing(s)
      BY <3>3 DEF ReleaseXon, ReleaseNothing
    <3>4. CASE SendSendme(s) \/ SendXon(s)
      BY <3>4 DEF SendSendme, SendXon
    <3>5. QED
      BY <2>1, <3>1, <3>2, <3>3, <3>4 DEF Reader
  <2>2. ASSUME NEW s \in Streams, NEW bytes \in 1..CellMax, PumpData(s, bytes)
        PROVE  ClientOK'
    <3>1. congestion' \in BOOLEAN /\ deliver' \in Int
      BY <2>2 DEF PumpData, NoteReceived
    <3>2. bytes \in Nat
      OBVIOUS
    <3>3. buf' \in [Streams -> Nat]
      BY ONLY <2>2, <3>2, buf \in [Streams -> Nat] DEF PumpData
    <3>4. window' \in [Streams -> Int]
      BY ONLY <2>2, window \in [Streams -> Int] DEF PumpData
    <3>5. unacked' \in [Streams -> Nat]
      BY ONLY <2>2, unacked \in [Streams -> Nat] DEF PumpData
    <3>6. xoffSent' \in [Streams -> BOOLEAN]
      BY ONLY <2>2, xoffSent \in [Streams -> BOOLEAN] DEF PumpData
    <3>7. pump' \in SUBSET Streams
      BY ONLY <2>2, pump \in SUBSET Streams DEF PumpData
    <3>8. reader' = reader
      BY ONLY <2>2 DEF PumpData
    <3>9. QED
      BY ONLY ClientOK, <3>1, <3>3, <3>4, <3>5, <3>6, <3>7, <3>8
  <2>3. ASSUME NEW s \in Streams, PumpXoff(s) PROVE ClientOK'
    BY <2>3 DEF PumpXoff
  <2>4. ASSUME NEW s \in Streams, Far(s) PROVE ClientOK'
    BY <2>4 DEF Far, FarSend, FarStreamSendme, FarXonXoff
  <2>5. CASE FarSendme \/ UNCHANGED vars
    BY <2>5 DEF FarSendme
  <2>6. QED
    BY <2>1, <2>2, <2>3, <2>4, <2>5 DEF Next, PumpStep
<1>2. FarOK'
  <2> USE DEF FarOK
  <2>1. ASSUME NEW s \in Streams, Far(s) PROVE FarOK'
    <3>1. CASE FarSend(s)
      BY <3>1 DEF FarSend, FarMaySend
    <3>2. CASE FarStreamSendme(s)
      BY <3>2 DEF FarStreamSendme
    <3>3. CASE FarXonXoff(s)
      BY <3>3 DEF FarXonXoff
    <3>4. QED
      BY <2>1, <3>1, <3>2, <3>3 DEF Far
  <2>2. CASE FarSendme
    BY <2>2 DEF FarSendme
  <2>3. CASE UNCHANGED farEnd
    BY <2>3
  <2>4. QED
    BY <2>1, <2>2, <2>3 DEF Next, PumpStep, PumpData, PumpXoff, Reader, Read,
       ReleaseSendme, ReleaseXon, ReleaseNothing, SendSendme, SendXon
<1>3. NetOK'
  <2> USE DEF NetOK
  <2>1. ASSUME NEW s \in Streams, Far(s) PROVE NetOK'
    <3>1. CASE FarSend(s)
      BY <3>1 DEF FarSend
    <3>2. CASE FarStreamSendme(s)
      BY <3>2 DEF FarStreamSendme
    <3>3. CASE FarXonXoff(s)
      <4>1. Tail(xs[s]) \in Seq({"XOFF", "XON"})
        BY <3>3 DEF FarXonXoff
      <4>2. QED
        BY <3>3, <4>1 DEF FarXonXoff
    <3>4. QED
      BY <2>1, <3>1, <3>2, <3>3 DEF Far
  <2>2. ASSUME NEW s \in Streams, NEW bytes \in 1..CellMax, PumpData(s, bytes)
        PROVE  NetOK'
    BY <2>2 DEF PumpData
  <2>3. ASSUME NEW s \in Streams, PumpXoff(s) \/ SendXon(s) PROVE NetOK'
    <3>1. Append(xs[s], "XOFF") \in Seq({"XOFF", "XON"})
          /\ Append(xs[s], "XON") \in Seq({"XOFF", "XON"})
      OBVIOUS
    <3>2. CASE PumpXoff(s)
      BY <3>1, <3>2 DEF PumpXoff
    <3>3. CASE SendXon(s)
      BY <3>1, <3>3 DEF SendXon
    <3>4. QED
      BY <2>3, <3>2, <3>3
  <2>4. ASSUME NEW s \in Streams, SendSendme(s) PROVE NetOK'
    BY <2>4 DEF SendSendme
  <2>5. CASE FarSendme
    BY <2>5 DEF FarSendme
  <2>6. CASE UNCHANGED net
    BY <2>6
  <2>7. QED
    BY <2>1, <2>2, <2>3, <2>4, <2>5, <2>6 DEF Next, PumpStep, Reader, Read,
       ReleaseSendme, ReleaseXon, ReleaseNothing
<1>4. QED
  BY <1>1, <1>2, <1>3

(***************************************************************************)
(* Circuit credit is moved between the far end, the wire and the SENDMEs   *)
(* on their way back, and never created or lost.                           *)
(***************************************************************************)
LEMMA StepCircuit ==
    ASSUME TypeOK, CircuitCredit, NeverOverrun, [Next]_vars
    PROVE  CircuitCredit' /\ NeverOverrun'
<1> USE ReceiveAssumption DEF ReceiveAssumption, TypeOK, CircuitCredit, NeverOverrun,
        vars, client, farEnd, net
<1>1. ASSUME NEW s \in Streams, NEW bytes \in 1..CellMax, PumpData(s, bytes)
      PROVE  CircuitCredit' /\ NeverOverrun'
  <2>1. deliver \in Int /\ farCircuit \in Int /\ wire \in Int /\ sendmes \in Int
    BY DEF ClientOK, FarOK, NetOK
  <2>2. wire' = wire - 1 /\ farCircuit' = farCircuit
    BY <1>1 DEF PumpData
  <2>3. CASE Acknowledges(deliver)
    BY <1>1, <2>1, <2>2, <2>3 DEF PumpData, NoteReceived, Acknowledges
  <2>4. CASE ~Acknowledges(deliver)
    BY <1>1, <2>1, <2>2, <2>4 DEF PumpData, NoteReceived, Acknowledges
  <2>5. QED
    BY <2>3, <2>4
<1>2. ASSUME NEW s \in Streams, FarSend(s)
      PROVE  CircuitCredit' /\ NeverOverrun'
  BY <1>2 DEF FarSend, ClientOK, FarOK, NetOK
<1>3. CASE FarSendme
  BY <1>3 DEF FarSendme, ClientOK, FarOK, NetOK
<1>4. CASE UNCHANGED <<deliver, farCircuit, wire, sendmes>>
  BY <1>4
<1>5. QED
  BY <1>1, <1>2, <1>3, <1>4 DEF Next, PumpStep, PumpXoff, Reader, Read, ReleaseSendme,
     ReleaseXon, ReleaseNothing, SendSendme, SendXon, Far, FarStreamSendme, FarXonXoff

(***************************************************************************)
(* One SENDME more or less is one increment more or less.                  *)
(***************************************************************************)
LEMMA Increments ==
    ASSUME NEW a \in Int, NEW n \in Int
    PROVE  a * (n + 1) = a * n + a /\ a * (n - 1) = a * n - a /\ a * n \in Int
OBVIOUS

(***************************************************************************)
(* A circuit keeps the scheme its handshake settled.                       *)
(***************************************************************************)
LEMMA SchemeFixed == [Next]_vars => congestion' = congestion
BY DEF Next, PumpStep, Reader, Far, Read, ReleaseSendme, ReleaseXon, ReleaseNothing,
       SendSendme, SendXon, PumpXoff, PumpData, FarSend, FarStreamSendme, FarXonXoff,
       FarSendme, vars, client

(***************************************************************************)
(* The same for the credit of each stream.  A stream other than the one    *)
(* that moved keeps everything its credit is made of.                      *)
(***************************************************************************)
LEMMA StepStream ==
    ASSUME TypeOK, StreamCredit, [Next]_vars
    PROVE  StreamCredit'
<1> USE ReceiveAssumption DEF ReceiveAssumption, vars, client, farEnd, net
<1> SUFFICES ASSUME ~congestion, NEW t \in Streams PROVE StreamBalance(t)'
  BY SchemeFixed DEF StreamCredit
<1>1. StreamBalance(t)
  BY DEF StreamCredit
<1>0. /\ window[t] \in Int /\ unacked[t] \in Nat /\ farStream[t] \in Nat
      /\ flight[t] \in Nat /\ streamSendmes[t] \in Nat /\ Promised(t) \in Int
  <2>1. /\ window[t] \in Int /\ unacked[t] \in Nat /\ farStream[t] \in Nat
        /\ flight[t] \in Nat /\ streamSendmes[t] \in Nat /\ StreamInc \in Nat
    BY DEF TypeOK, ClientOK, FarOK, NetOK
  <2>2. StreamInc * streamSendmes[t] \in Int
    BY ONLY <2>1, Increments
  <2>3. Promised(t) \in Int
    BY ONLY <2>1, <2>2 DEF Promised
  <2> QED
    BY ONLY <2>1, <2>3
<1> USE DEF TypeOK, ClientOK, FarOK, NetOK
<1>k. ASSUME /\ window'[t] = window[t] /\ unacked'[t] = unacked[t]
             /\ farStream'[t] = farStream[t] /\ flight'[t] = flight[t]
             /\ streamSendmes'[t] = streamSendmes[t]
             /\ (reader'[t] = "sendme") = (reader[t] = "sendme")
      PROVE  StreamBalance(t)'
  BY <1>1, <1>k DEF StreamBalance, Promised
<1>2. ASSUME NEW s \in Streams, NEW bytes \in 1..CellMax, PumpData(s, bytes)
      PROVE  StreamBalance(t)'
  <2>1. CASE s = t
    <3>1. /\ window'[t] = window[t] - 1 /\ unacked'[t] = unacked[t] + 1
          /\ farStream' = farStream /\ flight'[t] = flight[t] - 1
          /\ streamSendmes' = streamSendmes /\ reader' = reader
      BY <1>2, <2>1 DEF PumpData
    <3>2. Promised(t)' = Promised(t)
      BY <1>0, <3>1 DEF Promised
    <3>3. QED
      BY ONLY <1>0, <1>1, <3>1, <3>2, ReceiveAssumption DEF StreamBalance, ReceiveAssumption
  <2>2. CASE s # t
    BY <1>2, <2>2, <1>k DEF PumpData
  <2>3. QED
    BY <2>1, <2>2
<1>3. ASSUME NEW s \in Streams, ReleaseSendme(s) PROVE StreamBalance(t)'
  <2>1. CASE s = t
    <3>1. /\ window'[t] = window[t] + StreamInc /\ unacked'[t] = unacked[t] - StreamInc
          /\ farStream' = farStream /\ flight' = flight
          /\ streamSendmes' = streamSendmes /\ reader[t] = "release" /\ reader'[t] = "sendme"
      BY <1>3, <2>1 DEF ReleaseSendme
    <3>2. Promised(t)' = Promised(t) + StreamInc
      BY <1>0, <3>1 DEF Promised
    <3>3. QED
      BY ONLY <1>0, <1>1, <3>1, <3>2, ReceiveAssumption DEF StreamBalance, ReceiveAssumption
  <2>2. CASE s # t
    BY <1>3, <2>2, <1>k DEF ReleaseSendme
  <2>3. QED
    BY <2>1, <2>2
<1>4. ASSUME NEW s \in Streams, SendSendme(s) PROVE StreamBalance(t)'
  <2>1. CASE s = t
    <3>1. /\ window' = window /\ unacked' = unacked
          /\ farStream' = farStream /\ flight' = flight
          /\ streamSendmes'[t] = streamSendmes[t] + 1
          /\ reader[t] = "sendme" /\ reader'[t] = "release"
      BY <1>4, <2>1 DEF SendSendme
    <3>2. Promised(t)' = Promised(t)
      BY ONLY <1>0, <3>1, Increments, ReceiveAssumption DEF Promised, ReceiveAssumption
    <3>3. QED
      BY ONLY <1>0, <1>1, <3>1, <3>2, ReceiveAssumption DEF StreamBalance, ReceiveAssumption
  <2>2. CASE s # t
    BY <1>4, <2>2, <1>k DEF SendSendme
  <2>3. QED
    BY <2>1, <2>2
<1>5. ASSUME NEW s \in Streams, FarSend(s) PROVE StreamBalance(t)'
  <2>1. CASE s = t
    <3>1. /\ window' = window /\ unacked' = unacked
          /\ farStream'[t] = farStream[t] - 1 /\ flight'[t] = flight[t] + 1
          /\ streamSendmes' = streamSendmes /\ reader' = reader
      BY <1>5, <2>1 DEF FarSend
    <3>2. Promised(t)' = Promised(t)
      BY <1>0, <3>1 DEF Promised
    <3>3. QED
      BY ONLY <1>0, <1>1, <3>1, <3>2, ReceiveAssumption DEF StreamBalance, ReceiveAssumption
  <2>2. CASE s # t
    BY <1>5, <2>2, <1>k DEF FarSend
  <2>3. QED
    BY <2>1, <2>2
<1>6. ASSUME NEW s \in Streams, FarStreamSendme(s) PROVE StreamBalance(t)'
  <2>1. CASE s = t
    <3>1. /\ window' = window /\ unacked' = unacked
          /\ farStream'[t] = farStream[t] + StreamInc /\ flight' = flight
          /\ streamSendmes'[t] = streamSendmes[t] - 1 /\ reader' = reader
      BY <1>6, <2>1 DEF FarStreamSendme
    <3>2. Promised(t)' = Promised(t) - StreamInc
      BY ONLY <1>0, <3>1, Increments, ReceiveAssumption DEF Promised, ReceiveAssumption
    <3>3. QED
      BY ONLY <1>0, <1>1, <3>1, <3>2, ReceiveAssumption DEF StreamBalance, ReceiveAssumption
  <2>2. CASE s # t
    BY <1>6, <2>2, <1>k DEF FarStreamSendme
  <2>3. QED
    BY <2>1, <2>2
<1>7. ASSUME NEW s \in Streams,
             Read(s) \/ ReleaseXon(s) \/ ReleaseNothing(s) \/ SendXon(s)
      PROVE  StreamBalance(t)'
  BY <1>7, <1>k DEF Read, ReleaseXon, ReleaseNothing, SendXon
<1>8. ASSUME NEW s \in Streams, PumpXoff(s) \/ FarXonXoff(s) PROVE StreamBalance(t)'
  BY <1>8, <1>k DEF PumpXoff, FarXonXoff
<1>9. CASE FarSendme \/ UNCHANGED vars
  BY <1>9, <1>k DEF FarSendme
<1>10. QED
  BY <1>2, <1>3, <1>4, <1>5, <1>6, <1>7, <1>8, <1>9 DEF Next, PumpStep, Reader, Far

(***************************************************************************)
(* A SENDME is released only over a low backlog, so what is buffered and   *)
(* what the window still lets in never exceed the bound together.          *)
(***************************************************************************)
LEMMA StepBuffer ==
    ASSUME TypeOK, StreamCredit, BufferCredit, [Next]_vars
    PROVE  BufferCredit'
<1> USE ReceiveAssumption DEF ReceiveAssumption, vars, client, farEnd, net
<1> SUFFICES ASSUME ~congestion, NEW t \in Streams PROVE BufferFits(t)'
  BY SchemeFixed DEF BufferCredit
<1>1. BufferFits(t) /\ StreamBalance(t)
  BY DEF BufferCredit, StreamCredit
<1>2. buf[t] \in Nat /\ window[t] \in Int /\ unacked[t] \in Nat
  BY DEF TypeOK, ClientOK
<1>3. ASSUME NEW s \in Streams, NEW bytes \in 1..CellMax, PumpData(s, bytes)
      PROVE  BufferFits(t)'
  <2>1. CASE s = t
    <3>1. buf'[t] = buf[t] + bytes /\ window'[t] = window[t] - 1
      BY <1>3, <2>1 DEF PumpData, TypeOK, ClientOK
    <3>2. CellMax * (window[t] - 1) = CellMax * window[t] - CellMax
      BY <1>2
    <3>3. QED
      BY <1>1, <1>2, <3>1, <3>2 DEF BufferFits
  <2>2. CASE s # t
    BY <1>1, <1>3, <2>2 DEF PumpData, TypeOK, ClientOK, BufferFits
  <2>3. QED
    BY <2>1, <2>2
<1>4. ASSUME NEW s \in Streams, Read(s) PROVE BufferFits(t)'
  <2>1. buf'[t] \in Nat /\ buf'[t] <= buf[t] /\ window'[t] = window[t]
    BY <1>4 DEF Read, TypeOK, ClientOK
  <2>2. CellMax * window[t] \in Int /\ CellMax * (StreamStart + StreamInc) \in Int
    BY <1>2
  <2>3. QED
    BY <1>1, <1>2, <2>1, <2>2 DEF BufferFits
<1>5. ASSUME NEW s \in Streams, ReleaseSendme(s) PROVE BufferFits(t)'
  <2>1. CASE s = t
    <3>1. /\ buf'[t] = buf[t] /\ window'[t] = window[t] + StreamInc
          /\ buf[t] <= StreamInc * CellMax /\ unacked[t] >= StreamInc
      BY <1>5, <2>1 DEF ReleaseSendme, OwesSendme, TypeOK, ClientOK
    <3>2. window'[t] <= StreamStart
      BY <1>1, <1>2, <3>1 DEF StreamBalance
    <3>3. CellMax * window'[t] <= CellMax * StreamStart
      BY <1>2, <3>1, <3>2
    <3>4. CellMax * (StreamStart + StreamInc) = CellMax * StreamStart + StreamInc * CellMax
      OBVIOUS
    <3>5. QED
      BY <1>2, <3>1, <3>3, <3>4 DEF BufferFits
  <2>2. CASE s # t
    BY <1>1, <1>5, <2>2 DEF ReleaseSendme, TypeOK, ClientOK, BufferFits
  <2>3. QED
    BY <2>1, <2>2
<1>6. CASE UNCHANGED <<buf, window>>
  BY <1>1, <1>6 DEF BufferFits
<1>7. QED
  BY <1>3, <1>4, <1>5, <1>6 DEF Next, PumpStep, PumpXoff, Reader, ReleaseXon,
     ReleaseNothing, SendSendme, SendXon, Far, FarSend, FarStreamSendme, FarXonXoff, FarSendme

(***************************************************************************)
(* A reader goes idle over an empty buffer only when it owes nothing, and  *)
(* only the pump, which fills the buffer, makes it owe more.               *)
(***************************************************************************)
LEMMA StepOwes ==
    ASSUME TypeOK, ReaderOwes, [Next]_vars
    PROVE  ReaderOwes'
<1> USE ReceiveAssumption DEF ReceiveAssumption, vars, client, farEnd, net
<1> SUFFICES ASSUME NEW t \in Streams PROVE Settled(t)'
  BY DEF ReaderOwes
<1>1. Settled(t)
  BY DEF ReaderOwes
<1> USE <1>1 DEF Settled, TypeOK, ClientOK
<1>2. ASSUME NEW s \in Streams, NEW bytes \in 1..CellMax, PumpData(s, bytes)
      PROVE  Settled(t)'
  <2>1. CASE s = t
    <3>1. buf'[t] = buf[t] + bytes
      BY <1>2, <2>1 DEF PumpData
    <3>2. buf'[t] # 0
      BY <3>1
    <3>3. QED
      BY <3>2
  <2>2. CASE s # t
    BY <1>2, <2>2 DEF PumpData
  <2>3. QED
    BY <2>1, <2>2
<1>3. ASSUME NEW s \in Streams, Read(s) PROVE Settled(t)'
  BY <1>3 DEF Read
<1>4. ASSUME NEW s \in Streams, ReleaseSendme(s) \/ ReleaseXon(s) PROVE Settled(t)'
  BY <1>4 DEF ReleaseSendme, ReleaseXon
<1>5. ASSUME NEW s \in Streams, ReleaseNothing(s) PROVE Settled(t)'
  <2>1. CASE s = t
    <3>1. 0 <= StreamInc * CellMax /\ 0 <= XoffBytes \div 2
      OBVIOUS
    <3>2. CASE buf[t] = 0
      BY <1>5, <2>1, <3>1, <3>2 DEF ReleaseNothing, OwesSendme, OwesXon
    <3>3. CASE buf[t] # 0
      BY <1>5, <3>3 DEF ReleaseNothing
    <3>4. QED
      BY <3>2, <3>3
  <2>2. CASE s # t
    BY <1>5, <2>2 DEF ReleaseNothing
  <2>3. QED
    BY <2>1, <2>2
<1>6. ASSUME NEW s \in Streams, SendSendme(s) PROVE Settled(t)'
  BY <1>6 DEF SendSendme
<1>7. ASSUME NEW s \in Streams, SendXon(s) PROVE Settled(t)'
  BY <1>7 DEF SendXon
<1>8. CASE UNCHANGED <<congestion, buf, unacked, xoffSent, reader>>
  BY <1>8
<1>9. QED
  BY <1>2, <1>3, <1>4, <1>5, <1>6, <1>7, <1>8 DEF Next, PumpStep, PumpXoff, Reader, Far,
     FarSend, FarStreamSendme, FarXonXoff, FarSendme

(***************************************************************************)
(* Sending a word makes it the last one; the far end taking one from the   *)
(* queue leaves the last one what it was.                                  *)
(***************************************************************************)
LEMMA AppendedLast ==
    ASSUME NEW S, NEW q \in Seq(S), NEW x \in S
    PROVE  Append(q, x) # <<>> /\ Append(q, x)[Len(Append(q, x))] = x
OBVIOUS

\* The last word stays the last when the first is taken.
LEMMA TakenLast ==
    ASSUME NEW S, NEW q \in Seq(S), q # <<>>
    PROVE  IF Tail(q) = <<>> THEN Head(q) = q[Len(q)]
                             ELSE Tail(q)[Len(Tail(q))] = q[Len(q)]
<1>1. PICK rest \in Seq(S) : rest = Tail(q) /\ Len(rest) = Len(q) - 1
                             /\ \A i \in 1 .. Len(rest) : rest[i] = q[i + 1]
  BY HeadTailProperties, Zenon
<1>2. Len(q) \in Nat /\ Len(rest) \in Nat /\ Head(q) = q[1]
  OBVIOUS
<1>3. CASE rest = <<>>
  <2>1. Len(rest) = 0
    BY <1>3
  <2>2. Len(q) = 1
    BY ONLY <1>1, <1>2, <2>1
  <2>3. QED
    BY <1>1, <1>2, <1>3, <2>2, Zenon
<1>4. CASE rest # <<>>
  <2>1. Len(rest) >= 1
    BY <1>4
  <2>2. Len(rest) \in 1 .. Len(rest) /\ Len(rest) + 1 = Len(q)
    BY ONLY <1>1, <1>2, <2>1
  <2>3. rest[Len(rest)] = q[Len(q)]
    BY ONLY <1>1, <2>2, Zenon
  <2>4. QED
    BY <1>1, <1>4, <2>3, Zenon
<1>5. QED
  BY <1>3, <1>4

(***************************************************************************)
(* The last thing the far end hears is an XOFF only while xoff_sent is set *)
(* or the XON that takes it back is about to go out.                       *)
(***************************************************************************)
LEMMA StepXoff ==
    ASSUME TypeOK, XoffMeant, [Next]_vars
    PROVE  XoffMeant'
<1> USE DEF vars, client, farEnd, net
<1> SUFFICES ASSUME NEW t \in Streams PROVE Meant(t)'
  BY DEF XoffMeant
<1>0. Meant(t) /\ LastWord(t) \in {"XOFF", "XON"}
  <2>1. xs[t] \in Seq({"XOFF", "XON"})
    BY DEF TypeOK, NetOK
  <2>2. xs[t] # <<>> => xs[t][Len(xs[t])] \in {"XOFF", "XON"}
    BY <2>1
  <2>3. QED
    BY <2>2 DEF XoffMeant, LastWord
<1> USE <1>0
<1>k. ASSUME xs'[t] = xs[t], (t \in farBlocked') <=> (t \in farBlocked)
      PROVE  LastWord(t)' = LastWord(t)
  BY <1>k DEF LastWord
<1>1. ASSUME NEW s \in Streams, NEW bytes \in 1..CellMax, PumpData(s, bytes)
      PROVE  Meant(t)'
  <2>1. LastWord(t)' = LastWord(t)
    BY <1>1, <1>k DEF PumpData
  <2>2. /\ reader' = reader
        /\ pump = {}
        /\ t \in pump' => xoffSent'[t]
        /\ xoffSent[t] => xoffSent'[t]
    BY <1>1 DEF PumpData, TypeOK, ClientOK
  <2>3. QED
    BY <2>1, <2>2 DEF Meant
<1>2. ASSUME NEW s \in Streams, PumpXoff(s) PROVE Meant(t)'
  <2>1. CASE s = t
    BY <1>2, <2>1 DEF PumpXoff, Meant
  <2>2. CASE s # t
    <3>1. LastWord(t)' = LastWord(t)
      BY <1>2, <2>2, <1>k DEF PumpXoff, TypeOK, NetOK
    <3>2. QED
      BY <1>2, <3>1 DEF PumpXoff, Meant
  <2>3. QED
    BY <2>1, <2>2
<1>3. ASSUME NEW s \in Streams, ReleaseXon(s) PROVE Meant(t)'
  <2>1. LastWord(t)' = LastWord(t) /\ pump' = pump
    BY <1>3, <1>k DEF ReleaseXon
  <2>2. CASE s = t
    BY <1>3, <2>2 DEF ReleaseXon, Meant, TypeOK, ClientOK
  <2>3. CASE s # t
    BY <1>3, <2>1, <2>3 DEF ReleaseXon, Meant, TypeOK, ClientOK
  <2>4. QED
    BY <2>2, <2>3
<1>4. ASSUME NEW s \in Streams, SendXon(s) PROVE Meant(t)'
  <2>1. CASE s = t
    <3>1. xs'[t] = Append(xs[t], "XON") /\ xs[t] \in Seq({"XOFF", "XON"}) /\ pump' = {}
      BY <1>4, <2>1 DEF SendXon, TypeOK, NetOK
    <3>2. LastWord(t)' = "XON"
      BY <3>1, AppendedLast DEF LastWord
    <3>3. QED
      BY <3>1, <3>2 DEF Meant
  <2>2. CASE s # t
    <3>1. LastWord(t)' = LastWord(t)
      BY <1>4, <2>2, <1>k DEF SendXon, TypeOK, NetOK
    <3>2. QED
      BY <1>4, <2>2, <3>1 DEF SendXon, Meant, TypeOK, ClientOK
  <2>3. QED
    BY <2>1, <2>2
<1>5. ASSUME NEW s \in Streams,
             Read(s) \/ ReleaseSendme(s) \/ ReleaseNothing(s) \/ SendSendme(s)
      PROVE  Meant(t)'
  <2>1. LastWord(t)' = LastWord(t) /\ pump' = pump /\ xoffSent' = xoffSent
    BY <1>5, <1>k DEF Read, ReleaseSendme, ReleaseNothing, SendSendme
  <2>2. reader[t] = "xon" => reader'[t] = "xon"
    BY <1>5 DEF Read, ReleaseSendme, ReleaseNothing, SendSendme, TypeOK, ClientOK
  <2>3. QED
    BY <2>1, <2>2 DEF Meant
<1>6. ASSUME NEW s \in Streams, FarXonXoff(s) PROVE Meant(t)'
  <2>1. LastWord(t)' = LastWord(t)
    <3>1. CASE s = t
      <4>1. /\ xs[t] \in Seq({"XOFF", "XON"}) /\ xs[t] # <<>> /\ xs'[t] = Tail(xs[t])
            /\ t \in farBlocked' <=> Head(xs[t]) = "XOFF"
        BY <1>6, <3>1 DEF FarXonXoff, TypeOK, NetOK
      <4>2. Head(xs[t]) \in {"XOFF", "XON"}
        BY <4>1
      <4>3. QED
        BY <4>1, <4>2, TakenLast DEF LastWord
    <3>2. CASE s # t
      BY <1>6, <3>2, <1>k DEF FarXonXoff, TypeOK, NetOK
    <3>3. QED
      BY <3>1, <3>2
  <2>2. QED
    BY <1>6, <2>1 DEF FarXonXoff, Meant
<1>7. CASE UNCHANGED <<xs, farBlocked, xoffSent, reader, pump>>
  BY <1>7, <1>k DEF Meant
<1>8. QED
  BY <1>1, <1>2, <1>3, <1>4, <1>5, <1>6, <1>7 DEF Next, PumpStep, Reader, Far, FarSend,
     FarStreamSendme, FarSendme

(***************************************************************************)
(* Every reachable state satisfies the inductive invariant.                *)
(***************************************************************************)
THEOREM Receiving == Spec => []ReceiveInv
<1>1. Init => ReceiveInv
  BY InitInv
<1>2. ReceiveInv /\ [Next]_vars => ReceiveInv'
  BY StepType, StepCircuit, StepStream, StepBuffer, StepOwes, StepXoff DEF ReceiveInv
<1>3. QED
  BY <1>1, <1>2, PTL DEF Spec

(***************************************************************************)
(* note_received: circuit credit is conserved between the client and the   *)
(* far end, and a far end that keeps within it is never said to overrun.   *)
(***************************************************************************)
THEOREM CircuitConserved == Spec => []CircuitCredit /\ []NeverOverrun
<1>1. ReceiveInv => CircuitCredit /\ NeverOverrun
  BY DEF ReceiveInv
<1>2. QED
  BY <1>1, Receiving, PTL

(***************************************************************************)
(* release_backpressure: stream credit is conserved, so however slowly a   *)
(* stream is read its buffer holds at most a window and an increment.      *)
(***************************************************************************)
THEOREM BackpressureHolds == Spec => []StreamCredit /\ []BufferBounded
<1> USE ReceiveAssumption DEF ReceiveAssumption
<1>1. ReceiveInv => StreamCredit
  BY DEF ReceiveInv
<1>2. ReceiveInv => BufferBounded
  <2> SUFFICES ASSUME ReceiveInv, ~congestion, NEW s \in Streams
               PROVE  buf[s] <= (StreamStart + StreamInc) * CellMax
    BY DEF BufferBounded
  <2>1. BufferFits(s) /\ StreamBalance(s)
    BY DEF ReceiveInv, BufferCredit, StreamCredit
  <2>2. /\ buf[s] \in Nat /\ farStream[s] \in Nat /\ flight[s] \in Nat
        /\ streamSendmes[s] \in Nat /\ window[s] \in Int
    BY DEF ReceiveInv, TypeOK, ClientOK, FarOK, NetOK
  <2>3. StreamInc * streamSendmes[s] \in Nat
    BY <2>2
  <2>4. Promised(s) \in Nat
    BY <2>3 DEF Promised
  <2>5. window[s] \in Nat
    BY ONLY <2>1, <2>2, <2>4 DEF StreamBalance
  <2>6. CellMax * window[s] \in Nat
    BY <2>5
  <2>7. CellMax * (StreamStart + StreamInc) = (StreamStart + StreamInc) * CellMax
        /\ CellMax * (StreamStart + StreamInc) \in Nat
    OBVIOUS
  <2>8. QED
    BY ONLY <2>1, <2>2, <2>6, <2>7 DEF BufferFits
<1>3. QED
  BY <1>1, <1>2, Receiving, PTL

(***************************************************************************)
(* A drained stream with nothing under way may be sent on: no sequence of  *)
(* acknowledgements, XOFFs and XONs leaves the far end waiting for a word  *)
(* that the client will never send.                                        *)
(***************************************************************************)
THEOREM NeverStalls == Spec => []NoStall
<1> USE ReceiveAssumption DEF ReceiveAssumption
<1>1. ReceiveInv => NoStall
  <2> SUFFICES ASSUME ReceiveInv, NEW s \in Streams,
                      buf[s] = 0, reader[s] = "idle", pump = {}, wire = 0, flight[s] = 0,
                      sendmes = 0, streamSendmes[s] = 0, xs[s] = <<>>
               PROVE  FarMaySend(s)
    BY DEF NoStall
  <2>1. farCircuit > 0
    <3>1. CircuitInc * 0 = 0
      OBVIOUS
    <3>2. QED
      BY <3>1 DEF ReceiveInv, CircuitCredit, NeverOverrun, TypeOK, ClientOK, FarOK
  <2>2. Settled(s)
    BY DEF ReceiveInv, ReaderOwes
  <2>3. CASE congestion
    <3>1. Meant(s) /\ ~xoffSent[s]
      BY <2>2, <2>3 DEF ReceiveInv, XoffMeant, Settled
    <3>2. s \notin farBlocked
      BY <3>1 DEF Meant, LastWord
    <3>3. QED
      BY <2>1, <2>3, <3>2 DEF FarMaySend
  <2>4. CASE ~congestion
    <3>1. StreamBalance(s) /\ unacked[s] < StreamInc
      BY <2>2, <2>4 DEF ReceiveInv, StreamCredit, Settled
    <3>2. StreamInc * 0 = 0
      OBVIOUS
    <3>3. Promised(s) = 0
      BY <3>2 DEF Promised
    <3>4. window[s] \in Int /\ unacked[s] \in Nat /\ farStream[s] \in Nat
      BY DEF ReceiveInv, TypeOK, ClientOK, FarOK
    <3>5. farStream[s] > 0
      BY ONLY <3>1, <3>3, <3>4, flight[s] = 0, ReceiveAssumption
         DEF StreamBalance, ReceiveAssumption
    <3>6. QED
      BY <2>1, <2>4, <3>5 DEF FarMaySend
  <2>5. QED
    BY <2>3, <2>4
<1>2. QED
  BY <1>1, Receiving, PTL
=============================================================================
