-------------------------- MODULE StreamSend_proof --------------------------
(* Proofs about module StreamSend.                                         *)
EXTENDS StreamSend, SequenceTheorems, FiniteSetTheorems, TLAPS

(***************************************************************************)
(* Counting the cells of a sequence.                                       *)
(***************************************************************************)

At(seq, S) == {i \in 1..Len(seq) : seq[i] \in S}

\* The places of a sequence that hold a cell of S are finitely many.
LEMMA AtFinite ==
    ASSUME NEW T, NEW seq \in Seq(T), NEW S
    PROVE  IsFiniteSet(At(seq, S)) /\ Count(seq, S) \in Nat /\ Count(seq, S) = Cardinality(At(seq, S))
<1>1. Len(seq) \in Nat
  BY LenProperties
<1>2. IsFiniteSet(1..Len(seq))
  BY <1>1, FS_Interval
<1>3. At(seq, S) \in SUBSET (1..Len(seq))
  BY DEF At
<1>4. IsFiniteSet(At(seq, S))
  BY <1>2, <1>3, FS_Subset
<1> QED
  BY <1>4, FS_CardinalityType DEF Count, At

\* Nothing is counted in an empty sequence.
LEMMA CountEmpty ==
    ASSUME NEW S
    PROVE  Count(<<>>, S) = 0
<1>1. {i \in 1..Len(<<>>) : <<>>[i] \in S} = {}
  OBVIOUS
<1> QED
  BY <1>1, FS_EmptySet DEF Count

\* A cell that joins the end is one more, if it is one of those counted.
LEMMA CountAppend ==
    ASSUME NEW T, NEW seq \in Seq(T), NEW e \in T, NEW S
    PROVE  Count(Append(seq, e), S) = IF e \in S THEN Count(seq, S) + 1 ELSE Count(seq, S)
<1> DEFINE n == Len(seq)
           more == Append(seq, e)
<1>1. /\ more \in Seq(T) /\ Len(more) = n + 1 /\ n \in Nat
      /\ \A i \in 1..n : more[i] = seq[i]
      /\ more[n + 1] = e
  BY AppendProperties, LenProperties
<1> HIDE DEF more
<1>2. At(more, S) = IF e \in S THEN At(seq, S) \cup {n + 1} ELSE At(seq, S)
  BY <1>1 DEF At
<1>3. n + 1 \notin At(seq, S)
  BY <1>1 DEF At
<1>4. IsFiniteSet(At(seq, S)) /\ Count(seq, S) = Cardinality(At(seq, S)) /\ Count(more, S) = Cardinality(At(more, S))
  BY <1>1, AtFinite
<1>5. CASE e \in S
  <2>1. Cardinality(At(seq, S) \cup {n + 1}) = Cardinality(At(seq, S)) + 1
    BY <1>3, <1>4, FS_AddElement
  <2> QED
    BY <1>2, <1>4, <1>5, <2>1 DEF more
<1>6. CASE e \notin S
  BY <1>2, <1>4, <1>6 DEF more
<1> QED
  BY <1>5, <1>6

\* A cell that leaves the front is one less, if it was one of those counted.
LEMMA CountTail ==
    ASSUME NEW T, NEW seq \in Seq(T), seq # <<>>, NEW S
    PROVE  Count(seq, S) = IF Head(seq) \in S THEN Count(Tail(seq), S) + 1 ELSE Count(Tail(seq), S)
<1> DEFINE n == Len(seq)
           rest == Tail(seq)
           others == At(seq, S) \ {1}
<1>1. /\ rest \in Seq(T) /\ n \in Nat /\ n >= 1 /\ Len(rest) = n - 1 /\ Head(seq) = seq[1]
      /\ \A i \in 1..n - 1 : rest[i] = seq[i + 1]
  BY HeadTailProperties, EmptySeq, LenProperties
<1> HIDE DEF rest
<1>2. /\ IsFiniteSet(At(seq, S)) /\ Count(seq, S) = Cardinality(At(seq, S))
      /\ IsFiniteSet(At(rest, S)) /\ Count(rest, S) = Cardinality(At(rest, S)) /\ Count(rest, S) \in Nat
      /\ Count(seq, S) \in Nat
  BY <1>1, AtFinite
<1>3. 1 \in At(seq, S) <=> Head(seq) \in S
  BY <1>1 DEF At
<1>4. Cardinality(others) = IF Head(seq) \in S THEN Count(seq, S) - 1 ELSE Count(seq, S)
  BY <1>2, <1>3, FS_RemoveElement
<1>5. Cardinality(others) = Cardinality(At(rest, S))
  <2> DEFINE f == [i \in At(rest, S) |-> i + 1]
  <2>1. \A i \in At(rest, S) : i \in Nat /\ i + 1 \in others
    BY <1>1 DEF At
  <2>2. \A j \in others : j \in Nat /\ j - 1 \in At(rest, S) /\ (j - 1) + 1 = j
    BY <1>1 DEF At
  <2>3. f \in [At(rest, S) -> others]
    BY <2>1
  <2>4. \A i, j \in At(rest, S) : f[i] = f[j] => i = j
    BY <2>1
  <2>5. \A j \in others : f[j - 1] = j
    BY <2>2
  <2>6. \A j \in others : \E i \in At(rest, S) : f[i] = j
    BY <2>2, <2>5
  <2> HIDE DEF f
  <2>7. f \in Bijection(At(rest, S), others)
    BY <2>3, <2>4, <2>6 DEF Bijection, Injection, Surjection, IsInjective
  <2>8. ExistsBijection(At(rest, S), others)
    BY <2>7 DEF ExistsBijection
  <2> QED
    BY <1>2, <2>8, FS_Bijection
<1> QED
  BY <1>2, <1>4, <1>5 DEF rest

-----------------------------------------------------------------------------
(***************************************************************************)
(* Arithmetic.                                                             *)
(***************************************************************************)

\* A count that goes round at k.
LEMMA GoesRound ==
    ASSUME NEW k \in Nat \ {0}, NEW c \in 0..k - 1
    PROVE  (c + 1) % k = IF c + 1 = k THEN 0 ELSE c + 1
OBVIOUS

\* One increment more.
LEMMA OneMore ==
    ASSUME NEW k \in Nat, NEW n \in Nat
    PROVE  k * (n + 1) = k * n + k /\ k * n \in Nat
OBVIOUS

\* A cell that leaves one part of a sum for another, or for a whole increment.
LEMMA CellMoves ==
    ASSUME NEW k \in Nat \ {0}, NEW u \in Int, NEW l \in Int, NEW d \in 0..k - 1, NEW x \in Int, NEW z \in Int,
           NEW e \in Int, NEW y \in Int,
           u + l + d + x = z, e = IF d + 1 = k THEN 0 ELSE d + 1, y = IF e = 0 THEN x + k ELSE x
    PROVE  u + (l - 1) + e + y = z
OBVIOUS

-----------------------------------------------------------------------------
(***************************************************************************)
(* The inductive invariant.                                                *)
(***************************************************************************)

Words == [cell : {"SENDME", "CREDIT", "XOFF", "XON", "END"}, stream : Streams]

\* A writer that has begun a write has one left to make.
Promised == \A s \in Streams : writer[s] \in {"stream", "circuit"} => written[s] < MaxCells[s]

Inv == TypeOK /\ Promised /\ Credit

\* What is on its way from the far end is counted in whole cells.
LEMMA CountTypes ==
    ASSUME TypeOK
    PROVE  /\ Sendmes \in Nat /\ wire \in Seq(Streams) /\ back \in Seq(Words) /\ Len(wire) \in Nat
           /\ \A s \in Streams : OnWire(s) \in Nat /\ Owed("CREDIT", s) \in Nat
<1>1. wire \in Seq(Streams) /\ back \in Seq(Words)
  BY DEF TypeOK, Words
<1> QED
  BY <1>1, AtFinite, LenProperties DEF Sendmes, OnWire, Owed

\* A word has its cell and its stream, by which it is counted.
LEMMA WordType ==
    ASSUME NEW cell \in {"SENDME", "CREDIT", "XOFF", "XON", "END"}, NEW s \in Streams
    PROVE  /\ Word(cell, s) \in Words /\ Word(cell, s).cell = cell /\ Word(cell, s).stream = s
           /\ Word(cell, s) \in {Word("SENDME", t) : t \in Streams} <=> cell = "SENDME"
           /\ \A t \in Streams : Word(cell, s) \in {Word("CREDIT", t)} <=> cell = "CREDIT" /\ s = t
BY DEF Word, Words

\* A word is its cell and its stream.
LEMMA WordIs ==
    ASSUME NEW w \in Words
    PROVE  w = Word(w.cell, w.stream) /\ w.stream \in Streams /\ w.cell \in {"SENDME", "CREDIT", "XOFF", "XON", "END"}
BY DEF Word, Words

\* The far end sends a word: what is owed on the circuit and on each stream.
LEMMA BackAppend ==
    ASSUME TypeOK, NEW cell \in {"SENDME", "CREDIT", "XOFF", "XON", "END"}, NEW s \in Streams,
           back' = Append(back, Word(cell, s))
    PROVE  /\ back' \in Seq(Words)
           /\ Sendmes' = IF cell = "SENDME" THEN Sendmes + 1 ELSE Sendmes
           /\ \A t \in Streams : Owed("CREDIT", t)' = IF cell = "CREDIT" /\ s = t
                                                      THEN Owed("CREDIT", t) + 1 ELSE Owed("CREDIT", t)
<1>1. back \in Seq(Words)
  BY CountTypes
<1>2. /\ Word(cell, s) \in Words
      /\ Word(cell, s) \in {Word("SENDME", t) : t \in Streams} <=> cell = "SENDME"
      /\ \A t \in Streams : Word(cell, s) \in {Word("CREDIT", t)} <=> cell = "CREDIT" /\ s = t
  BY WordType
<1> DEFINE w == Word(cell, s)
<1> HIDE DEF w
<1>3. back' \in Seq(Words)
  BY <1>1, <1>2, AppendProperties
<1>4. \A S : Count(Append(back, w), S) = IF w \in S THEN Count(back, S) + 1 ELSE Count(back, S)
  BY <1>1, <1>2, CountAppend DEF w
<1>5. \A S : Count(back', S) = IF w \in S THEN Count(back, S) + 1 ELSE Count(back, S)
  BY <1>4 DEF w
<1>6. Sendmes' = IF cell = "SENDME" THEN Sendmes + 1 ELSE Sendmes
  BY <1>2, <1>5 DEF Sendmes, w
<1>7. ASSUME NEW t \in Streams
      PROVE  Owed("CREDIT", t)' = IF cell = "CREDIT" /\ s = t
                                  THEN Owed("CREDIT", t) + 1 ELSE Owed("CREDIT", t)
  BY <1>2, <1>5 DEF Owed, w
<1> QED
  BY <1>3, <1>6, <1>7

\* The pump takes one.
LEMMA BackTail ==
    ASSUME TypeOK, back # <<>>, back' = Tail(back)
    PROVE  /\ back' \in Seq(Words) /\ Head(back) \in Words
           /\ Sendmes = IF Head(back).cell = "SENDME" THEN Sendmes' + 1 ELSE Sendmes'
           /\ \A t \in Streams : Owed("CREDIT", t) = IF Head(back).cell = "CREDIT" /\ Head(back).stream = t
                                                     THEN Owed("CREDIT", t)' + 1 ELSE Owed("CREDIT", t)'
           /\ Sendmes' \in Nat /\ \A t \in Streams : Owed("CREDIT", t)' \in Nat
<1>1. back \in Seq(Words)
  BY CountTypes
<1>2. Head(back) \in Words /\ back' \in Seq(Words)
  BY <1>1, HeadTailProperties
<1> DEFINE w == Head(back)
<1>3. /\ w = Word(w.cell, w.stream) /\ w.stream \in Streams
      /\ w.cell \in {"SENDME", "CREDIT", "XOFF", "XON", "END"}
  BY <1>2, WordIs
<1>4. /\ w \in {Word("SENDME", t) : t \in Streams} <=> w.cell = "SENDME"
      /\ \A t \in Streams : w \in {Word("CREDIT", t)} <=> w.cell = "CREDIT" /\ w.stream = t
  BY <1>3, WordType
<1>5. \A S : Count(back, S) = IF w \in S THEN Count(Tail(back), S) + 1 ELSE Count(Tail(back), S)
  BY <1>1, CountTail
<1> HIDE DEF w
<1>6. \A S : Count(back, S) = IF w \in S THEN Count(back', S) + 1 ELSE Count(back', S)
  BY <1>5
<1>7. Sendmes = IF w.cell = "SENDME" THEN Sendmes' + 1 ELSE Sendmes'
  BY <1>4, <1>6 DEF Sendmes
<1>8. ASSUME NEW t \in Streams
      PROVE  Owed("CREDIT", t) = IF w.cell = "CREDIT" /\ w.stream = t
                                 THEN Owed("CREDIT", t)' + 1 ELSE Owed("CREDIT", t)'
  BY <1>4, <1>6 DEF Owed
<1>9. Sendmes' \in Nat /\ \A t \in Streams : Owed("CREDIT", t)' \in Nat
  BY <1>2, AtFinite DEF Sendmes, Owed
<1> QED
  BY <1>2, <1>7, <1>8, <1>9 DEF w

-----------------------------------------------------------------------------
(***************************************************************************)
(* The actions.                                                            *)
(***************************************************************************)

\* Steps of a writer that leave both wires and the far end as they are.
LEMMA WriterHolds ==
    ASSUME Inv, NEW s \in Streams, Write(s) \/ TakeCredit(s) \/ StreamFails(s) \/ CircuitFails(s)
    PROVE  Inv'
<1> USE DEF Inv
<1>1. /\ UNCHANGED <<congestion, inflight, cwnd, blocked, ended, written, counted, queue, delivered,
                     stopped, wire, back>>
  BY DEF Write, TakeCredit, StreamFails, CircuitFails, far
<1>2. Sendmes' = Sendmes /\ \A t \in Streams : OnWire(t)' = OnWire(t) /\ Owed("CREDIT", t)' = Owed("CREDIT", t)
  BY <1>1 DEF Sendmes, OnWire, Owed
<1>3. CircuitCredit'
  BY <1>1, <1>2 DEF Credit, CircuitCredit
<1>4. CASE TakeCredit(s)
  <2>1. /\ writer[s] = "stream" /\ window[s] > 0 /\ s \notin ended
        /\ window' = [window EXCEPT ![s] = window[s] - 1]
        /\ writer' = [writer EXCEPT ![s] = "circuit"]
    BY <1>4 DEF TakeCredit
  <2>2. window[s] - 1 \in Nat
    BY <2>1 DEF TypeOK
  <2>3. TypeOK'
    BY <1>1, <2>1, <2>2 DEF TypeOK
  <2>4. Promised'
    BY <1>1, <2>1 DEF Promised, TypeOK
  <2>5. ASSUME ~congestion, NEW t \in Streams \ ended
        PROVE  window'[t] + OnWire(t) + queue[t] + delivered[t] + StreamInc * Owed("CREDIT", t)
                 = StreamStart - (IF writer'[t] \in {"circuit", "stranded"} THEN 1 ELSE 0)
    <3>1. window[t] + OnWire(t) + queue[t] + delivered[t] + StreamInc * Owed("CREDIT", t)
            = StreamStart - (IF writer[t] \in {"circuit", "stranded"} THEN 1 ELSE 0)
      BY <2>5 DEF Credit, StreamCredit
    <3>2. window[t] \in Nat /\ queue[t] \in Nat /\ delivered[t] \in Nat /\ OnWire(t) \in Nat
      BY CountTypes, SendingAssumption DEF TypeOK, SendingAssumption
    <3> DEFINE x == StreamInc * Owed("CREDIT", t)
    <3>3. x \in Nat /\ StreamStart \in Nat
      BY CountTypes, OneMore, SendingAssumption DEF SendingAssumption
    <3> HIDE DEF x
    <3>4. CASE t = s
      <4>1. window'[t] = window[t] - 1 /\ writer'[t] = "circuit" /\ writer[t] = "stream"
        BY <2>1, <3>4 DEF TypeOK
      <4>2. window[t] + OnWire(t) + queue[t] + delivered[t] + x = StreamStart - 0
        BY <3>1, <4>1 DEF x
      <4>3. window'[t] + OnWire(t) + queue[t] + delivered[t] + x = StreamStart - 1
        BY <3>2, <3>3, <4>1, <4>2
      <4> QED
        BY <4>1, <4>3 DEF x
    <3>5. CASE t # s
      <4>1. window'[t] = window[t] /\ writer'[t] = writer[t]
        BY <2>1, <3>5 DEF TypeOK
      <4> QED
        BY <3>1, <4>1
    <3> QED
      BY <3>4, <3>5
  <2>6. StreamCredit'
    BY <1>1, <1>2, <2>5 DEF StreamCredit
  <2> QED
    BY <1>3, <2>3, <2>4, <2>6 DEF Credit
<1>5. CASE Write(s) \/ StreamFails(s) \/ CircuitFails(s)
  <2>1. window' = window
    BY <1>5 DEF Write, StreamFails, CircuitFails
  <2>2. \/ writer[s] = "idle" /\ written[s] < MaxCells[s] /\ writer' = [writer EXCEPT ![s] = "stream"]
        \/ writer[s] = "stream" /\ writer' = [writer EXCEPT ![s] = "failed"]
        \/ writer[s] = "circuit" /\ writer' = [writer EXCEPT ![s] = "stranded"]
    BY <1>5 DEF Write, StreamFails, CircuitFails
  <2>3. TypeOK'
    BY <1>1, <2>1, <2>2 DEF TypeOK
  <2>4. Promised'
    BY <1>1, <2>2 DEF Promised, TypeOK
  <2>5. \A t \in Streams : writer'[t] \in {"circuit", "stranded"} <=> writer[t] \in {"circuit", "stranded"}
    BY <2>2 DEF TypeOK
  <2>6. StreamCredit'
    BY <1>1, <1>2, <2>1, <2>5 DEF StreamCredit, Credit
  <2> QED
    BY <1>3, <2>3, <2>4, <2>6 DEF Credit
<1> QED
  BY <1>4, <1>5

\* A cell goes out: the credit that its writer held is on the wire.
LEMMA SendDataHolds ==
    ASSUME Inv, NEW s \in Streams, SendData(s)
    PROVE  Inv'
<1> USE DEF Inv
<1>1. /\ writer[s] = "circuit" /\ inflight' = inflight + 1 /\ wire' = Append(wire, s)
      /\ written' = [written EXCEPT ![s] = written[s] + 1] /\ writer' = [writer EXCEPT ![s] = "idle"]
      /\ UNCHANGED <<congestion, cwnd, window, blocked, ended, counted, queue, delivered, stopped, back>>
  BY DEF SendData, far
<1>2. wire \in Seq(Streams) /\ Len(wire) \in Nat /\ Sendmes \in Nat
  BY CountTypes
<1>3. wire' \in Seq(Streams) /\ Len(wire') = Len(wire) + 1
  BY <1>1, <1>2, AppendProperties
<1>4. \A t \in Streams : OnWire(t)' = IF s = t THEN OnWire(t) + 1 ELSE OnWire(t)
  <2>1. \A S : Count(Append(wire, s), S) = IF s \in S THEN Count(wire, S) + 1 ELSE Count(wire, S)
    BY <1>2, CountAppend
  <2> QED
    BY <1>1, <2>1 DEF OnWire
<1>5. Sendmes' = Sendmes /\ \A t \in Streams : Owed("CREDIT", t)' = Owed("CREDIT", t)
  BY <1>1 DEF Sendmes, Owed
<1>6. TypeOK' /\ Promised'
  <2>1. written[s] < MaxCells[s] /\ written[s] \in Nat /\ MaxCells[s] \in Nat
    BY <1>1, SendingAssumption DEF Promised, TypeOK, SendingAssumption
  <2>2. written[s] + 1 \in Nat /\ written[s] + 1 <= MaxCells[s] /\ inflight + 1 \in Nat
    BY <2>1 DEF TypeOK
  <2>3. TypeOK'
    BY <1>1, <1>3, <2>2 DEF TypeOK
  <2>4. Promised'
    BY <1>1 DEF Promised, TypeOK
  <2> QED
    BY <2>3, <2>4
<1>7. CircuitCredit'
  <2>1. inflight = Len(wire) + counted + CircuitInc * Sendmes
    BY DEF Credit, CircuitCredit
  <2> DEFINE x == CircuitInc * Sendmes
  <2>2. x \in Nat /\ counted \in Nat
    BY <1>2, OneMore, SendingAssumption DEF SendingAssumption, TypeOK
  <2>3. inflight' = Len(wire') + counted' + x
    <3> HIDE DEF x
    <3> QED
      BY <1>1, <1>2, <1>3, <2>1, <2>2 DEF x
  <2> QED
    BY <1>5, <2>3 DEF CircuitCredit
<1>8. ASSUME ~congestion, NEW t \in Streams \ ended
      PROVE  window[t] + OnWire(t)' + queue[t] + delivered[t] + StreamInc * Owed("CREDIT", t)
               = StreamStart - (IF writer'[t] \in {"circuit", "stranded"} THEN 1 ELSE 0)
  <2>1. window[t] + OnWire(t) + queue[t] + delivered[t] + StreamInc * Owed("CREDIT", t)
          = StreamStart - (IF writer[t] \in {"circuit", "stranded"} THEN 1 ELSE 0)
    BY <1>8 DEF Credit, StreamCredit
  <2>2. window[t] \in Nat /\ queue[t] \in Nat /\ delivered[t] \in Nat /\ OnWire(t) \in Nat
    BY CountTypes, SendingAssumption DEF TypeOK, SendingAssumption
  <2> DEFINE x == StreamInc * Owed("CREDIT", t)
  <2>3. x \in Nat /\ StreamStart \in Nat
    BY CountTypes, OneMore, SendingAssumption DEF SendingAssumption
  <2> HIDE DEF x
  <2>4. CASE t = s
    <3>1. OnWire(t)' = OnWire(t) + 1 /\ writer'[t] = "idle" /\ writer[t] = "circuit"
      BY <1>1, <1>4, <2>4 DEF TypeOK
    <3> QED
      BY <2>1, <2>2, <2>3, <3>1 DEF x
  <2>5. CASE t # s
    <3>1. OnWire(t)' = OnWire(t) /\ writer'[t] = writer[t]
      BY <1>1, <1>4, <2>5 DEF TypeOK
    <3> QED
      BY <2>1, <3>1
  <2> QED
    BY <2>4, <2>5
<1>9. StreamCredit'
  BY <1>1, <1>5, <1>8 DEF StreamCredit
<1> QED
  BY <1>6, <1>7, <1>9 DEF Credit

\* A SENDME acknowledges an increment, which was in flight.
LEMMA PumpSendmeHolds ==
    ASSUME Inv, PumpSendme
    PROVE  Inv'
<1> USE DEF Inv
<1>1. /\ back # <<>> /\ Head(back).cell = "SENDME" /\ back' = Tail(back)
      /\ inflight' = inflight - CircuitInc /\ (cwnd' \in Cwnds \/ cwnd' = cwnd)
      /\ UNCHANGED <<congestion, window, blocked, ended, writer, written, counted, queue, delivered,
                     stopped, wire>>
  BY DEF PumpSendme, far
<1>2. /\ back' \in Seq(Words) /\ Sendmes = Sendmes' + 1 /\ Sendmes' \in Nat
      /\ \A t \in Streams : Owed("CREDIT", t) = Owed("CREDIT", t)'
  BY <1>1, BackTail
<1>3. \A t \in Streams : OnWire(t)' = OnWire(t)
  BY <1>1 DEF OnWire
<1>4. CircuitCredit' /\ inflight' \in Nat
  <2>1. inflight = Len(wire) + counted + CircuitInc * Sendmes
    BY DEF Credit, CircuitCredit
  <2> DEFINE x == CircuitInc * Sendmes
             y == CircuitInc * Sendmes'
  <2>2. x = y + CircuitInc /\ y \in Nat /\ CircuitInc \in Nat /\ counted \in Nat /\ Len(wire) \in Nat
    <3>1. CircuitInc \in Nat /\ counted \in Nat
      BY SendingAssumption DEF SendingAssumption, TypeOK
    <3>2. x = y + CircuitInc /\ y \in Nat
      BY <1>2, <3>1, OneMore
    <3> QED
      BY <3>1, <3>2, CountTypes
  <2>3. inflight' = Len(wire') + counted' + y /\ inflight' \in Nat
    <3> HIDE DEF y
    <3>1. inflight = Len(wire) + counted + x
      BY <2>1
    <3> HIDE DEF x
    <3> QED
      BY <1>1, <2>2, <3>1
  <2> QED
    BY <2>3 DEF CircuitCredit
<1>5. StreamCredit'
  BY <1>1, <1>2, <1>3 DEF StreamCredit, Credit
<1>6. TypeOK' /\ Promised'
  <2>1. TypeOK'
    BY <1>1, <1>2, <1>4 DEF TypeOK, Words
  <2> QED
    BY <1>1, <2>1 DEF Promised
<1> QED
  BY <1>4, <1>5, <1>6 DEF Credit

\* The other words are a stream's: one that has ended takes no notice.
LEMMA PumpStreamHolds ==
    ASSUME Inv, NEW s \in Streams, PumpStream(s)
    PROVE  Inv'
<1> USE DEF Inv
<1> DEFINE cell == Head(back).cell
<1>1. /\ back # <<>> /\ cell # "SENDME" /\ Head(back).stream = s /\ back' = Tail(back)
      /\ window' = IF s \notin ended /\ cell = "CREDIT"
                   THEN [window EXCEPT ![s] = window[s] + StreamInc] ELSE window
      /\ blocked' = IF s \notin ended /\ cell \in {"XOFF", "XON"}
                    THEN [blocked EXCEPT ![s] = (cell = "XOFF")] ELSE blocked
      /\ ended' = IF cell = "END" THEN ended \cup {s} ELSE ended
      /\ UNCHANGED <<congestion, inflight, cwnd, writer, written, counted, queue, delivered, stopped, wire>>
  BY DEF PumpStream, far
<1> HIDE DEF cell
<1>2. /\ back' \in Seq(Words) /\ Sendmes = Sendmes'
      /\ \A t \in Streams : Owed("CREDIT", t) = IF cell = "CREDIT" /\ s = t
                                                THEN Owed("CREDIT", t)' + 1 ELSE Owed("CREDIT", t)'
      /\ \A t \in Streams : Owed("CREDIT", t)' \in Nat
  BY <1>1, BackTail DEF cell
<1>3. \A t \in Streams : OnWire(t)' = OnWire(t)
  BY <1>1 DEF OnWire
<1>4. CircuitCredit'
  BY <1>1, <1>2 DEF CircuitCredit, Credit
<1>5. TypeOK' /\ Promised'
  <2>1. window' \in [Streams -> Nat]
    <3>1. window[s] + StreamInc \in Nat
      BY SendingAssumption DEF SendingAssumption, TypeOK
    <3> QED
      BY <1>1, <3>1 DEF TypeOK
  <2>2. blocked' \in [Streams -> BOOLEAN]
    <3>1. (cell = "XOFF") \in BOOLEAN
      OBVIOUS
    <3> QED
      BY <1>1, <3>1 DEF TypeOK
  <2>3. TypeOK'
    BY <1>1, <1>2, <2>1, <2>2 DEF TypeOK, Words
  <2> QED
    BY <1>1, <2>3 DEF Promised
<1>6. ASSUME ~congestion, NEW t \in Streams \ ended'
      PROVE  window'[t] + OnWire(t) + queue[t] + delivered[t] + StreamInc * Owed("CREDIT", t)'
               = StreamStart - (IF writer[t] \in {"circuit", "stranded"} THEN 1 ELSE 0)
  <2>0. t \in Streams \ ended
    BY <1>1
  <2>1. window[t] + OnWire(t) + queue[t] + delivered[t] + StreamInc * Owed("CREDIT", t)
          = StreamStart - (IF writer[t] \in {"circuit", "stranded"} THEN 1 ELSE 0)
    BY <1>6, <2>0 DEF Credit, StreamCredit
  <2>2. window[t] \in Nat /\ queue[t] \in Nat /\ delivered[t] \in Nat /\ OnWire(t) \in Nat
    BY CountTypes, SendingAssumption DEF TypeOK, SendingAssumption
  <2>4. CASE t = s /\ cell = "CREDIT"
    <3> DEFINE x == StreamInc * Owed("CREDIT", t)
               y == StreamInc * Owed("CREDIT", t)'
               z == StreamStart - (IF writer[t] \in {"circuit", "stranded"} THEN 1 ELSE 0)
    <3>1. window'[t] = window[t] + StreamInc /\ Owed("CREDIT", t) = Owed("CREDIT", t)' + 1
      BY <1>1, <1>2, <2>0, <2>4 DEF TypeOK
    <3>2. x = y + StreamInc /\ y \in Nat /\ StreamInc \in Nat
      BY <1>2, <3>1, OneMore, SendingAssumption DEF SendingAssumption
    <3>3. window[t] + OnWire(t) + queue[t] + delivered[t] + x = z
      BY <2>1
    <3> HIDE DEF x, y, z
    <3>4. window'[t] + OnWire(t) + queue[t] + delivered[t] + y = z
      BY <2>2, <3>1, <3>2, <3>3
    <3> QED
      BY <3>4 DEF y, z
  <2>5. CASE ~(t = s /\ cell = "CREDIT")
    <3>1. window'[t] = window[t] /\ Owed("CREDIT", t)' = Owed("CREDIT", t)
      BY <1>1, <1>2, <2>5 DEF TypeOK
    <3> QED
      BY <2>1, <3>1
  <2> QED
    BY <2>4, <2>5
<1>7. StreamCredit'
  BY <1>1, <1>3, <1>6 DEF StreamCredit
<1> QED
  BY <1>4, <1>5, <1>7 DEF Credit

\* A cell arrives: it leaves the wire for its stream's queue, and it or a whole increment's
\* SENDME stands for it on the circuit.
LEMMA FarReceiveHolds ==
    ASSUME Inv, FarReceive
    PROVE  Inv'
<1> USE DEF Inv
<1> DEFINE s == Head(wire)
<1>1. /\ wire # <<>> /\ wire' = Tail(wire) /\ queue' = [queue EXCEPT ![s] = queue[s] + 1]
      /\ counted' = (counted + 1) % CircuitInc
      /\ back' = IF counted' = 0 THEN Append(back, Word("SENDME", s)) ELSE back
      /\ UNCHANGED <<congestion, inflight, cwnd, window, blocked, ended, writer, written, delivered, stopped>>
  BY DEF FarReceive, client
<1>2. /\ wire \in Seq(Streams) /\ Len(wire) \in Nat /\ Sendmes \in Nat
      /\ \A t \in Streams : OnWire(t) \in Nat /\ Owed("CREDIT", t) \in Nat
  BY CountTypes
<1>3. /\ s \in Streams /\ wire' \in Seq(Streams) /\ Len(wire') = Len(wire) - 1
  BY <1>1, <1>2, HeadTailProperties
<1>4. \A t \in Streams : /\ OnWire(t) = IF s = t THEN OnWire(t)' + 1 ELSE OnWire(t)'
                         /\ OnWire(t)' \in Nat
  <2>1. \A S : Count(wire, S) = IF s \in S THEN Count(Tail(wire), S) + 1 ELSE Count(Tail(wire), S)
    BY <1>1, <1>2, CountTail
  <2>2. \A S : Count(wire', S) \in Nat
    BY <1>3, AtFinite
  <2> HIDE DEF s
  <2> QED
    BY <1>1, <2>1, <2>2 DEF OnWire
<1> HIDE DEF s
<1>5. /\ CircuitInc \in Nat \ {0} /\ counted \in 0..CircuitInc - 1 /\ counted \in Nat
      /\ counted' = IF counted + 1 = CircuitInc THEN 0 ELSE counted + 1
  <2>1. CircuitInc \in Nat \ {0} /\ counted \in 0..CircuitInc - 1
    BY SendingAssumption DEF SendingAssumption, TypeOK
  <2>2. (counted + 1) % CircuitInc = IF counted + 1 = CircuitInc THEN 0 ELSE counted + 1
    BY <2>1, GoesRound
  <2>3. counted \in Nat
    BY <2>1
  <2> QED
    BY <1>1, <2>1, <2>2, <2>3
<1>6. /\ back' \in Seq(Words)
      /\ Sendmes' = IF counted' = 0 THEN Sendmes + 1 ELSE Sendmes
      /\ \A t \in Streams : Owed("CREDIT", t)' = Owed("CREDIT", t)
  <2>1. CASE counted' = 0
    BY <1>1, <1>3, <2>1, BackAppend
  <2>2. CASE counted' # 0
    BY <1>1, <2>2, CountTypes DEF Sendmes, Owed
  <2> QED
    BY <2>1, <2>2
<1>7. CircuitCredit'
  <2> DEFINE x == CircuitInc * Sendmes
             y == CircuitInc * Sendmes'
  <2>1. inflight = Len(wire) + counted + x
    BY DEF Credit, CircuitCredit
  <2>2. x \in Nat /\ y = IF counted' = 0 THEN x + CircuitInc ELSE x
    BY <1>2, <1>5, <1>6, OneMore
  <2>3. inflight \in Nat
    BY DEF TypeOK
  <2> HIDE DEF x, y
  <2> DEFINE e == counted'
             l == Len(wire)
  <2>4. y \in Int /\ e \in Int /\ l \in Int /\ x \in Int /\ inflight \in Int
    BY <1>2, <1>5, <2>2, <2>3
  <2>5. l + counted + x = inflight
    BY <2>1
  <2>6. l - 1 + e + y = inflight
    <3>1. e = (IF counted + 1 = CircuitInc THEN 0 ELSE counted + 1) /\ y = IF e = 0 THEN x + CircuitInc ELSE x
      BY <1>5, <2>2
    <3> HIDE DEF e, l
    <3> QED
      BY <1>5, <2>4, <2>5, <3>1
  <2>7. inflight = Len(wire') + counted' + y
    BY <1>2, <1>3, <2>4, <2>6
  <2> QED
    BY <1>1, <2>7 DEF CircuitCredit, y
<1>8. TypeOK' /\ Promised'
  <2>1. counted' \in 0..CircuitInc - 1
    BY <1>5
  <2>2. queue' \in [Streams -> Nat]
    <3>1. queue[s] + 1 \in Nat
      BY <1>3 DEF TypeOK
    <3> QED
      BY <1>1, <3>1 DEF TypeOK
  <2>3. TypeOK'
    BY <1>1, <1>3, <1>6, <2>1, <2>2 DEF TypeOK, Words
  <2> QED
    BY <1>1, <2>3 DEF Promised
<1>9. \A t \in Streams : OnWire(t)' + queue'[t] = OnWire(t) + queue[t]
  <2> SUFFICES ASSUME NEW t \in Streams PROVE OnWire(t)' + queue'[t] = OnWire(t) + queue[t]
    OBVIOUS
  <2>1. queue[t] \in Nat /\ queue'[t] = IF t = s THEN queue[t] + 1 ELSE queue[t]
    BY <1>1 DEF TypeOK
  <2> QED
    BY <1>4, <2>1
<1>10. ASSUME ~congestion, NEW t \in Streams \ ended
       PROVE  window[t] + OnWire(t)' + queue'[t] + delivered[t] + StreamInc * Owed("CREDIT", t)
                = StreamStart - (IF writer[t] \in {"circuit", "stranded"} THEN 1 ELSE 0)
  <2> DEFINE x == StreamInc * Owed("CREDIT", t)
             z == StreamStart - (IF writer[t] \in {"circuit", "stranded"} THEN 1 ELSE 0)
  <2>1. window[t] + OnWire(t) + queue[t] + delivered[t] + x = z
    BY <1>10 DEF Credit, StreamCredit
  <2>2. /\ window[t] \in Nat /\ queue[t] \in Nat /\ delivered[t] \in Nat
        /\ queue'[t] \in Nat
    BY <1>8, SendingAssumption DEF TypeOK, SendingAssumption
  <2>3. x \in Nat
    BY <1>2, OneMore, SendingAssumption DEF SendingAssumption
  <2>5. z \in Int /\ OnWire(t) \in Int /\ OnWire(t)' \in Int /\ OnWire(t)' + queue'[t] = OnWire(t) + queue[t]
    BY <1>2, <1>4, <1>9, SendingAssumption DEF SendingAssumption
  <2> HIDE DEF x, z
  <2>4. window[t] + OnWire(t)' + queue'[t] + delivered[t] + x = z
    <3> DEFINE b == OnWire(t)'
               p == queue'[t]
    <3>1. b \in Int /\ p \in Int /\ b + p = OnWire(t) + queue[t]
      BY <2>2, <2>5
    <3> HIDE DEF b, p
    <3>2. window[t] + b + p + delivered[t] + x = z
      BY <2>1, <2>2, <2>3, <2>5, <3>1
    <3> QED
      BY <3>2 DEF b, p
  <2> QED
    BY <2>4 DEF x, z
<1>11. StreamCredit'
  BY <1>1, <1>6, <1>10 DEF StreamCredit
<1> QED
  BY <1>7, <1>8, <1>11 DEF Credit

\* A cell is delivered: it waits for its stream's increment, or that is acknowledged.
LEMMA FarDeliverHolds ==
    ASSUME Inv, NEW s \in Streams, FarDeliver(s)
    PROVE  Inv'
<1> USE DEF Inv
<1> DEFINE n == IF congestion THEN 0 ELSE (delivered[s] + 1) % StreamInc
<1>1. /\ queue[s] > 0 /\ queue' = [queue EXCEPT ![s] = queue[s] - 1]
      /\ delivered' = [delivered EXCEPT ![s] = n]
      /\ back' = IF ~congestion /\ n = 0 THEN Append(back, Word("CREDIT", s)) ELSE back
      /\ UNCHANGED <<congestion, inflight, cwnd, window, blocked, ended, writer, written, wire, counted, stopped>>
  BY DEF FarDeliver, client
<1>2. /\ StreamInc \in Nat \ {0} /\ delivered[s] \in 0..StreamInc - 1 /\ delivered[s] \in Nat
  BY SendingAssumption DEF SendingAssumption, TypeOK
<1>3. n \in 0..StreamInc - 1 /\ (~congestion => n = IF delivered[s] + 1 = StreamInc THEN 0 ELSE delivered[s] + 1)
  BY <1>2, GoesRound
<1> HIDE DEF n
<1>4. /\ back' \in Seq(Words) /\ Sendmes' = Sendmes
      /\ \A t \in Streams : Owed("CREDIT", t)' = IF ~congestion /\ n = 0 /\ t = s
                                                 THEN Owed("CREDIT", t) + 1 ELSE Owed("CREDIT", t)
  <2>1. CASE ~congestion /\ n = 0
    BY <1>1, <2>1, BackAppend
  <2>2. CASE ~(~congestion /\ n = 0)
    BY <1>1, <2>2, CountTypes DEF Sendmes, Owed
  <2> QED
    BY <2>1, <2>2
<1>5. \A t \in Streams : OnWire(t)' = OnWire(t)
  BY <1>1 DEF OnWire
<1>6. CircuitCredit'
  BY <1>1, <1>4 DEF CircuitCredit, Credit
<1>7. TypeOK' /\ Promised'
  <2>1. queue[s] - 1 \in Nat
    BY <1>1 DEF TypeOK
  <2>2. queue' \in [Streams -> Nat] /\ delivered' \in [Streams -> 0..StreamInc - 1]
    BY <1>1, <1>3, <2>1 DEF TypeOK
  <2>3. TypeOK'
    BY <1>1, <1>4, <2>2 DEF TypeOK, Words
  <2> QED
    BY <1>1, <2>3 DEF Promised
<1>8. ASSUME ~congestion, NEW t \in Streams \ ended
      PROVE  window[t] + OnWire(t) + queue'[t] + delivered'[t] + StreamInc * Owed("CREDIT", t)'
               = StreamStart - (IF writer[t] \in {"circuit", "stranded"} THEN 1 ELSE 0)
  <2> DEFINE x == StreamInc * Owed("CREDIT", t)
             y == StreamInc * Owed("CREDIT", t)'
             z == StreamStart - (IF writer[t] \in {"circuit", "stranded"} THEN 1 ELSE 0)
  <2>1. window[t] + OnWire(t) + queue[t] + delivered[t] + x = z
    BY <1>8 DEF Credit, StreamCredit
  <2>2. /\ window[t] \in Nat /\ queue[t] \in Nat /\ delivered[t] \in Nat /\ OnWire(t) \in Nat
        /\ Owed("CREDIT", t) \in Nat
    <3>1. window[t] \in Nat /\ queue[t] \in Nat /\ delivered[t] \in Nat
      BY SendingAssumption DEF TypeOK, SendingAssumption
    <3> QED
      BY <3>1, CountTypes
  <2>3. CASE t = s
    <3>1. queue'[t] = queue[t] - 1 /\ delivered'[t] = n
      BY <1>1, <2>3 DEF TypeOK
    <3>2. Owed("CREDIT", t)' = IF n = 0 THEN Owed("CREDIT", t) + 1 ELSE Owed("CREDIT", t)
      BY <1>4, <1>8, <2>3
    <3>3. x \in Nat /\ y = IF n = 0 THEN x + StreamInc ELSE x
      <4>1. StreamInc \in Nat
        BY <1>2
      <4> QED
        BY <2>2, <3>2, <4>1, OneMore
    <3>4. n = IF delivered[t] + 1 = StreamInc THEN 0 ELSE delivered[t] + 1
      BY <1>3, <1>8, <2>3
    <3>6. z \in Int /\ delivered[t] \in 0..StreamInc - 1 /\ n \in Int
      BY <1>2, <1>3, <2>3, SendingAssumption DEF SendingAssumption
    <3> DEFINE u == window[t] + OnWire(t)
    <3> HIDE DEF x, y, z
    <3>7. u \in Int /\ y \in Int
      BY <1>2, <2>2, <3>3
    <3>8. u + queue[t] + delivered[t] + x = z
      BY <2>1
    <3> HIDE DEF u
    <3>9. u + (queue[t] - 1) + n + y = z
      BY <1>2, <2>2, <3>3, <3>4, <3>6, <3>7, <3>8, CellMoves
    <3>5. window[t] + OnWire(t) + queue'[t] + delivered'[t] + y = z
      BY <3>1, <3>9 DEF u
    <3> QED
      BY <3>5 DEF y, z
  <2>4. CASE t # s
    <3>1. queue'[t] = queue[t] /\ delivered'[t] = delivered[t]
      BY <1>1, <2>4 DEF TypeOK
    <3>2. Owed("CREDIT", t)' = Owed("CREDIT", t)
      BY <1>4, <2>4
    <3> QED
      BY <2>1, <3>1, <3>2
  <2> QED
    BY <2>3, <2>4
<1>9. StreamCredit'
  BY <1>1, <1>5, <1>8 DEF StreamCredit
<1> QED
  BY <1>6, <1>7, <1>9 DEF Credit

\* XOFF, XON and END change no credit.
LEMMA FarWordHolds ==
    ASSUME Inv, NEW s \in Streams, FarXoff(s) \/ FarXon(s) \/ FarEnd(s)
    PROVE  Inv'
<1> USE DEF Inv
<1>1. /\ \E cell \in {"XOFF", "XON", "END"} : back' = Append(back, Word(cell, s))
      /\ stopped' \subseteq stopped \cup {s}
      /\ UNCHANGED <<congestion, inflight, cwnd, window, blocked, ended, writer, written, counted, queue,
                     delivered, wire>>
  BY DEF FarXoff, FarXon, FarEnd, client, far
<1>2. PICK cell \in {"XOFF", "XON", "END"} : back' = Append(back, Word(cell, s))
  BY <1>1
<1>3. /\ back' \in Seq(Words) /\ Sendmes' = Sendmes
      /\ \A t \in Streams : Owed("CREDIT", t)' = Owed("CREDIT", t)
  <2>1. CASE cell = "XOFF"
    BY <1>2, <2>1, BackAppend
  <2>2. CASE cell = "XON"
    BY <1>2, <2>2, BackAppend
  <2>3. CASE cell = "END"
    BY <1>2, <2>3, BackAppend
  <2> QED
    BY <2>1, <2>2, <2>3
<1>4. \A t \in Streams : OnWire(t)' = OnWire(t)
  BY <1>1 DEF OnWire
<1>5. Credit'
  BY <1>1, <1>3, <1>4 DEF Credit, CircuitCredit, StreamCredit
<1>6. TypeOK'
  BY <1>1, <1>3 DEF TypeOK, Words
<1> QED
  BY <1>1, <1>5, <1>6 DEF Promised

-----------------------------------------------------------------------------
(***************************************************************************)
(* The theorems.                                                           *)
(***************************************************************************)

\* In every state: the types hold, a write that has begun has a cell to send, and the credit
\* of the circuit and of every live stream adds up.
THEOREM Invariant == Spec => []Inv
<1>1. Init => Inv
  <2> SUFFICES ASSUME Init PROVE Inv
    OBVIOUS
  <2>1. TypeOK
    <3>1. 0 \in 0..CircuitInc - 1 /\ 0 \in 0..StreamInc - 1
      BY SendingAssumption DEF SendingAssumption
    <3>2. wire \in Seq(Streams) /\ back \in Seq(Words)
      BY EmptySeq DEF Init
    <3>3. \A s \in Streams : written[s] <= MaxCells[s]
      BY SendingAssumption DEF Init, SendingAssumption
    <3> QED
      BY <3>1, <3>2, <3>3, SendingAssumption DEF Init, TypeOK, SendingAssumption, Words
  <2>2. Promised
    BY DEF Init, Promised
  <2>3. Sendmes = 0 /\ \A s \in Streams : OnWire(s) = 0 /\ Owed("CREDIT", s) = 0
    BY CountEmpty DEF Init, Sendmes, OnWire, Owed
  <2>4. CircuitCredit
    BY <2>3, SendingAssumption DEF Init, CircuitCredit, SendingAssumption
  <2>5. StreamCredit
    BY <2>3, SendingAssumption DEF Init, StreamCredit, SendingAssumption
  <2> QED
    BY <2>1, <2>2, <2>4, <2>5 DEF Inv, Credit
<1>2. Inv /\ [Next]_vars => Inv'
  <2> SUFFICES ASSUME Inv, [Next]_vars PROVE Inv'
    OBVIOUS
  <2>1. ASSUME NEW s \in Streams, Writer(s) PROVE Inv'
    BY <2>1, WriterHolds, SendDataHolds DEF Writer
  <2>2. ASSUME NEW s \in Streams, Far(s) \/ FarEnd(s) PROVE Inv'
    BY <2>2, FarDeliverHolds, FarWordHolds DEF Far
  <2>3. CASE Pump
    BY <2>3, PumpSendmeHolds, PumpStreamHolds DEF Pump
  <2>4. CASE FarReceive
    BY <2>4, FarReceiveHolds
  <2>5. CASE UNCHANGED vars
    BY <2>5 DEF vars, client, far, Inv, TypeOK, Promised, Credit, CircuitCredit, StreamCredit,
                Sendmes, OnWire, Owed
  <2> QED
    BY <2>1, <2>2, <2>3, <2>4, <2>5 DEF Next
<1> QED
  BY <1>1, <1>2, PTL DEF Spec

\* Every variable has its type: no window and no count in flight ever goes below zero.
THEOREM TypeCorrect == Spec => []TypeOK
BY Invariant, PTL DEF Inv

\* No credit is lost or made, on the circuit or on a stream, whichever writer gives up and
\* whichever acknowledgement comes first.
THEOREM CreditKept == Spec => []Credit
BY Invariant, PTL DEF Inv

\* A SENDME that is on its way acknowledges cells that are in flight, so the check of
\* note_sendme that ends a circuit for an increment it never sent does not fire.
Due == Sendmes > 0 => inflight >= CircuitInc

\* Due holds in every state: note_sendme never ends a circuit of an honest far end.
THEOREM SendmesDue == Spec => []Due
<1>1. Inv => Due
  <2> SUFFICES ASSUME Inv, Sendmes > 0 PROVE inflight >= CircuitInc
    BY DEF Due
  <2>1. /\ Sendmes \in Nat /\ Len(wire) \in Nat /\ counted \in Nat /\ CircuitInc \in Nat
        /\ inflight = Len(wire) + counted + CircuitInc * Sendmes
    BY CountTypes, SendingAssumption DEF Inv, TypeOK, SendingAssumption, Credit, CircuitCredit
  <2>2. PICK m \in Nat : Sendmes = m + 1
    <3>1. Sendmes - 1 \in Nat /\ Sendmes = (Sendmes - 1) + 1
      BY <2>1
    <3> QED
      BY <3>1
  <2>3. CircuitInc * Sendmes = CircuitInc * m + CircuitInc /\ CircuitInc * m \in Nat
    BY <2>1, <2>2, OneMore
  <2> QED
    BY <2>1, <2>3
<1> QED
  BY <1>1, Invariant, PTL
=============================================================================
