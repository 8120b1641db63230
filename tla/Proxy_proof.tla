---------------------------- MODULE Proxy_proof ----------------------------
(* Proofs about modules TorStream and Proxy.                               *)
EXTENDS Proxy, SequenceTheorems, TLAPS

(***************************************************************************)
(* The inductive invariant of a connection that moves.                     *)
(***************************************************************************)

\* A sequence that counts on from n.
CountsFrom(seq, n) == \A i \in 1..Len(seq) : seq[i] = n + i

\* Threads at a place.
Here(place) == (IF pc["reader"] = place THEN 1 ELSE 0) + (IF pc["writer"] = place THEN 1 ELSE 0)

\* The attempts that may still be counted and opened: there is a number for each.
Room ==
    /\ attempts + Here("count") <= MaxReattaches + 1
    /\ opened + Here("open") <= attempts + 1

\* Nothing is on an attempt that was not opened; a write that has begun has a chunk to write.
Begun ==
    /\ live < opened /\ \A t \in Threads : on[t] < opened
    /\ \A k \in Attempts : k >= opened => carried[k] = <<>>
    /\ pc["writer"] \notin {"idle", "error"} => written < MaxChunks

\* What is kept is all that was written, or nothing.
AllKept == IF allowed THEN Len(buffered) = written /\ CountsFrom(buffered, 0) ELSE buffered = <<>>

\* A copy of it is in order, and of what was written.
Copies ==
    \A t \in Threads : \A i \in 1..Len(todo[t]) :
        /\ todo[t][i] <= written
        /\ \A j \in 1..Len(todo[t]) : i < j => todo[t][i] < todo[t][j]

\* A chunk that reached an attempt was written, or is being written and was sent just now.
Sent ==
    \A k \in Attempts : \A i \in 1..Len(carried[k]) :
        carried[k][i] <= written \/ (carried[k][i] = written + 1 /\ pc["writer"] = "record")

\* A thread that replays has the attempt it opened to itself, and nothing that it
\* has still to send is there yet.
Unsent ==
    /\ \A t \in Threads : pc[t] = "replay" =>
          \A i \in 1..Len(todo[t]), j \in 1..Len(carried[on[t]]) : todo[t][i] # carried[on[t]][j]
    /\ pc["reader"] = "replay" /\ pc["writer"] = "replay" => on["reader"] # on["writer"]

Resting == {"idle", "error"}

Inv == TypeOK /\ Room /\ Begun /\ AllKept /\ Copies /\ Sent /\ NoDuplicates /\ Unsent

-----------------------------------------------------------------------------
(* Initially.                                                              *)

\* Nothing is written, kept or heard, and the first attempt is open.
LEMMA Initially == Init => Inv
<1> SUFFICES ASSUME Init PROVE Inv
    OBVIOUS
<1>1. \A S : <<>> \in Seq(S) /\ Len(<<>>) = 0
    OBVIOUS
<1>2. TypeOK
    BY <1>1, TorStreamAssumption DEF Init, TypeOK, Attempts, Threads, Places
<1>3. Room
    BY TorStreamAssumption DEF Init, Room, Here, Threads
<1>4. Begun
    BY DEF Init, Begun, Threads, Attempts
<1>5. AllKept
    BY <1>1 DEF Init, AllKept, CountsFrom
<1>6. Copies /\ Sent /\ NoDuplicates /\ Unsent
    BY <1>1 DEF Init, Copies, Sent, NoDuplicates, Unsent, Threads
<1> QED
    BY <1>2, <1>3, <1>4, <1>5, <1>6 DEF Inv

-----------------------------------------------------------------------------
(* What a thread that only goes from one place to another leaves as it is.  *)

\* A thread that neither sends, records nor replays in this step may take the live
\* attempt; what was sent is as it was.
LEMMA Elsewhere ==
    ASSUME Inv, NEW t \in Threads, NEW w \in Places \ {"replay", "record"}, pc[t] # "record",
           Goto(t, w), UNCHANGED <<todo, written, carried>>,
           on' = on \/ on' = [on EXCEPT ![t] = live]
    PROVE  Copies' /\ Sent' /\ NoDuplicates' /\ Unsent'
<1> USE DEF Inv
<1>0. /\ pc \in [Threads -> Places] /\ on \in [Threads -> Attempts]
      /\ todo' = todo /\ written' = written /\ carried' = carried
      /\ pc' = [pc EXCEPT ![t] = w]
    BY DEF TypeOK, Goto
<1>1. Copies'
    BY <1>0 DEF Copies
<1>2. Sent'
    BY <1>0 DEF Sent, Threads
<1>3. NoDuplicates'
    BY <1>0 DEF NoDuplicates
<1>4. Unsent'
  <2>1. \A u \in Threads : pc'[u] = "replay" => u # t /\ pc[u] = "replay" /\ on'[u] = on[u]
      BY <1>0
  <2> QED
      BY <1>0, <2>1 DEF Unsent, Threads
<1> QED
    BY <1>1, <1>2, <1>3, <1>4

\* The types, for a thread that goes from one place in a call to another.
LEMMA Moving ==
    ASSUME Inv, NEW t \in Threads, NEW w \in Places,
           w \in {"idle", "error"} \/ pc[t] \notin {"idle", "error"},
           Goto(t, w), UNCHANGED <<movable, live, on, todo, written, heard, late, net>>,
           owed' \in [Threads -> 0..MaxChunks]
    PROVE  /\ (UNCHANGED replay => TypeOK' /\ AllKept')
           /\ Begun'
<1>0. pc' = [pc EXCEPT ![t] = w] /\ pc \in [Threads -> Places]
    BY DEF Inv, TypeOK, Goto
<1>1. ASSUME UNCHANGED replay PROVE TypeOK' /\ AllKept'
    BY <1>0, <1>1 DEF Inv, TypeOK, AllKept, CountsFrom, net, replay
<1>2. Begun'
  <2>1. pc'["writer"] \notin {"idle", "error"} => pc["writer"] \notin {"idle", "error"}
      BY <1>0 DEF Threads
  <2> QED
      BY <2>1 DEF Inv, Begun, net
<1> QED
    BY <1>1, <1>2

-----------------------------------------------------------------------------
(* The steps that change only where a thread is.                           *)

\* Whatever brings a thread from one place of a call to the next.
LEMMA OnlyPlace ==
    ASSUME Inv, NEW t \in Threads, NEW w \in {"failed", "count", "error", "clone", "established"},
           pc[t] \in {"send", "read", "failed", "open", "replay"},
           Goto(t, w), UNCHANGED <<movable, live, replay, on, todo, written, heard, late, net>>,
           owed' \in [Threads -> 0..MaxChunks],
           w = "count" => pc[t] = "failed" /\ attempts < MaxReattaches
    PROVE  Inv'
<1>0. /\ pc \in [Threads -> Places] /\ on \in [Threads -> Attempts]
      /\ pc' = [pc EXCEPT ![t] = w] /\ w \in Places
      /\ movable' = movable /\ live' = live /\ buffered' = buffered /\ allowed' = allowed
      /\ attempts' = attempts /\ on' = on /\ todo' = todo /\ written' = written /\ heard' = heard
      /\ opened' = opened /\ fate' = fate /\ carried' = carried
      /\ attempts \in Int /\ opened \in Int /\ MaxReattaches \in Int
    BY TorStreamAssumption DEF Inv, TypeOK, Goto, Places, replay, caller, history, net, Attempts
<1>1. TypeOK' /\ AllKept' /\ Begun'
    BY <1>0, Moving DEF replay, caller, history, net
<1>2. Copies' /\ Sent' /\ NoDuplicates' /\ Unsent'
    BY <1>0, Elsewhere DEF replay, caller, history, net
<1>3. Room'
  <2>1. CASE w = "count"
    <3>1. Here("count")' <= 2 /\ Here("count")' \in Int
        BY DEF Here
    <3>2. Here("open")' = Here("open")
        BY <1>0, <2>1 DEF Here, Threads
    <3> QED
        BY <1>0, <2>1, <3>1, <3>2 DEF Inv, Room
  <2>2. CASE w # "count"
    <3>1. Here("count")' <= Here("count") /\ Here("open")' <= Here("open")
        BY <1>0, <2>2 DEF Here, Threads
    <3>2. \A p : Here(p) \in Int /\ Here(p)' \in Int
        BY DEF Here
    <3> QED
        BY <1>0, <3>1, <3>2 DEF Inv, Room
  <2> QED
      BY <2>1, <2>2
<1> QED
    BY <1>1, <1>2, <1>3 DEF Inv

\* A failure is noticed, found worth another attempt or not, or ends the call; a clean
\* close is an answer; and a replay that is done goes back to the loop.
LEMMA PlaceSteps ==
    ASSUME Inv,
           \/ WriterFails \/ ReaderFails \/ ReaderEof
           \/ \E t \in Threads : \/ MayRetry(t) \/ GiveUp(t) \/ OpenFails(t)
                                 \/ ReplayFails(t) \/ Again(t)
    PROVE  Inv'
<1>0. owed \in [Threads -> 0..MaxChunks] /\ 0 \in 0..MaxChunks
    BY TorStreamAssumption DEF Inv, TypeOK
<1>1. CASE WriterFails
    BY <1>0, <1>1, OnlyPlace DEF WriterFails, Threads, caller, history
<1>2. CASE ReaderFails
    BY <1>0, <1>2, OnlyPlace DEF ReaderFails, Threads, caller, history
<1>3. CASE ReaderEof
    BY <1>0, <1>3, OnlyPlace DEF ReaderEof, Threads, caller, history
<1>4. ASSUME NEW t \in Threads, MayRetry(t) PROVE Inv'
    BY <1>0, <1>4, OnlyPlace DEF MayRetry, caller, history
<1>5. ASSUME NEW t \in Threads, GiveUp(t) PROVE Inv'
    BY <1>0, <1>5, OnlyPlace DEF GiveUp, caller, history
<1>6. ASSUME NEW t \in Threads, OpenFails(t) PROVE Inv'
    BY <1>0, <1>6, OnlyPlace DEF OpenFails, caller, history
<1>7. ASSUME NEW t \in Threads, ReplayFails(t) PROVE Inv'
    BY <1>0, <1>7, OnlyPlace DEF ReplayFails, caller, history
<1>8. ASSUME NEW t \in Threads, Again(t) PROVE Inv'
    BY <1>0, <1>8, OnlyPlace DEF Again, caller, history
<1> QED
    BY <1>1, <1>2, <1>3, <1>4, <1>5, <1>6, <1>7, <1>8

-----------------------------------------------------------------------------
(* The steps that take the live attempt, or note the answer.               *)

\* note_established leaves all or nothing kept, as it was.
LEMMA Noted ==
    ASSUME Inv, NoteEstablished, UNCHANGED written
    PROVE  /\ AllKept' /\ attempts' = attempts /\ allowed' = FALSE
           /\ buffered' \in Seq(1..MaxChunks) /\ Len(buffered') <= MaxReplay
<1>1. buffered' = <<>> /\ allowed' = FALSE /\ attempts' = attempts
    BY DEF NoteEstablished, Inv, AllKept, TypeOK
<1>2. <<>> \in Seq(1..MaxChunks) /\ Len(<<>>) = 0
    OBVIOUS
<1> QED
    BY <1>1, <1>2, TorStreamAssumption DEF AllKept

\* A call begins or goes round its loop with the live attempt; or a read ends.
LEMMA Taking ==
    ASSUME Inv, NEW t \in Threads, NEW w \in {"send", "read"} \cup Resting,
           pc[t] \in {"idle", "clone", "established"},
           pc[t] = "idle" => Alone(t),
           t = "writer" /\ w \notin Resting => written < MaxChunks,
           on' = [on EXCEPT ![t] = live] \/ (on' = on /\ w \in Resting),
           NoteEstablished \/ (UNCHANGED replay /\ pc[t] # "established"),
           Goto(t, w), UNCHANGED <<movable, live, todo, caller, net>>
    PROVE  Inv'
<1>a. /\ pc \in [Threads -> Places] /\ on \in [Threads -> Attempts] /\ live \in Attempts
      /\ attempts \in Int /\ opened \in Int /\ MaxReattaches \in Int /\ w \in Places
    BY TorStreamAssumption DEF Inv, TypeOK, Places, Attempts, Resting
<1>b. /\ pc' = [pc EXCEPT ![t] = w]
      /\ movable' = movable /\ live' = live
      /\ todo' = todo /\ written' = written /\ heard' = heard
      /\ owed' = owed /\ late' = late
      /\ opened' = opened /\ fate' = fate /\ carried' = carried
    BY DEF Goto, caller, history, net
<1>c. /\ on' \in [Threads -> Attempts]
      /\ w \notin Resting => on'[t] = live
      /\ \A u \in Threads : u # t => on'[u] = on[u] /\ pc'[u] = pc[u]
      /\ \A u \in Threads : on'[u] \in {on[u], live}
    BY <1>a, <1>b
<1>0. /\ pc \in [Threads -> Places] /\ on \in [Threads -> Attempts]
      /\ pc' = [pc EXCEPT ![t] = w] /\ w \in Places
      /\ on' \in [Threads -> Attempts] /\ live \in Attempts
      /\ w \notin Resting => on'[t] = live
      /\ \A u \in Threads : u # t => on'[u] = on[u] /\ pc'[u] = pc[u]
      /\ \A u \in Threads : on'[u] \in {on[u], live}
      /\ movable' = movable /\ live' = live
      /\ todo' = todo /\ written' = written /\ heard' = heard
      /\ owed' = owed /\ late' = late
      /\ opened' = opened /\ fate' = fate /\ carried' = carried
      /\ attempts \in Int /\ opened \in Int /\ MaxReattaches \in Int
    BY <1>a, <1>b, <1>c
<1>1. /\ AllKept' /\ attempts' = attempts /\ (allowed' = FALSE \/ allowed' = allowed)
      /\ buffered' \in Seq(1..MaxChunks) /\ Len(buffered') <= MaxReplay
  <2>1. CASE NoteEstablished
      BY <1>0, <2>1, Noted
  <2>2. CASE UNCHANGED replay
      BY <1>0, <2>2 DEF replay, Inv, AllKept, TypeOK
  <2> QED
      BY <2>1, <2>2
<1>2. TypeOK'
    BY <1>0, <1>1 DEF Inv, TypeOK, net, caller, history
<1>3. Begun'
  <2>1. live < opened /\ \A u \in Threads : on'[u] < opened
      BY <1>0 DEF Inv, Begun
  <2>2. pc'["writer"] \notin {"idle", "error"} => written < MaxChunks
      BY <1>0 DEF Inv, Begun, Threads, Resting
  <2> QED
      BY <1>0, <2>1, <2>2 DEF Inv, Begun
<1>4. Copies' /\ Sent' /\ NoDuplicates' /\ Unsent'
    BY <1>0, Elsewhere DEF caller, history, net, Resting
<1>5. Room'
  <2>1. Here("count")' = Here("count") /\ Here("open")' = Here("open")
      BY <1>0 DEF Here, Threads, Resting
  <2> QED
      BY <1>0, <1>1, <2>1 DEF Inv, Room
<1> QED
    BY <1>1, <1>2, <1>3, <1>4, <1>5 DEF Inv

\* Write::write and Read::read clone live; read notes the answer it has brought.
LEMMA TakingSteps ==
    ASSUME Inv, Write \/ WriterClones \/ Read \/ ReaderClones \/ ReaderEstablishes
    PROVE  Inv'
<1>1. CASE Write
    BY <1>1, Taking DEF Write, WriterCloned, Threads
<1>2. CASE WriterClones
  <2>1. written < MaxChunks
      BY <1>2 DEF WriterClones, Inv, Begun
  <2> QED
      BY <1>2, <2>1, Taking DEF WriterClones, WriterCloned, Threads
<1>3. CASE Read
    BY <1>3, Taking DEF Read, ReaderCloned, Threads
<1>4. CASE ReaderClones
    BY <1>4, Taking DEF ReaderClones, ReaderCloned, Threads
<1>5. CASE ReaderEstablishes
    BY <1>5, Taking DEF ReaderEstablishes, Threads, Resting
<1> QED
    BY <1>1, <1>2, <1>3, <1>4, <1>5

-----------------------------------------------------------------------------
(* The steps that send, record and read.                                   *)

\* What Append does to a sequence.
LEMMA Appended ==
    ASSUME NEW S, NEW s \in Seq(S), NEW x \in S
    PROVE  /\ Append(s, x) \in Seq(S) /\ Len(Append(s, x)) = Len(s) + 1 /\ Len(s) \in Nat
           /\ \A i \in 1..Len(s) : Append(s, x)[i] = s[i]
           /\ Append(s, x)[Len(s) + 1] = x
    BY AppendProperties, LenProperties

\* Chunks are numbers.
LEMMA Chunk ==
    ASSUME NEW n \in Nat, NEW s \in Seq(1..n), NEW i \in 1..Len(s)
    PROVE  s[i] \in 1..n /\ s[i] \in Nat /\ Len(s) \in Nat
<1>1. s[i] \in 1..n
    BY ElementOfSeq
<1> QED
    BY <1>1, LenProperties

\* A cell reaches the far end of an attempt that is open, after all the others.
LEMMA Carrying ==
    ASSUME carried \in [Attempts -> Seq(1..MaxChunks)], NEW k \in Attempts,
           NEW x \in 1..MaxChunks, Carry(k, x)
    PROVE  /\ carried' \in [Attempts -> Seq(1..MaxChunks)]
           /\ \A l \in Attempts : l # k \/ fate[k] # "open" => carried'[l] = carried[l]
           /\ fate[k] = "open" =>
                /\ Len(carried'[k]) = Len(carried[k]) + 1 /\ Len(carried[k]) \in Nat
                /\ \A i \in 1..Len(carried[k]) : carried'[k][i] = carried[k][i]
                /\ carried'[k][Len(carried[k]) + 1] = x
<1>1. CASE fate[k] # "open"
    BY <1>1 DEF Carry
<1>2. CASE fate[k] = "open"
  <2>1. carried' = [carried EXCEPT ![k] = Append(carried[k], x)]
      BY <1>2 DEF Carry
  <2>2. carried[k] \in Seq(1..MaxChunks)
      OBVIOUS
  <2>3. /\ Append(carried[k], x) \in Seq(1..MaxChunks)
        /\ Len(Append(carried[k], x)) = Len(carried[k]) + 1 /\ Len(carried[k]) \in Nat
        /\ \A i \in 1..Len(carried[k]) : Append(carried[k], x)[i] = carried[k][i]
        /\ Append(carried[k], x)[Len(carried[k]) + 1] = x
      BY <2>2, Appended
  <2>4. carried'[k] = Append(carried[k], x) /\ \A l \in Attempts : l # k => carried'[l] = carried[l]
      BY <2>1
  <2>5. carried' \in [Attempts -> Seq(1..MaxChunks)]
      BY <2>1, <2>3
  <2> QED
      BY <1>2, <2>3, <2>4, <2>5
<1> QED
    BY <1>1, <1>2

\* A chunk that is new to an attempt brings no duplicate.
LEMMA StillOnce ==
    ASSUME Inv, NEW k \in Attempts, NEW x \in 1..MaxChunks, Carry(k, x),
           \A i \in 1..Len(carried[k]) : carried[k][i] # x
    PROVE  NoDuplicates'
<1>0. carried \in [Attempts -> Seq(1..MaxChunks)]
    BY DEF Inv, TypeOK
<1>1. /\ \A l \in Attempts : l # k \/ fate[k] # "open" => carried'[l] = carried[l]
      /\ fate[k] = "open" =>
            /\ Len(carried'[k]) = Len(carried[k]) + 1 /\ Len(carried[k]) \in Nat
            /\ \A i \in 1..Len(carried[k]) : carried'[k][i] = carried[k][i]
            /\ carried'[k][Len(carried[k]) + 1] = x
    BY <1>0, Carrying
<1>2. NoDuplicates
    BY DEF Inv
<1> SUFFICES ASSUME NEW l \in Attempts, NEW i \in 1..Len(carried'[l]), NEW j \in 1..Len(carried'[l]),
                    carried'[l][i] = carried'[l][j]
             PROVE  i = j
    BY DEF NoDuplicates
<1>3. CASE l # k \/ fate[k] # "open"
    BY <1>1, <1>2, <1>3 DEF NoDuplicates
<1>4. CASE l = k /\ fate[k] = "open"
  <2>1. i \in 1..Len(carried[k]) \/ i = Len(carried[k]) + 1
      BY <1>1, <1>4
  <2>2. j \in 1..Len(carried[k]) \/ j = Len(carried[k]) + 1
      BY <1>1, <1>4
  <2> QED
      BY <1>1, <1>2, <1>4, <2>1, <2>2 DEF NoDuplicates
<1> QED
    BY <1>3, <1>4

\* send_stream_data takes the chunk that is being written.
LEMMA SendStep == ASSUME Inv, WriterSends PROVE Inv'
<1> DEFINE k == on["writer"]
<1>0. /\ pc \in [Threads -> Places] /\ k \in Attempts /\ written + 1 \in 1..MaxChunks
      /\ carried \in [Attempts -> Seq(1..MaxChunks)] /\ written \in Nat
      /\ "writer" \in Threads /\ "reader" \in Threads
    BY TorStreamAssumption DEF Inv, TypeOK, Begun, WriterSends, Threads
<1>a. /\ pc["writer"] = "send" /\ pc' = [pc EXCEPT !["writer"] = "record"] /\ Carry(k, written + 1)
      /\ movable' = movable /\ live' = live /\ buffered' = buffered /\ allowed' = allowed
      /\ attempts' = attempts /\ on' = on /\ todo' = todo /\ written' = written /\ heard' = heard
      /\ owed' = owed /\ late' = late
      /\ opened' = opened /\ fate' = fate /\ connected' = connected /\ answer' = answer
    BY DEF WriterSends, Goto, replay, caller, history
<1>b. /\ carried' \in [Attempts -> Seq(1..MaxChunks)]
      /\ \A l \in Attempts : l # k \/ fate[k] # "open" => carried'[l] = carried[l]
      /\ fate[k] = "open" =>
            /\ Len(carried'[k]) = Len(carried[k]) + 1 /\ Len(carried[k]) \in Nat
            /\ \A i \in 1..Len(carried[k]) : carried'[k][i] = carried[k][i]
            /\ carried'[k][Len(carried[k]) + 1] = written + 1
    BY <1>0, <1>a, Carrying
<1>c. \A l \in Attempts : \A i \in 1..Len(carried[l]) : carried[l][i] <= written
    BY <1>a DEF Inv, Sent
<1>d. pc'["writer"] = "record" /\ pc'["reader"] = pc["reader"]
    BY <1>0, <1>a
<1>e. \A l \in Attempts : \A i \in 1..Len(carried[l]) : carried[l][i] \in Nat
    BY <1>0, Chunk, TorStreamAssumption
<1> HIDE DEF k
<1>1. TypeOK'
  <2>1. pc' \in [Threads -> Places]
      BY <1>0, <1>a DEF Places
  <2> QED
      BY <1>a, <1>b, <2>1 DEF Inv, TypeOK
<1>2. Room'
    BY <1>a, <1>d DEF Inv, Room, Here
<1>3. Begun'
  <2>1. k < opened
      BY <1>0 DEF Inv, Begun, k
  <2>2. \A l \in Attempts : l >= opened => l # k
      BY <1>0, <2>1 DEF Inv, TypeOK, Attempts
  <2> QED
      BY <1>a, <1>b, <1>d, <2>2 DEF Inv, Begun
<1>4. AllKept' /\ Copies'
    BY <1>a DEF Inv, AllKept, Copies, CountsFrom
<1>5. Sent'
  <2> SUFFICES ASSUME NEW l \in Attempts, NEW i \in 1..Len(carried'[l])
               PROVE  carried'[l][i] <= written \/ carried'[l][i] = written + 1
      BY <1>a, <1>d DEF Sent
  <2>1. CASE l # k \/ fate[k] # "open"
      BY <1>b, <1>c, <2>1
  <2>2. CASE l = k /\ fate[k] = "open"
    <3>1. i \in 1..Len(carried[k]) \/ i = Len(carried[k]) + 1
        BY <1>b, <2>2
    <3> QED
        BY <1>0, <1>b, <1>c, <2>2, <3>1
  <2> QED
      BY <2>1, <2>2
<1>6. NoDuplicates'
  <2>1. \A i \in 1..Len(carried[k]) : carried[k][i] # written + 1
      BY <1>0, <1>c, <1>e
  <2> QED
      BY <1>0, <1>a, <2>1, StillOnce
<1>7. Unsent'
  <2>1. \A u \in Threads : pc'[u] = "replay" => u = "reader" /\ pc["reader"] = "replay"
      BY <1>a, <1>d DEF Threads
  <2>a. pc["reader"] = "replay" => \A i \in 1..Len(todo["reader"]), j \in 1..Len(carried[on["reader"]]) :
                                       todo["reader"][i] # carried[on["reader"]][j]
      BY <1>0 DEF Inv, Unsent
  <2>2. ASSUME pc["reader"] = "replay", NEW i \in 1..Len(todo["reader"]),
               NEW j \in 1..Len(carried'[on["reader"]])
        PROVE  todo["reader"][i] # carried'[on["reader"]][j]
    <3>a. todo["reader"] \in Seq(1..MaxChunks) /\ on["reader"] \in Attempts
        BY <1>0 DEF Inv, TypeOK
    <3>b. todo["reader"][i] \in Nat
        BY <2>2, <3>a, Chunk, TorStreamAssumption
    <3>0. todo["reader"][i] <= written /\ on["reader"] \in Attempts /\ todo["reader"][i] \in Nat
        BY <1>0, <2>2, <3>a, <3>b DEF Inv, Copies
    <3>1. CASE on["reader"] # k \/ fate[k] # "open"
        BY <1>b, <2>a, <2>2, <3>0, <3>1
    <3>2. CASE on["reader"] = k /\ fate[k] = "open"
      <4>1. j \in 1..Len(carried[k]) \/ j = Len(carried[k]) + 1
          BY <1>b, <2>2, <3>2
      <4>2. ASSUME j \in 1..Len(carried[k]) PROVE todo["reader"][i] # carried[k][j]
          BY <2>a, <2>2, <3>2, <4>2
      <4> QED
          BY <1>0, <1>b, <3>0, <3>2, <4>1, <4>2
    <3> QED
        BY <3>1, <3>2
  <2> QED
      BY <1>a, <1>d, <2>1, <2>2 DEF Unsent
<1> QED
    BY <1>1, <1>2, <1>3, <1>4, <1>5, <1>6, <1>7 DEF Inv

\* record_written keeps the chunk with the others, or gives them all up.
LEMMA RecordStep == ASSUME Inv, WriterRecords PROVE Inv'
<1>0. /\ pc \in [Threads -> Places] /\ written + 1 \in 1..MaxChunks /\ written \in Nat
      /\ buffered \in Seq(1..MaxChunks) /\ allowed \in BOOLEAN
      /\ "writer" \in Threads /\ "reader" \in Threads /\ MaxReplay \in Nat
    BY TorStreamAssumption DEF Inv, TypeOK, Begun, WriterRecords, Threads
<1>a. /\ pc["writer"] = "record" /\ pc' = [pc EXCEPT !["writer"] = "idle"]
      /\ movable' = movable /\ live' = live /\ written' = written + 1
      /\ on' = on /\ todo' = todo /\ heard' = heard /\ carried' = carried
      /\ owed' = owed /\ late' = late
      /\ opened' = opened /\ fate' = fate /\ connected' = connected /\ answer' = answer
    BY DEF WriterRecords, Goto, net, history
<1>b. /\ AllKept' /\ attempts' = attempts /\ (allowed' => allowed)
      /\ buffered' \in Seq(1..MaxChunks) /\ Len(buffered') <= MaxReplay /\ allowed' \in BOOLEAN
  <2>1. CASE ~allowed
    <3>1. buffered' = buffered /\ allowed' = allowed /\ attempts' = attempts
        BY <2>1 DEF WriterRecords, replay
    <3> QED
        BY <1>0, <2>1, <3>1 DEF Inv, AllKept, TypeOK
  <2>2. CASE allowed
    <3>1. /\ attempts' = attempts /\ allowed' = (Len(buffered) + 1 <= MaxReplay)
          /\ buffered' = IF allowed' THEN Append(buffered, written + 1) ELSE <<>>
        BY <2>2 DEF WriterRecords
    <3>2. Len(buffered) = written /\ CountsFrom(buffered, 0)
        BY <2>2 DEF Inv, AllKept
    <3>3. CASE allowed'
      <4>1. /\ buffered' \in Seq(1..MaxChunks) /\ Len(buffered') = written + 1
            /\ \A i \in 1..written : buffered'[i] = buffered[i]
            /\ buffered'[written + 1] = written + 1
        <5>1. buffered' = Append(buffered, written + 1)
            BY <3>1, <3>3
        <5>2. /\ Append(buffered, written + 1) \in Seq(1..MaxChunks)
              /\ Len(Append(buffered, written + 1)) = Len(buffered) + 1
              /\ \A i \in 1..Len(buffered) : Append(buffered, written + 1)[i] = buffered[i]
              /\ Append(buffered, written + 1)[Len(buffered) + 1] = written + 1
            BY <1>0, Appended
        <5> QED
            BY <3>2, <5>1, <5>2
      <4>2. ASSUME NEW i \in 1..written + 1 PROVE buffered'[i] = 0 + i
        <5>1. i \in 1..written \/ i = written + 1
            BY <1>0
        <5> QED
            BY <1>0, <3>2, <4>1, <5>1 DEF CountsFrom
      <4>3. Len(buffered') <= MaxReplay
          BY <3>1, <3>2, <3>3, <4>1
      <4> QED
          BY <1>a, <2>2, <3>1, <3>3, <4>1, <4>2, <4>3 DEF AllKept, CountsFrom
    <3>4. CASE ~allowed'
      <4>1. buffered' = <<>> /\ <<>> \in Seq(1..MaxChunks) /\ Len(<<>>) = 0
          BY <3>1, <3>4
      <4>2. allowed' = FALSE
          BY <3>1, <3>4
      <4> QED
          BY <1>0, <3>1, <4>1, <4>2 DEF AllKept
    <3> QED
        BY <3>3, <3>4
  <2> QED
      BY <2>1, <2>2
<1>c. pc'["writer"] = "idle" /\ pc'["reader"] = pc["reader"]
    BY <1>0, <1>a
<1>1. TypeOK'
  <2>1. pc' \in [Threads -> Places] /\ written' \in 0..MaxChunks
      BY <1>0, <1>a DEF Places
  <2> QED
      BY <1>a, <1>b, <2>1 DEF Inv, TypeOK
<1>2. Room'
    BY <1>a, <1>b, <1>c DEF Inv, Room, Here
<1>3. Begun'
    BY <1>a, <1>c DEF Inv, Begun
<1>4. Copies'
  <2>1. ASSUME NEW t \in Threads, NEW i \in 1..Len(todo[t]) PROVE todo[t][i] <= written + 1
    <3>1. todo[t] \in Seq(1..MaxChunks)
        BY DEF Inv, TypeOK
    <3>2. todo[t][i] \in Nat
        BY <3>1, Chunk, TorStreamAssumption
    <3> QED
        BY <1>0, <3>2 DEF Inv, Copies
  <2> QED
      BY <1>a, <2>1 DEF Inv, Copies
<1>5. Sent'
  <2>1. ASSUME NEW k \in Attempts, NEW i \in 1..Len(carried[k]) PROVE carried[k][i] <= written + 1
    <3>1. carried[k] \in Seq(1..MaxChunks)
        BY DEF Inv, TypeOK
    <3>2. carried[k][i] \in Nat
        BY <3>1, Chunk, TorStreamAssumption
    <3> QED
        BY <1>0, <3>2 DEF Inv, Sent
  <2> QED
      BY <1>a, <2>1 DEF Sent
<1>6. NoDuplicates'
    BY <1>a DEF Inv, NoDuplicates
<1>7. Unsent'
  <2>1. \A u \in Threads : pc'[u] = "replay" => pc[u] = "replay"
      BY <1>c DEF Threads
  <2> QED
      BY <1>a, <1>c, <2>1 DEF Inv, Unsent
<1> QED
    BY <1>1, <1>2, <1>3, <1>b, <1>4, <1>5, <1>6, <1>7 DEF Inv

\* read_stream returns bytes of the attempt the reader holds.
LEMMA ReadStep == ASSUME Inv, ReaderReads PROVE Inv'
<1>0. /\ pc \in [Threads -> Places] /\ on["reader"] \in Attempts /\ heard \in Seq(Attempts)
      /\ "writer" \in Threads /\ "reader" \in Threads
    BY DEF Inv, TypeOK, Threads
<1>a. /\ pc["reader"] = "read" /\ pc' = [pc EXCEPT !["reader"] = "established"]
      /\ movable' = movable /\ live' = live /\ written' = written
      /\ buffered' = buffered /\ allowed' = allowed /\ attempts' = attempts
      /\ on' = on /\ todo' = todo /\ carried' = carried /\ owed' = owed /\ late' = late
      /\ opened' = opened /\ fate' = fate /\ connected' = connected
      /\ answer' = answer \ {on["reader"]} /\ heard' = Append(heard, on["reader"])
    BY DEF ReaderReads, Goto, replay, history
<1>b. /\ heard' \in Seq(Attempts) /\ Len(heard') = Len(heard) + 1 /\ Len(heard) \in Nat
      /\ \A i \in 1..Len(heard) : heard'[i] = heard[i]
      /\ heard'[Len(heard) + 1] = on["reader"]
    BY <1>0, <1>a, Appended
<1>c. pc'["writer"] = pc["writer"] /\ pc'["reader"] = "established"
    BY <1>0, <1>a
<1>1. TypeOK'
  <2>1. pc' \in [Threads -> Places]
      BY <1>0, <1>a DEF Places
  <2>2. answer' \subseteq Attempts
      BY <1>a DEF Inv, TypeOK
  <2> QED
      BY <1>a, <1>b, <2>1, <2>2 DEF Inv, TypeOK
<1>2. Room'
    BY <1>a, <1>c DEF Inv, Room, Here
<1>3. Begun'
    BY <1>a, <1>c DEF Inv, Begun
<1>4. AllKept'
    BY <1>a DEF Inv, AllKept, CountsFrom
<1>5. Copies' /\ Sent' /\ NoDuplicates' /\ Unsent'
    BY <1>0, <1>a, Elsewhere DEF Goto, Places
<1> QED
    BY <1>1, <1>2, <1>3, <1>4, <1>5 DEF Inv

\* The far end answers, or an attempt fails: what was sent and kept is as it was.
LEMMA FarStep == ASSUME Inv, NEW k \in Attempts, Far(k) PROVE Inv'
<1>a. /\ pc' = pc /\ movable' = movable /\ live' = live /\ written' = written
      /\ buffered' = buffered /\ allowed' = allowed /\ attempts' = attempts
      /\ on' = on /\ todo' = todo /\ carried' = carried /\ opened' = opened /\ heard' = heard
    /\ owed' = owed /\ late' = late
    BY DEF Far, FarConnected, FarData, FarFails, replay, caller, history
<1>b. /\ connected' \in [Attempts -> BOOLEAN] /\ answer' \subseteq Attempts
      /\ fate' \in [Attempts -> Fates \cup {"open"}]
      /\ \A l \in Attempts : fate'[l] = "open" => fate[l] = "open"
  <2>0. /\ connected \in [Attempts -> BOOLEAN] /\ answer \subseteq Attempts
        /\ fate \in [Attempts -> Fates \cup {"open"}]
      BY DEF Inv, TypeOK
  <2>1. CASE FarConnected(k)
      BY <2>0, <2>1 DEF FarConnected
  <2>2. CASE FarData(k)
      BY <2>0, <2>2 DEF FarData
  <2>3. CASE FarFails(k)
    <3>1. PICK f \in Ends[connected[k]] : fate' = [fate EXCEPT ![k] = f]
        BY <2>3 DEF FarFails
    <3>2. f \in Fates /\ "open" \notin Fates
        BY <2>0, TorStreamAssumption DEF Fates
    <3> QED
        BY <2>0, <2>3, <3>1, <3>2 DEF FarFails
  <2> QED
      BY <2>1, <2>2, <2>3 DEF Far
<1>1. TypeOK'
    BY <1>a, <1>b DEF Inv, TypeOK
<1>2. Room' /\ Begun'
    BY <1>a DEF Inv, Room, Here, Begun
<1>3. AllKept' /\ Copies' /\ Sent' /\ NoDuplicates' /\ Unsent'
    BY <1>a DEF Inv, AllKept, CountsFrom, Copies, Sent, NoDuplicates, Unsent
<1> QED
    BY <1>1, <1>2, <1>3 DEF Inv

-----------------------------------------------------------------------------
(* The steps of reattach.                                                  *)

\* Places are counted in numbers; a thread that is at one counts.
LEMMA Counted ==
    ASSUME NEW t \in Threads, NEW p
    PROVE  Here(p) \in 0..2 /\ (pc[t] = p => Here(p) >= 1)
    BY DEF Here, Threads

\* The attempt is counted, and what is kept is copied: all that was written.
LEMMA CountStep == ASSUME Inv, NEW t \in Threads, Count(t) PROVE Inv'
<1>0. /\ pc \in [Threads -> Places] /\ todo \in [Threads -> Seq(1..MaxChunks)] /\ attempts \in Nat
      /\ on \in [Threads -> Attempts] /\ buffered \in Seq(1..MaxChunks) /\ opened \in Nat
      /\ written \in Nat /\ MaxReattaches \in Nat
    BY TorStreamAssumption DEF Inv, TypeOK, Attempts
<1>a. /\ pc[t] = "count" /\ pc' = [pc EXCEPT ![t] = "open"] /\ attempts' = attempts + 1
      /\ todo' = [todo EXCEPT ![t] = buffered]
      /\ movable' = movable /\ live' = live /\ written' = written /\ heard' = heard
      /\ owed' = [owed EXCEPT ![t] = IF allowed THEN written ELSE 0] /\ late' = late
      /\ buffered' = buffered /\ allowed' = allowed /\ on' = on /\ carried' = carried
      /\ opened' = opened /\ fate' = fate /\ connected' = connected /\ answer' = answer
    BY DEF Count, Goto, caller, history, net
<1>b. /\ pc'[t] = "open" /\ todo'[t] = buffered
      /\ \A u \in Threads : u # t => pc'[u] = pc[u] /\ todo'[u] = todo[u]
    BY <1>0, <1>a
<1>c. /\ Len(buffered) \in Nat
      /\ \A i \in 1..Len(buffered) :
            buffered[i] <= written /\ \A j \in 1..Len(buffered) : i < j => buffered[i] < buffered[j]
  <2>1. Len(buffered) \in Nat
      BY <1>0, LenProperties
  <2>2. CASE allowed
      BY <1>0, <2>1, <2>2 DEF Inv, AllKept, CountsFrom
  <2>3. CASE ~allowed
    <3>1. Len(buffered) = 0
        BY <2>3 DEF Inv, AllKept
    <3> QED
        BY <3>1
  <2> QED
      BY <2>1, <2>2, <2>3
<1>1. Room'
  <2>1. Here("count")' = Here("count") - 1 /\ Here("open")' = Here("open") + 1
      BY <1>a, <1>b DEF Here, Threads
  <2>2. Here("count") \in 0..2 /\ Here("open") \in 0..2
      BY Counted
  <2> QED
      BY <1>0, <1>a, <2>1, <2>2 DEF Inv, Room
<1>2. TypeOK'
  <2>1. attempts' \in Attempts
    <3>1. Here("count") >= 1 /\ Here("count") \in 0..2
        BY <1>a, Counted
    <3> QED
        BY <1>0, <1>a, <3>1 DEF Inv, Room, Attempts
  <2>2. pc' \in [Threads -> Places] /\ todo' \in [Threads -> Seq(1..MaxChunks)]
      BY <1>0, <1>a DEF Places
  <2>3. owed' \in [Threads -> 0..MaxChunks]
      BY <1>a, TorStreamAssumption DEF Inv, TypeOK
  <2> QED
      BY <1>a, <2>1, <2>2, <2>3 DEF Inv, TypeOK
<1>3. Begun'
  <2>1. pc'["writer"] \notin {"idle", "error"} => pc["writer"] \notin {"idle", "error"}
      BY <1>a, <1>b DEF Threads
  <2> QED
      BY <1>a, <2>1 DEF Inv, Begun
<1>4. AllKept' /\ NoDuplicates'
    BY <1>a DEF Inv, AllKept, CountsFrom, NoDuplicates
<1>5. Copies'
  <2> SUFFICES ASSUME NEW u \in Threads, NEW i \in 1..Len(todo'[u])
               PROVE  /\ todo'[u][i] <= written
                      /\ \A j \in 1..Len(todo'[u]) : i < j => todo'[u][i] < todo'[u][j]
      BY <1>a DEF Copies
  <2>1. CASE u = t
      BY <1>b, <1>c, <2>1
  <2>2. CASE u # t
      BY <1>b, <2>2 DEF Inv, Copies
  <2> QED
      BY <2>1, <2>2
<1>6. Sent'
    BY <1>a, <1>b DEF Inv, Sent, Threads
<1>7. Unsent'
  <2>1. \A u \in Threads : pc'[u] = "replay" => pc[u] = "replay" /\ todo'[u] = todo[u]
      BY <1>b
  <2> QED
      BY <1>a, <2>1 DEF Inv, Unsent, Threads
<1> QED
    BY <1>1, <1>2, <1>3, <1>4, <1>5, <1>6, <1>7 DEF Inv

\* The connection is opened elsewhere: the new attempt has been sent nothing.
LEMMA OpenStep == ASSUME Inv, NEW t \in Threads, Open(t) PROVE Inv'
<1>0. /\ pc \in [Threads -> Places] /\ todo \in [Threads -> Seq(1..MaxChunks)] /\ attempts \in Nat
      /\ on \in [Threads -> Attempts] /\ opened \in Nat /\ written \in Nat /\ MaxReattaches \in Nat
    BY TorStreamAssumption DEF Inv, TypeOK, Attempts
<1>a. /\ pc[t] = "open" /\ pc' = [pc EXCEPT ![t] = "replay"] /\ attempts' = attempts
      /\ opened' = opened + 1 /\ on' = [on EXCEPT ![t] = opened] /\ live' = opened
      /\ movable' = movable /\ written' = written /\ heard' = heard /\ todo' = todo
      /\ owed' = owed /\ late' = IF allowed THEN late ELSE late + 1
      /\ buffered' = buffered /\ allowed' = allowed /\ carried' = carried
      /\ fate' = fate /\ connected' = connected /\ answer' = answer
    BY DEF Open, Goto, caller, history, replay
<1>b. /\ pc'[t] = "replay" /\ on'[t] = opened
      /\ \A u \in Threads : u # t => pc'[u] = pc[u] /\ on'[u] = on[u]
    BY <1>0, <1>a
<1>c. Here("open") >= 1 /\ Here("open") \in 0..2 /\ Here("count") \in 0..2
    BY <1>a, Counted
<1>d. opened \in Attempts /\ opened + 1 \in 1..MaxReattaches + 2
    BY <1>0, <1>c DEF Inv, Room, Attempts
<1>e. carried[opened] = <<>> /\ Len(carried[opened]) = 0
    BY <1>0, <1>d DEF Inv, Begun
<1>1. Room'
  <2>1. Here("count")' = Here("count") /\ Here("open")' = Here("open") - 1
      BY <1>a, <1>b DEF Here, Threads
  <2> QED
      BY <1>0, <1>a, <1>c, <2>1 DEF Inv, Room
<1>2. TypeOK'
  <2>1. pc' \in [Threads -> Places] /\ on' \in [Threads -> Attempts]
      BY <1>0, <1>a, <1>d DEF Places
  <2> QED
      BY <1>a, <1>d, <2>1 DEF Inv, TypeOK
<1>3. Begun'
  <2>1. pc'["writer"] \notin {"idle", "error"} => pc["writer"] \notin {"idle", "error"}
      BY <1>a, <1>b DEF Threads
  <2>2. \A u \in Threads : on'[u] < opened + 1
    <3>1. \A u \in Threads : on[u] < opened /\ on[u] \in Nat
        BY <1>0 DEF Inv, Begun, Attempts
    <3>2. ASSUME NEW u \in Threads PROVE on'[u] < opened + 1
      <4>1. CASE u = t
          BY ONLY <1>0, <1>b, <4>1
      <4>2. CASE u # t
        <5>1. on'[u] = on[u] /\ on[u] < opened /\ on[u] \in Nat
            BY ONLY <1>b, <3>1, <4>2, u \in Threads
        <5> QED
            BY ONLY <1>0, <5>1
      <4> QED
          BY ONLY <4>1, <4>2
    <3> QED
        BY ONLY <3>2
  <2>3. \A k \in Attempts : k >= opened + 1 => k >= opened
      BY <1>0 DEF Attempts
  <2>4. \A k \in Attempts : k >= opened + 1 => carried[k] = <<>>
      BY <2>3 DEF Inv, Begun
  <2>5. opened < opened + 1
      BY <1>0
  <2> QED
      BY <1>a, <2>1, <2>2, <2>4, <2>5 DEF Inv, Begun
<1>4. AllKept' /\ NoDuplicates' /\ Copies'
    BY <1>a DEF Inv, AllKept, CountsFrom, NoDuplicates, Copies
<1>5. Sent'
    BY <1>a, <1>b DEF Inv, Sent, Threads
<1>6. Unsent'
  <2>1. ASSUME NEW u \in Threads, pc'[u] = "replay", NEW i \in 1..Len(todo[u]),
               NEW j \in 1..Len(carried[on'[u]])
        PROVE  todo[u][i] # carried[on'[u]][j]
    <3>1. CASE u = t
        BY <1>b, <1>e, <2>1, <3>1
    <3>2. CASE u # t
      <4>1. pc[u] = "replay" /\ on'[u] = on[u]
          BY <1>b, <2>1, <3>2
      <4> QED
          BY <2>1, <4>1 DEF Inv, Unsent
    <3> QED
        BY <3>1, <3>2
  <2>2. on'["reader"] # on'["writer"]
    <3>1. on["reader"] # opened /\ on["writer"] # opened
        BY <1>0 DEF Inv, Begun, Threads, Attempts
    <3> QED
        BY <1>b, <3>1 DEF Threads
  <2> QED
      BY <1>a, <2>1, <2>2 DEF Unsent
<1> QED
    BY <1>1, <1>2, <1>3, <1>4, <1>5, <1>6 DEF Inv

\* What is left when the first is taken.
LEMMA HeadAndRest ==
    ASSUME NEW S, NEW s \in Seq(S), s # <<>>
    PROVE  /\ Head(s) \in S /\ Head(s) = s[1] /\ Tail(s) \in Seq(S)
           /\ Len(Tail(s)) = Len(s) - 1 /\ Len(s) \in Nat /\ Len(s) >= 1
           /\ \A i \in 1..Len(Tail(s)) : Tail(s)[i] = s[i + 1] /\ i + 1 \in 1..Len(s)
<1>1. Len(s) \in Nat /\ Len(s) # 0
    BY EmptySeq, LenProperties
<1>2. Head(s) \in S /\ Head(s) = s[1] /\ Tail(s) \in Seq(S) /\ Len(Tail(s)) = Len(s) - 1
    BY HeadTailProperties
<1>3. \A i \in 1..Len(Tail(s)) : Tail(s)[i] = s[i + 1]
    BY HeadTailProperties
<1> QED
    BY <1>1, <1>2, <1>3

\* The next of the copied chunks is sent on the new attempt.
LEMMA ReplayStep == ASSUME Inv, NEW t \in Threads, Replay(t) PROVE Inv'
<1> DEFINE k == on[t]
           x == Head(todo[t])
           rest == Tail(todo[t])
<1>0. /\ pc \in [Threads -> Places] /\ todo \in [Threads -> Seq(1..MaxChunks)] /\ k \in Attempts
      /\ carried \in [Attempts -> Seq(1..MaxChunks)] /\ written \in Nat /\ opened \in Nat
      /\ todo[t] \in Seq(1..MaxChunks) /\ todo[t] # <<>> /\ on \in [Threads -> Attempts]
    BY DEF Inv, TypeOK, Replay
<1>a. /\ pc[t] = "replay" /\ pc' = pc /\ attempts' = attempts /\ Carry(k, x)
      /\ todo' = [todo EXCEPT ![t] = rest] /\ opened' = opened /\ on' = on /\ live' = live
      /\ movable' = movable /\ written' = written /\ heard' = heard
      /\ owed' = owed /\ late' = late
      /\ buffered' = buffered /\ allowed' = allowed
      /\ fate' = fate /\ connected' = connected /\ answer' = answer
    BY DEF Replay, caller, history, replay
<1>b. /\ x \in 1..MaxChunks /\ x = todo[t][1] /\ rest \in Seq(1..MaxChunks)
      /\ Len(rest) = Len(todo[t]) - 1 /\ Len(todo[t]) \in Nat /\ Len(todo[t]) >= 1
      /\ \A i \in 1..Len(rest) : rest[i] = todo[t][i + 1] /\ i + 1 \in 1..Len(todo[t])
    BY <1>0, HeadAndRest
<1>c. /\ carried' \in [Attempts -> Seq(1..MaxChunks)]
      /\ \A l \in Attempts : l # k \/ fate[k] # "open" => carried'[l] = carried[l]
      /\ fate[k] = "open" =>
            /\ Len(carried'[k]) = Len(carried[k]) + 1 /\ Len(carried[k]) \in Nat
            /\ \A i \in 1..Len(carried[k]) : carried'[k][i] = carried[k][i]
            /\ carried'[k][Len(carried[k]) + 1] = x
    BY <1>0, <1>a, <1>b, Carrying
<1>d. todo'[t] = rest /\ \A u \in Threads : u # t => todo'[u] = todo[u]
    BY <1>0, <1>a
<1>e. /\ x <= written
      /\ \A i \in 1..Len(todo[t]) : todo[t][i] <= written
      /\ \A i, j \in 1..Len(todo[t]) : i < j => todo[t][i] < todo[t][j]
    BY <1>b DEF Inv, Copies
<1>f. /\ \A j \in 1..Len(carried[k]) : x # carried[k][j]
      /\ \A i \in 1..Len(todo[t]), j \in 1..Len(carried[k]) : todo[t][i] # carried[k][j]
    BY <1>a, <1>b DEF Inv, Unsent
<1>j. k = on[t]
    OBVIOUS
<1> HIDE DEF k, x, rest
<1>k. /\ Len(rest) \in Nat /\ 1 \in 1..Len(todo[t])
      /\ \A i \in 1..Len(rest) : i \in Int /\ i + 1 > 1
    BY <1>b
<1>g. \A i \in 1..Len(rest) : x < rest[i]
    BY <1>b, <1>e, <1>k
<1>h. \A i \in 1..Len(rest) : rest[i] \in Nat
    BY <1>b, Chunk, TorStreamAssumption
<1>i. fate[k] = "open" => \A j \in 1..Len(carried'[k]) : j \in 1..Len(carried[k]) \/ j = Len(carried[k]) + 1
    BY <1>c
<1>1. TypeOK'
  <2>1. todo' \in [Threads -> Seq(1..MaxChunks)]
      BY <1>0, <1>a, <1>b
  <2> QED
      BY <1>a, <1>c, <2>1 DEF Inv, TypeOK
<1>2. Room'
    BY <1>a DEF Inv, Room, Here
<1>3. Begun'
  <2>1. k < opened
      BY <1>0 DEF Inv, Begun, k
  <2>2. \A l \in Attempts : l >= opened => l # k
      BY <1>0, <2>1 DEF Attempts
  <2> QED
      BY <1>a, <1>c, <2>2 DEF Inv, Begun
<1>4. AllKept'
    BY <1>a DEF Inv, AllKept, CountsFrom
<1>5. Copies'
  <2> SUFFICES ASSUME NEW u \in Threads, NEW i \in 1..Len(todo'[u])
               PROVE  /\ todo'[u][i] <= written
                      /\ \A j \in 1..Len(todo'[u]) : i < j => todo'[u][i] < todo'[u][j]
      BY <1>a DEF Copies
  <2>1. CASE u = t
    <3>1. i \in 1..Len(rest) /\ todo'[u] = rest
        BY <1>d, <2>1
    <3>2. rest[i] <= written
        BY <1>b, <1>e, <3>1
    <3>3. ASSUME NEW j \in 1..Len(rest), i < j PROVE rest[i] < rest[j]
      <4>1. i + 1 < j + 1
          BY <1>k, <3>1, <3>3
      <4> QED
          BY <1>b, <1>e, <3>1, <4>1
    <3> QED
        BY <3>1, <3>2, <3>3
  <2>2. CASE u # t
      BY <1>d, <2>2 DEF Inv, Copies
  <2> QED
      BY <2>1, <2>2
<1>6. Sent'
  <2> SUFFICES ASSUME NEW l \in Attempts, NEW i \in 1..Len(carried'[l])
               PROVE  carried'[l][i] <= written \/ (carried'[l][i] = written + 1 /\ pc["writer"] = "record")
      BY <1>a DEF Sent
  <2>1. CASE l # k \/ fate[k] # "open"
      BY <1>c, <2>1 DEF Inv, Sent
  <2>2. CASE l = k /\ fate[k] = "open"
    <3>1. CASE i = Len(carried[k]) + 1
        BY <1>c, <1>e, <2>2, <3>1
    <3>2. CASE i \in 1..Len(carried[k])
        BY <1>0, <1>c, <2>2, <3>2 DEF Inv, Sent
    <3> QED
        BY <1>i, <2>2, <3>1, <3>2
  <2> QED
      BY <2>1, <2>2
<1>7. NoDuplicates'
    BY <1>0, <1>a, <1>b, <1>f, StillOnce
<1>8. Unsent'
  <2>1. ASSUME NEW u \in Threads, pc[u] = "replay", NEW i \in 1..Len(todo'[u]),
               NEW j \in 1..Len(carried'[on[u]])
        PROVE  todo'[u][i] # carried'[on[u]][j]
    <3>1. CASE u = t
      <4>1. on[u] = k /\ todo'[u] = rest
          BY <1>d, <3>1 DEF k
      <4>2. \A m \in 1..Len(carried[k]) : rest[i] # carried[k][m]
          BY <1>b, <1>f, <2>1, <4>1
      <4>3. rest[i] # x
          BY <1>b, <1>g, <1>h, <2>1, <4>1
      <4>4. CASE fate[k] # "open"
          BY <1>0, <1>c, <2>1, <4>1, <4>2, <4>4
      <4>5. CASE fate[k] = "open"
          BY <1>c, <1>i, <2>1, <4>1, <4>2, <4>3, <4>5
      <4> QED
          BY <4>4, <4>5
    <3>2. CASE u # t
      <4>1. on[u] # k /\ on[u] \in Attempts /\ todo'[u] = todo[u]
          BY <1>0, <1>a, <1>d, <2>1, <3>2 DEF Inv, Unsent, Threads, k
      <4>2. carried'[on[u]] = carried[on[u]]
          BY <1>c, <4>1
      <4> QED
          BY <2>1, <4>1, <4>2 DEF Inv, Unsent
    <3> QED
        BY <3>1, <3>2
  <2> QED
      BY <1>a, <2>1 DEF Inv, Unsent
<1> QED
    BY <1>1, <1>2, <1>3, <1>4, <1>5, <1>6, <1>7, <1>8 DEF Inv

-----------------------------------------------------------------------------
(* The invariant of a connection that moves, and what follows.             *)

\* Every step of the two threads and of the far end preserves it.
LEMMA EveryStep == ASSUME Inv, [Next]_vars PROVE Inv'
<1>1. CASE UNCHANGED vars
  <2>1. /\ pc' = pc /\ movable' = movable /\ live' = live /\ written' = written
        /\ buffered' = buffered /\ allowed' = allowed /\ attempts' = attempts
        /\ on' = on /\ todo' = todo /\ carried' = carried /\ opened' = opened /\ heard' = heard
        /\ owed' = owed /\ late' = late
        /\ fate' = fate /\ connected' = connected /\ answer' = answer
      BY <1>1 DEF vars, replay, caller, history, net
  <2>2. TypeOK' /\ Room' /\ Begun'
      BY <2>1 DEF Inv, TypeOK, Room, Here, Begun
  <2>3. AllKept' /\ Copies' /\ Sent' /\ NoDuplicates' /\ Unsent'
      BY <2>1 DEF Inv, AllKept, CountsFrom, Copies, Sent, NoDuplicates, Unsent
  <2> QED
      BY <2>2, <2>3 DEF Inv
<1>2. ASSUME NEW t \in Threads, Reattach(t) PROVE Inv'
    BY <1>2, PlaceSteps, CountStep, OpenStep, ReplayStep DEF Reattach
<1>3. CASE Writer
    BY <1>2, <1>3, TakingSteps, PlaceSteps, SendStep, RecordStep DEF Writer, Writes, Threads
<1>4. CASE Reader
    BY <1>2, <1>4, TakingSteps, PlaceSteps, ReadStep DEF Reader, Reads, Threads
<1>5. ASSUME NEW k \in Held, Far(k) PROVE Inv'
  <2>1. k \in Attempts
      BY DEF Inv, TypeOK, Held, Threads
  <2> QED
      BY <1>5, <2>1, FarStep
<1> QED
    BY <1>1, <1>3, <1>4, <1>5 DEF Next

\* The inductive invariant of a connection that moves holds in every state.
THEOREM Invariant == Spec => []Inv
<1>1. Inv /\ [Next]_vars => Inv'
    BY EveryStep
<1> QED
    BY Initially, <1>1, PTL DEF Spec

-----------------------------------------------------------------------------
(* What a move takes along.                                                *)

\* The first n chunks are in a sequence, in order; others may be among them.
Within(n, sent) ==
    /\ \A i \in 1..n : \E p \in 1..Len(sent) : sent[p] = i
    /\ \A p, q \in 1..Len(sent) : sent[p] < sent[q] /\ sent[q] <= n => p < q

\* What a thread has still to replay is the end of what it owes, and the rest of that
\* is on the attempt it has opened.
HandedBy(t) ==
    /\ owed[t] <= written
    /\ pc[t] \in {"open", "replay"} =>
          Len(todo[t]) <= owed[t] /\ CountsFrom(todo[t], owed[t] - Len(todo[t]))
    /\ pc[t] = "open" => Len(todo[t]) = owed[t]
    /\ pc[t] = "replay" /\ fate[on[t]] = "open" => Within(owed[t] - Len(todo[t]), carried[on[t]])

Handed == \A t \in Threads : HandedBy(t)

\* Numbers are numbers.
LEMMA Numbers ==
    ASSUME Inv, NEW t \in Threads
    PROVE  /\ owed[t] \in Nat /\ written \in Nat /\ todo[t] \in Seq(1..MaxChunks) /\ Len(todo[t]) \in Nat
           /\ on[t] \in Attempts /\ carried[on[t]] \in Seq(1..MaxChunks)
<1>1. todo[t] \in Seq(1..MaxChunks)
    BY DEF Inv, TypeOK
<1>2. Len(todo[t]) \in Nat
    BY <1>1, LenProperties
<1> QED
    BY <1>1, <1>2, TorStreamAssumption DEF Inv, TypeOK

\* A thread that is not in reattach, or whose copy and attempt are as they were.
LEMMA StillHanded ==
    ASSUME Inv, NEW t \in Threads, HandedBy(t), owed'[t] = owed[t], written' \in {written, written + 1},
           \/ pc'[t] \notin {"open", "replay"}
           \/ /\ pc'[t] = pc[t] /\ todo'[t] = todo[t] /\ on'[t] = on[t]
              /\ carried'[on[t]] = carried[on[t]] /\ (fate'[on[t]] = "open" => fate[on[t]] = "open")
    PROVE  HandedBy(t)'
<1>0. owed[t] \in Nat /\ written \in Nat
    BY Numbers
<1>1. owed'[t] <= written'
    BY <1>0 DEF HandedBy
<1>2. CASE pc'[t] \notin {"open", "replay"}
    BY <1>1, <1>2 DEF HandedBy
<1>3. CASE /\ pc'[t] = pc[t] /\ todo'[t] = todo[t] /\ on'[t] = on[t]
           /\ carried'[on[t]] = carried[on[t]] /\ (fate'[on[t]] = "open" => fate[on[t]] = "open")
    BY <1>1, <1>3 DEF HandedBy, Within, CountsFrom
<1> QED
    BY <1>2, <1>3

\* A chunk after what is owed leaves it in order.
LEMMA StillWithin ==
    ASSUME NEW n \in Nat, NEW s \in Seq(1..MaxChunks), NEW r \in Seq(1..MaxChunks), Within(n, s),
           Len(r) = Len(s) + 1, \A i \in 1..Len(s) : r[i] = s[i],
           NEW x \in Nat, r[Len(s) + 1] = x, x > n
    PROVE  /\ Within(n, r)
           /\ x = n + 1 /\ (\A i \in 1..Len(s) : s[i] # x) => Within(n + 1, r)
<1>0. Len(s) \in Nat /\ Len(r) \in Nat
    BY LenProperties
<1>1. \A p \in 1..Len(r) : r[p] \in Nat
    BY Chunk, TorStreamAssumption
<1>2. \A p \in 1..Len(r) : p \in 1..Len(s) \/ p = Len(s) + 1
    BY <1>0
<1>3. ASSUME NEW i \in 1..n PROVE \E p \in 1..Len(r) : r[p] = i
  <2>1. PICK p \in 1..Len(s) : s[p] = i
      BY DEF Within
  <2>2. p \in 1..Len(r) /\ r[p] = i
      BY <1>0, <2>1
  <2> QED
      BY <2>2
<1>4. ASSUME NEW p \in 1..Len(r), NEW q \in 1..Len(r), r[p] < r[q], r[q] <= n PROVE p < q
  <2>1. q \in 1..Len(s)
      BY <1>1, <1>2, <1>4
  <2>2. p \in 1..Len(s)
    <3>1. ASSUME p = Len(s) + 1 PROVE FALSE
      <4>1. r[p] = x /\ r[q] \in Nat
          BY <1>1, <3>1
      <4> QED
          BY <1>4, <4>1
    <3> QED
        BY <1>2, <3>1
  <2> QED
      BY <1>4, <2>1, <2>2 DEF Within
<1>5. Within(n, r)
    BY <1>3, <1>4 DEF Within
<1>6. ASSUME x = n + 1, \A i \in 1..Len(s) : s[i] # x PROVE Within(n + 1, r)
  <2>1. ASSUME NEW i \in 1..n + 1 PROVE \E p \in 1..Len(r) : r[p] = i
    <3>1. CASE i \in 1..n
        BY <1>3, <3>1
    <3>2. CASE i = n + 1
      <4>1. Len(s) + 1 \in 1..Len(r) /\ r[Len(s) + 1] = i
          BY <1>0, <1>6, <3>2
      <4> QED
          BY <4>1
    <3> QED
        BY <3>1, <3>2
  <2>2. ASSUME NEW p \in 1..Len(r), NEW q \in 1..Len(r), r[p] < r[q], r[q] <= n + 1 PROVE p < q
    <3>1. CASE r[q] <= n
        BY <1>4, <2>2, <3>1
    <3>2. CASE r[q] = n + 1
      <4>1. q = Len(s) + 1
          BY <1>2, <1>6, <3>2
      <4>2. p # q
          BY <1>1, <2>2
      <4> QED
          BY <1>0, <1>2, <4>1, <4>2
    <3> QED
        BY <1>1, <2>2, <3>1, <3>2
  <2> QED
      BY <2>1, <2>2 DEF Within
<1> QED
    BY <1>5, <1>6

\* A thread goes to a place that is not in reattach, or before the copy is made.
LEMMA HandedPlace ==
    ASSUME Inv, Handed, NEW t \in Threads, NEW w \in Places \ {"open", "replay"}, Goto(t, w),
           UNCHANGED <<todo, carried, fate, owed>>, on' = on \/ on' = [on EXCEPT ![t] = live],
           written' \in {written, written + 1}
    PROVE  Handed'
<1>0. pc \in [Threads -> Places] /\ on \in [Threads -> Attempts] /\ pc' = [pc EXCEPT ![t] = w]
    BY DEF Inv, TypeOK, Goto
<1> SUFFICES ASSUME NEW u \in Threads PROVE HandedBy(u)'
    BY DEF Handed
<1>1. HandedBy(u)
    BY DEF Handed
<1>2. u # t => pc'[u] = pc[u] /\ on'[u] = on[u]
    BY <1>0
<1>3. u = t => pc'[u] \notin {"open", "replay"}
    BY <1>0
<1> QED
    BY <1>1, <1>2, <1>3, StillHanded

\* Every step of read, write and reattach that neither copies nor sends.
LEMMA HandedPlaces ==
    ASSUME Inv, Handed,
           \/ Write \/ WriterClones \/ WriterFails \/ WriterRecords
           \/ Read \/ ReaderClones \/ ReaderReads \/ ReaderEstablishes \/ ReaderEof \/ ReaderFails
           \/ \E t \in Threads : MayRetry(t) \/ GiveUp(t) \/ OpenFails(t) \/ ReplayFails(t)
    PROVE  Handed'
<1> USE DEF caller, history, net, Threads, Places
<1>1. CASE Write \/ WriterClones
    BY <1>1, HandedPlace DEF Write, WriterClones, WriterCloned
<1>2. CASE WriterFails
    BY <1>2, HandedPlace DEF WriterFails
<1>3. CASE WriterRecords
    BY <1>3, HandedPlace DEF WriterRecords
<1>4. CASE Read \/ ReaderClones
    BY <1>4, HandedPlace DEF Read, ReaderClones, ReaderCloned
<1>5. CASE ReaderReads
    BY <1>5, HandedPlace DEF ReaderReads
<1>6. CASE ReaderEstablishes
    BY <1>6, HandedPlace DEF ReaderEstablishes
<1>7. CASE ReaderEof
    BY <1>7, HandedPlace DEF ReaderEof
<1>8. CASE ReaderFails
    BY <1>8, HandedPlace DEF ReaderFails
<1>9. ASSUME NEW t \in Threads, MayRetry(t) \/ GiveUp(t) \/ OpenFails(t) \/ ReplayFails(t)
      PROVE  Handed'
    BY <1>9, HandedPlace DEF MayRetry, GiveUp, OpenFails, ReplayFails
<1> QED
    BY <1>1, <1>2, <1>3, <1>4, <1>5, <1>6, <1>7, <1>8, <1>9

\* A far end's step changes neither what was sent nor what is to be.
LEMMA HandedFar == ASSUME Inv, Handed, NEW k \in Attempts, Far(k) PROVE Handed'
<1>1. /\ pc' = pc /\ todo' = todo /\ on' = on /\ carried' = carried /\ owed' = owed /\ written' = written
      /\ \A l \in Attempts : fate'[l] = "open" => fate[l] = "open"
    BY DEF Far, FarConnected, FarData, FarFails, caller, history, Inv, TypeOK
<1> SUFFICES ASSUME NEW t \in Threads PROVE HandedBy(t)'
    BY DEF Handed
<1>2. HandedBy(t) /\ on[t] \in Attempts
    BY Numbers DEF Handed
<1> QED
    BY <1>1, <1>2, StillHanded

\* reattach copies what is kept: all that was written, unless the replay has been called off.
LEMMA HandedCount == ASSUME Inv, Handed, NEW t \in Threads, Count(t) PROVE Handed'
<1>0. pc \in [Threads -> Places] /\ todo \in [Threads -> Seq(1..MaxChunks)]
    BY DEF Inv, TypeOK
<1>1. /\ pc' = [pc EXCEPT ![t] = "open"] /\ todo' = [todo EXCEPT ![t] = buffered]
      /\ owed' = [owed EXCEPT ![t] = IF allowed THEN written ELSE 0]
      /\ on' = on /\ written' = written /\ carried' = carried /\ fate' = fate
    BY DEF Count, Goto, net
<1> SUFFICES ASSUME NEW u \in Threads PROVE HandedBy(u)'
    BY DEF Handed
<1>2. CASE u # t
  <2>1. HandedBy(u) /\ pc'[u] = pc[u] /\ todo'[u] = todo[u] /\ owed'[u] = owed[u]
      BY <1>0, <1>1, <1>2 DEF Handed, Inv, TypeOK
  <2> QED
      BY <1>1, <2>1, StillHanded
<1>3. CASE u = t
  <2>0. written \in Nat /\ owed \in [Threads -> 0..MaxChunks]
      BY DEF Inv, TypeOK
  <2>1. pc'[t] = "open" /\ todo'[t] = buffered /\ owed'[t] = IF allowed THEN written ELSE 0
      BY <1>0, <1>1, <2>0
  <2>2. Len(buffered) = owed'[t] /\ CountsFrom(buffered, 0) /\ owed'[t] <= written /\ owed'[t] \in Nat
    <3>1. CASE allowed
        BY <2>0, <2>1, <3>1 DEF Inv, AllKept
    <3>2. CASE ~allowed
      <4>1. buffered = <<>> /\ Len(<<>>) = 0
          BY <3>2 DEF Inv, AllKept
      <4> QED
          BY <2>0, <2>1, <3>2, <4>1 DEF CountsFrom
    <3> QED
        BY <3>1, <3>2
  <2>3. owed'[t] - Len(todo'[t]) = 0 /\ Len(todo'[t]) <= owed'[t]
      BY <2>1, <2>2
  <2> QED
      BY <1>1, <1>3, <2>1, <2>2, <2>3 DEF HandedBy, CountsFrom
<1> QED
    BY <1>2, <1>3

\* Nothing has been sent on the attempt it opens.
LEMMA HandedOpen == ASSUME Inv, Handed, NEW t \in Threads, Open(t) PROVE Handed'
<1>0. pc \in [Threads -> Places] /\ on \in [Threads -> Attempts]
    BY DEF Inv, TypeOK
<1>1. /\ pc[t] = "open" /\ pc' = [pc EXCEPT ![t] = "replay"] /\ on' = [on EXCEPT ![t] = opened]
      /\ todo' = todo /\ owed' = owed /\ written' = written /\ carried' = carried /\ fate' = fate
    BY DEF Open, Goto
<1> SUFFICES ASSUME NEW u \in Threads PROVE HandedBy(u)'
    BY DEF Handed
<1>2. CASE u # t
  <2>1. HandedBy(u) /\ pc'[u] = pc[u] /\ on'[u] = on[u]
      BY <1>0, <1>1, <1>2 DEF Handed
  <2> QED
      BY <1>1, <2>1, StillHanded
<1>3. CASE u = t
  <2>1. pc'[t] = "replay" /\ on'[t] = opened
      BY <1>0, <1>1
  <2>2. /\ Len(todo[t]) = owed[t] /\ owed[t] <= written /\ owed[t] - Len(todo[t]) = 0
        /\ CountsFrom(todo[t], owed[t] - Len(todo[t]))
    <3>1. HandedBy(t) /\ owed[t] \in Nat
        BY Numbers DEF Handed
    <3> QED
        BY <1>1, <3>1 DEF HandedBy
  <2>3. Within(0, carried[opened])
    <3>1. opened \in Nat /\ opened \in Attempts
      <4>1. /\ opened \in Nat /\ attempts \in Nat /\ MaxReattaches \in Nat
            /\ Here("open") \in 0..2 /\ Here("count") \in 0..2 /\ Here("open") >= 1
          BY <1>1, Counted, TorStreamAssumption DEF Inv, TypeOK, Attempts
      <4> QED
          BY <4>1 DEF Inv, Room, Attempts
    <3>2. carried[opened] = <<>> /\ Len(<<>>) = 0
        BY <3>1 DEF Inv, Begun
    <3> QED
        BY <3>2 DEF Within
  <2> QED
      BY <1>1, <1>3, <2>1, <2>2, <2>3, Numbers DEF HandedBy, CountsFrom
<1> QED
    BY <1>2, <1>3

\* The copy is sent in order, each chunk after the others.
LEMMA HandedReplay == ASSUME Inv, Handed, NEW t \in Threads, Replay(t) PROVE Handed'
<1> DEFINE k == on[t]
           x == Head(todo[t])
           rest == Tail(todo[t])
           n == owed[t] - Len(todo[t])
<1>0. /\ todo \in [Threads -> Seq(1..MaxChunks)] /\ on \in [Threads -> Attempts] /\ k \in Attempts
      /\ carried \in [Attempts -> Seq(1..MaxChunks)] /\ todo[t] \in Seq(1..MaxChunks)
      /\ todo[t] # <<>> /\ owed[t] \in Nat /\ written \in Nat
    BY Numbers DEF Inv, TypeOK, Replay
<1>1. /\ pc[t] = "replay" /\ pc' = pc /\ todo' = [todo EXCEPT ![t] = rest] /\ on' = on /\ fate' = fate
      /\ owed' = owed /\ written' = written /\ Carry(k, x)
    BY DEF Replay, caller, history
<1>2. /\ x \in 1..MaxChunks /\ x = todo[t][1] /\ rest \in Seq(1..MaxChunks)
      /\ Len(rest) = Len(todo[t]) - 1 /\ Len(todo[t]) \in Nat /\ Len(todo[t]) >= 1
      /\ \A i \in 1..Len(rest) : rest[i] = todo[t][i + 1] /\ i + 1 \in 1..Len(todo[t])
    BY <1>0, HeadAndRest
<1>3. /\ carried' \in [Attempts -> Seq(1..MaxChunks)]
      /\ \A l \in Attempts : l # k \/ fate[k] # "open" => carried'[l] = carried[l]
      /\ fate[k] = "open" =>
            /\ Len(carried'[k]) = Len(carried[k]) + 1 /\ Len(carried[k]) \in Nat
            /\ \A i \in 1..Len(carried[k]) : carried'[k][i] = carried[k][i]
            /\ carried'[k][Len(carried[k]) + 1] = x
    BY <1>0, <1>1, <1>2, Carrying
<1>4. /\ Len(todo[t]) <= owed[t] /\ CountsFrom(todo[t], n) /\ owed[t] <= written
      /\ fate[k] = "open" => Within(n, carried[k])
    BY <1>1 DEF Handed, HandedBy
<1>5. \A j \in 1..Len(carried[k]) : x # carried[k][j]
    BY <1>1, <1>2 DEF Inv, Unsent
<1>6. todo'[t] = rest /\ \A u \in Threads : u # t => todo'[u] = todo[u]
    BY <1>0, <1>1
<1>7. n \in Nat /\ x = n + 1
    BY <1>0, <1>2, <1>4 DEF CountsFrom
<1>8. \A u \in Threads : u # t /\ pc[u] = "replay" => on[u] # k
    BY <1>1 DEF Inv, Unsent, Threads
<1>9. k = on[t] /\ n = owed[t] - Len(todo[t])
    OBVIOUS
<1> HIDE DEF k, x, rest, n
<1>10. owed[t] - Len(rest) = n + 1 /\ Len(rest) <= owed[t]
    BY <1>0, <1>2, <1>4, <1>9
<1>11. CountsFrom(rest, n + 1)
  <2> SUFFICES ASSUME NEW i \in 1..Len(rest) PROVE rest[i] = (n + 1) + i
      BY DEF CountsFrom
  <2>1. rest[i] = n + (i + 1)
      BY <1>2, <1>4 DEF CountsFrom
  <2>2. i \in Nat
      BY <1>2
  <2>3. \A m \in Nat, j \in Nat : m + (j + 1) = (m + 1) + j
      OBVIOUS
  <2> QED
      BY <1>7, <2>1, <2>2, <2>3
<1>12. fate[k] = "open" => Within(n + 1, carried'[k])
  <2> SUFFICES ASSUME fate[k] = "open" PROVE Within(n + 1, carried'[k])
      OBVIOUS
  <2>1. carried[k] \in Seq(1..MaxChunks) /\ carried'[k] \in Seq(1..MaxChunks)
      BY <1>0, <1>3
  <2>2. x \in Nat /\ x > n
      BY <1>7
  <2>3. /\ Within(n, carried[k]) /\ Len(carried'[k]) = Len(carried[k]) + 1
        /\ \A i \in 1..Len(carried[k]) : carried'[k][i] = carried[k][i]
        /\ carried'[k][Len(carried[k]) + 1] = x
        /\ \A i \in 1..Len(carried[k]) : carried[k][i] # x
      BY <1>3, <1>4, <1>5
  <2>4. x = n + 1 /\ (\A i \in 1..Len(carried[k]) : carried[k][i] # x) => Within(n + 1, carried'[k])
      BY <1>7, <2>1, <2>2, <2>3, StillWithin
  <2> QED
      BY <1>7, <2>3, <2>4
<1> SUFFICES ASSUME NEW u \in Threads PROVE HandedBy(u)'
    BY DEF Handed
<1>13. CASE u = t
    BY <1>1, <1>4, <1>6, <1>9, <1>10, <1>11, <1>12, <1>13 DEF HandedBy, CountsFrom
<1>14. CASE u # t
  <2>1. HandedBy(u) /\ todo'[u] = todo[u] /\ on[u] \in Attempts
      BY <1>0, <1>6, <1>14 DEF Handed
  <2>2. CASE pc[u] = "replay"
      BY <1>1, <1>3, <1>8, <1>14, <2>1, <2>2, StillHanded
  <2>3. CASE pc[u] # "replay"
      BY <1>1, <2>1, <2>3 DEF HandedBy, CountsFrom
  <2> QED
      BY <2>2, <2>3
<1> QED
    BY <1>13, <1>14

\* What is written meanwhile comes after what is owed.
LEMMA HandedSend == ASSUME Inv, Handed, WriterSends PROVE Handed'
<1> DEFINE k == on["writer"]
<1>0. /\ pc \in [Threads -> Places] /\ k \in Attempts /\ written + 1 \in 1..MaxChunks
      /\ carried \in [Attempts -> Seq(1..MaxChunks)] /\ written \in Nat /\ "writer" \in Threads
    BY TorStreamAssumption DEF Inv, TypeOK, Begun, WriterSends, Threads
<1>1. /\ pc' = [pc EXCEPT !["writer"] = "record"] /\ todo' = todo /\ on' = on /\ fate' = fate
      /\ owed' = owed /\ written' = written /\ Carry(k, written + 1)
    BY DEF WriterSends, Goto, caller, history
<1>2. /\ carried' \in [Attempts -> Seq(1..MaxChunks)]
      /\ \A l \in Attempts : l # k \/ fate[k] # "open" => carried'[l] = carried[l]
      /\ fate[k] = "open" =>
            /\ Len(carried'[k]) = Len(carried[k]) + 1 /\ Len(carried[k]) \in Nat
            /\ \A i \in 1..Len(carried[k]) : carried'[k][i] = carried[k][i]
            /\ carried'[k][Len(carried[k]) + 1] = written + 1
    BY <1>0, <1>1, Carrying
<1> HIDE DEF k
<1> SUFFICES ASSUME NEW u \in Threads PROVE HandedBy(u)'
    BY DEF Handed
<1>3. /\ HandedBy(u) /\ on[u] \in Attempts /\ owed[u] \in Nat /\ Len(todo[u]) \in Nat
    BY Numbers DEF Handed
<1>4. pc'[u] = pc[u] \/ pc'[u] = "record"
    BY <1>0, <1>1
<1>5. CASE pc'[u] \notin {"open", "replay"} \/ on[u] # k \/ fate[k] # "open"
    BY <1>1, <1>2, <1>3, <1>4, <1>5, StillHanded
<1>6. CASE pc'[u] \in {"open", "replay"} /\ on[u] = k /\ fate[k] = "open"
  <2> DEFINE n == owed[u] - Len(todo[u])
  <2>0. pc'[u] = pc[u]
      BY <1>4, <1>6
  <2>1. n \in Nat /\ n <= written
      BY <1>0, <1>3, <1>6, <2>0 DEF HandedBy
  <2>2. pc[u] = "replay" => Within(n, carried'[k])
    <3> SUFFICES ASSUME pc[u] = "replay" PROVE Within(n, carried'[k])
        OBVIOUS
    <3>1. Within(n, carried[k])
        BY <1>3, <1>6 DEF HandedBy
    <3>2. carried[k] \in Seq(1..MaxChunks) /\ carried'[k] \in Seq(1..MaxChunks)
        BY <1>0, <1>2
    <3>3. written + 1 \in Nat /\ written + 1 > n
        BY <1>0, <2>1
    <3> HIDE DEF n
    <3> QED
        BY <1>2, <1>6, <2>1, <3>1, <3>2, <3>3, StillWithin
  <2> QED
      BY <1>1, <1>3, <1>6, <2>0, <2>2 DEF HandedBy, CountsFrom
<1> QED
    BY <1>5, <1>6

\* The loop goes round: nothing is owed any more.
LEMMA HandedAgain == ASSUME Inv, Handed, NEW t \in Threads, Again(t) PROVE Handed'
<1>1. /\ pc' = [pc EXCEPT ![t] = "clone"] /\ owed' = [owed EXCEPT ![t] = 0] /\ todo' = todo /\ on' = on
      /\ written' = written /\ carried' = carried /\ fate' = fate /\ written \in Nat
      /\ pc \in [Threads -> Places] /\ owed \in [Threads -> 0..MaxChunks]
    BY DEF Again, Goto, net, Inv, TypeOK
<1> SUFFICES ASSUME NEW u \in Threads PROVE HandedBy(u)'
    BY DEF Handed
<1>2. CASE u = t
  <2>1. pc'[u] = "clone" /\ owed'[u] = 0
      BY <1>1, <1>2
  <2> QED
      BY <1>1, <2>1 DEF HandedBy
<1>3. CASE u # t
  <2>1. pc'[u] = pc[u] /\ owed'[u] = owed[u] /\ HandedBy(u)
      BY <1>1, <1>3 DEF Handed
  <2> QED
      BY <1>1, <2>1, StillHanded
<1> QED
    BY <1>2, <1>3

\* Every step hands on what it should.
LEMMA HandedStep == ASSUME Inv, Handed, [Next]_vars PROVE Handed'
<1>1. CASE UNCHANGED vars
  <2>1. /\ pc' = pc /\ owed' = owed /\ written' = written /\ todo' = todo /\ on' = on
        /\ fate' = fate /\ carried' = carried
      BY <1>1 DEF vars, caller, history, net
  <2> QED
      BY <2>1, StillHanded DEF Handed
<1>2. ASSUME NEW t \in Threads, Reattach(t) PROVE Handed'
    BY <1>2, HandedPlaces, HandedCount, HandedOpen, HandedReplay, HandedAgain DEF Reattach
<1>3. CASE Writer
    BY <1>2, <1>3, HandedPlaces, HandedSend DEF Writer, Writes, Threads
<1>4. CASE Reader
    BY <1>2, <1>4, HandedPlaces DEF Reader, Reads, Threads
<1>5. ASSUME NEW k \in Held, Far(k) PROVE Handed'
  <2>1. k \in Attempts
      BY DEF Inv, TypeOK, Held, Threads
  <2> QED
      BY <1>5, <2>1, HandedFar
<1> QED
    BY <1>1, <1>3, <1>4, <1>5 DEF Next

\* Initially nothing is owed.
LEMMA HandedInitially == ASSUME Init PROVE Handed
    BY DEF Init, Handed, HandedBy, Threads

-----------------------------------------------------------------------------
(* When there are no more moves.                                           *)

\* An answer calls the replay off, and its reader has none when it moves the connection.
CalledOff ==
    /\ heard # <<>> => ~allowed \/ pc["reader"] = "established"
    /\ pc["reader"] \in {"count", "open", "replay"} => heard = <<>>

\* Whoever calls it off is not in reattach itself: one thread is left that may be.
LastMove ==
    /\ allowed => late = 0
    /\ ~allowed => late + Here("count") + Here("open") <= 1

\* Attempts become live in their order, and are taken when they are.
Forward ==
    /\ \A t \in Threads : on[t] <= live
    /\ \A i \in 1..Len(heard) : heard[i] <= live /\ (pc["reader"] = "read" => heard[i] <= on["reader"])
    /\ \A i, j \in 1..Len(heard) : i <= j => heard[i] <= heard[j]

Settling == CalledOff /\ LastMove /\ Forward

\* A thread goes from one place to another: to count only while the replay is allowed, and
\* not out of established without calling it off.
LEMMA SettlingPlace ==
    ASSUME Inv, Settling, NEW t \in Threads, NEW w \in Places \ {"replay"}, Goto(t, w),
           UNCHANGED <<heard, late, live>>, on' = on \/ on' = [on EXCEPT ![t] = live],
           w = "read" => on' = [on EXCEPT ![t] = live],
           allowed' = allowed \/ (allowed' = FALSE /\ pc[t] \notin {"count", "open"} /\ w \notin {"count", "open"}),
           w = "count" => allowed /\ pc[t] = "failed", w = "open" => pc[t] = "count",
           pc[t] = "established" => allowed' = FALSE
    PROVE  Settling'
<1>0. /\ pc \in [Threads -> Places] /\ on \in [Threads -> Attempts] /\ pc' = [pc EXCEPT ![t] = w]
      /\ allowed \in BOOLEAN /\ late \in Nat /\ live \in Attempts /\ heard \in Seq(Attempts)
      /\ heard' = heard /\ late' = late /\ live' = live /\ "reader" \in Threads
      /\ \A k \in Attempts : k \in Nat
    BY DEF Inv, TypeOK, Goto, Attempts, Threads
<1>1. CalledOff'
  <2>1. t = "reader" => pc'["reader"] = w
      BY <1>0
  <2>2. t # "reader" => pc'["reader"] = pc["reader"]
      BY <1>0
  <2>3. CASE t = "reader"
      BY <1>0, <2>1, <2>3 DEF Settling, CalledOff
  <2>4. CASE t # "reader"
      BY <1>0, <2>2, <2>4 DEF Settling, CalledOff
  <2> QED
      BY <2>3, <2>4
<1>2. LastMove'
  <2>0. \A p \in {"count", "open"} : Here(p) \in 0..2 /\ Here(p)' \in 0..2
      BY DEF Here
  <2>1. CASE allowed' = allowed
    <3>1. ~allowed => Here("count")' + Here("open")' <= Here("count") + Here("open")
        BY <1>0 DEF Here, Threads
    <3> QED
        BY <1>0, <2>0, <2>1, <3>1 DEF Settling, LastMove
  <2>2. CASE allowed' = FALSE /\ allowed
    <3>1. pc[t] \notin {"count", "open"} /\ w \notin {"count", "open"}
        BY <2>2
    <3>2. Here("count")' + Here("open")' <= 1
        BY <1>0, <3>1 DEF Here, Threads
    <3> QED
        BY <1>0, <2>0, <2>2, <3>2 DEF Settling, LastMove
  <2> QED
      BY <1>0, <2>1, <2>2
<1>3. Forward'
  <2>1. \A u \in Threads : on'[u] <= live
      BY <1>0 DEF Settling, Forward
  <2>2. ASSUME NEW i \in 1..Len(heard), pc'["reader"] = "read" PROVE heard[i] <= on'["reader"]
    <3>1. CASE t = "reader"
      <4>1. w = "read" /\ on'["reader"] = live
          BY <1>0, <2>2, <3>1
      <4> QED
          BY <4>1 DEF Settling, Forward
    <3>2. CASE t # "reader"
      <4>1. pc["reader"] = "read" /\ on'["reader"] = on["reader"]
          BY <1>0, <2>2, <3>2
      <4> QED
          BY <4>1 DEF Settling, Forward
    <3> QED
        BY <3>1, <3>2
  <2> QED
      BY <1>0, <2>1, <2>2 DEF Settling, Forward
<1> QED
    BY <1>1, <1>2, <1>3 DEF Settling

\* Every step of read, write and reattach but two.
LEMMA SettlingPlaces ==
    ASSUME Inv, Settling,
           \/ Write \/ WriterClones \/ WriterSends \/ WriterFails \/ WriterRecords
           \/ Read \/ ReaderClones \/ ReaderEstablishes \/ ReaderEof \/ ReaderFails
           \/ \E t \in Threads : \/ MayRetry(t) \/ GiveUp(t) \/ Count(t) \/ OpenFails(t)
                                 \/ ReplayFails(t) \/ Again(t)
    PROVE  Settling'
<1> USE DEF caller, history, replay, Threads, Places
<1>0. allowed \in BOOLEAN
    BY DEF Inv, TypeOK
<1>1. CASE Write \/ WriterClones
    BY <1>0, <1>1, SettlingPlace DEF Write, WriterClones, WriterCloned, NoteEstablished
<1>2. CASE WriterSends
    BY <1>2, SettlingPlace DEF WriterSends
<1>3. CASE WriterFails
    BY <1>3, SettlingPlace DEF WriterFails
<1>4. CASE WriterRecords
  <2>1. allowed' = allowed \/ allowed' = FALSE
    <3>1. CASE ~allowed
        BY <1>4, <3>1 DEF WriterRecords
    <3>2. CASE allowed
      <4>1. allowed' = (Len(buffered) + 1 <= MaxReplay)
          BY <1>4, <3>2 DEF WriterRecords
      <4>2. allowed' \in BOOLEAN
          BY <4>1
      <4> QED
          BY <1>0, <3>2, <4>2
    <3> QED
        BY <3>1, <3>2
  <2>2. /\ pc["writer"] = "record" /\ Goto("writer", "idle") /\ on' = on
        /\ heard' = heard /\ late' = late /\ live' = live
      BY <1>4 DEF WriterRecords
  <2> QED
      BY <2>1, <2>2, SettlingPlace
<1>5. CASE Read \/ ReaderClones
    BY <1>5, SettlingPlace DEF Read, ReaderClones, ReaderCloned
<1>6. CASE ReaderEstablishes
    BY <1>6, SettlingPlace DEF ReaderEstablishes, NoteEstablished
<1>7. CASE ReaderEof
    BY <1>7, SettlingPlace DEF ReaderEof
<1>8. CASE ReaderFails
    BY <1>8, SettlingPlace DEF ReaderFails
<1>9. ASSUME NEW t \in Threads, MayRetry(t) PROVE Settling'
    BY <1>9, SettlingPlace DEF MayRetry
<1>10. ASSUME NEW t \in Threads, GiveUp(t) \/ OpenFails(t) \/ ReplayFails(t) \/ Again(t)
       PROVE  Settling'
    BY <1>10, SettlingPlace DEF GiveUp, OpenFails, ReplayFails, Again
<1>11. ASSUME NEW t \in Threads, Count(t) PROVE Settling'
    BY <1>11, SettlingPlace DEF Count
<1> QED
    BY <1>1, <1>2, <1>3, <1>4, <1>5, <1>6, <1>7, <1>8, <1>9, <1>10, <1>11

\* The new attempt is after all others; it is the last if the replay was called off.
LEMMA SettlingOpen == ASSUME Inv, Settling, NEW t \in Threads, Open(t) PROVE Settling'
<1>0. /\ pc \in [Threads -> Places] /\ on \in [Threads -> Attempts] /\ allowed \in BOOLEAN
      /\ late \in Nat /\ live \in Attempts /\ heard \in Seq(Attempts) /\ opened \in Nat
      /\ \A k \in Attempts : k \in Nat
    BY DEF Inv, TypeOK, Attempts
<1>1. /\ pc[t] = "open" /\ pc' = [pc EXCEPT ![t] = "replay"] /\ on' = [on EXCEPT ![t] = opened]
      /\ live' = opened /\ late' = IF allowed THEN late ELSE late + 1
      /\ allowed' = allowed /\ heard' = heard
    BY DEF Open, Goto, replay
<1>2. CalledOff'
  <2>1. pc'["reader"] \in {"count", "open", "replay"} => pc["reader"] \in {"count", "open", "replay"}
      BY <1>0, <1>1 DEF Threads
  <2>2. pc["reader"] = "established" => pc'["reader"] = "established"
      BY <1>0, <1>1 DEF Threads
  <2> QED
      BY <1>1, <2>1, <2>2 DEF Settling, CalledOff
<1>3. LastMove'
  <2>1. /\ Here("count")' = Here("count") /\ Here("open")' = Here("open") - 1
        /\ Here("count") \in 0..2 /\ Here("open") \in 0..2
      BY <1>0, <1>1 DEF Here, Threads
  <2> QED
      BY <1>0, <1>1, <2>1 DEF Settling, LastMove
<1>4. Forward'
  <2>1. \A u \in Threads : on'[u] <= opened
    <3>1. \A u \in Threads : on[u] < opened /\ on[u] \in Nat
        BY <1>0 DEF Inv, Begun
    <3> QED
        BY <1>0, <1>1, <3>1
  <2>2. \A i \in 1..Len(heard) : heard[i] <= opened
    <3>1. \A i \in 1..Len(heard) : heard[i] <= live /\ heard[i] \in Nat
        BY <1>0, ElementOfSeq DEF Settling, Forward
    <3>2. live < opened /\ live \in Nat
        BY <1>0 DEF Inv, Begun
    <3> QED
        BY <1>0, <3>1, <3>2
  <2>3. pc'["reader"] = "read" => pc["reader"] = "read" /\ on'["reader"] = on["reader"]
      BY <1>0, <1>1 DEF Threads
  <2> QED
      BY <1>1, <2>1, <2>2, <2>3 DEF Settling, Forward
<1> QED
    BY <1>2, <1>3, <1>4 DEF Settling

\* The reader takes bytes from the attempt it holds, which is none before the last it heard.
LEMMA SettlingRead == ASSUME Inv, Settling, ReaderReads PROVE Settling'
<1>0. /\ pc \in [Threads -> Places] /\ on["reader"] \in Attempts /\ heard \in Seq(Attempts)
      /\ live \in Attempts /\ "reader" \in Threads /\ "writer" \in Threads
      /\ \A k \in Attempts : k \in Nat
    BY DEF Inv, TypeOK, Threads, Attempts
<1>1. /\ pc["reader"] = "read" /\ pc' = [pc EXCEPT !["reader"] = "established"] /\ on' = on
      /\ live' = live /\ late' = late /\ allowed' = allowed /\ heard' = Append(heard, on["reader"])
    BY DEF ReaderReads, Goto, replay, history
<1>2. /\ heard' \in Seq(Attempts) /\ Len(heard') = Len(heard) + 1 /\ Len(heard) \in Nat
      /\ \A i \in 1..Len(heard) : heard'[i] = heard[i]
      /\ heard'[Len(heard) + 1] = on["reader"]
    BY <1>0, <1>1, Appended
<1>3. pc'["reader"] = "established" /\ pc'["writer"] = pc["writer"]
    BY <1>0, <1>1
<1>4. CalledOff'
    BY <1>3 DEF CalledOff
<1>5. LastMove'
    BY <1>1, <1>3 DEF Settling, LastMove, Here
<1>6. \A i \in 1..Len(heard') : i \in 1..Len(heard) \/ i = Len(heard) + 1
    BY <1>2
<1>7. \A i \in 1..Len(heard) : heard[i] <= on["reader"] /\ heard[i] <= live
    BY <1>1 DEF Settling, Forward
<1>8. on["reader"] <= live
    BY <1>0 DEF Settling, Forward
<1>9. \A i \in 1..Len(heard') : heard'[i] <= live
    BY <1>2, <1>6, <1>7, <1>8
<1>10. ASSUME NEW i \in 1..Len(heard'), NEW j \in 1..Len(heard'), i <= j PROVE heard'[i] <= heard'[j]
  <2>1. CASE j \in 1..Len(heard)
    <3>1. i \in 1..Len(heard)
        BY <1>2, <1>10, <2>1
    <3> QED
        BY <1>2, <1>10, <2>1, <3>1 DEF Settling, Forward
  <2>2. CASE j = Len(heard) + 1 /\ i \in 1..Len(heard)
      BY <1>2, <1>7, <2>2
  <2>3. CASE j = Len(heard) + 1 /\ i = Len(heard) + 1
      BY <1>0, <1>2, <2>3
  <2> QED
      BY <1>6, <2>1, <2>2, <2>3
<1>11. Forward'
    BY <1>1, <1>3, <1>8, <1>9, <1>10 DEF Settling, Forward
<1> QED
    BY <1>4, <1>5, <1>11 DEF Settling

\* Every step of the two threads and of the far end.
LEMMA SettlingStep == ASSUME Inv, Settling, [Next]_vars PROVE Settling'
<1>1. ASSUME UNCHANGED <<pc, allowed, late, heard, on, live>> PROVE Settling'
    BY <1>1 DEF Settling, CalledOff, LastMove, Here, Forward
<1>2. CASE UNCHANGED vars
    BY <1>1, <1>2 DEF vars, caller, history, replay
<1>3. ASSUME NEW t \in Threads, Replay(t) PROVE Settling'
    BY <1>1, <1>3 DEF Replay, caller, history, replay
<1>4. ASSUME NEW t \in Threads, Reattach(t) PROVE Settling'
    BY <1>3, <1>4, SettlingPlaces, SettlingOpen DEF Reattach
<1>5. CASE Writer
    BY <1>4, <1>5, SettlingPlaces DEF Writer, Writes, Threads
<1>6. CASE Reader
    BY <1>4, <1>6, SettlingPlaces, SettlingRead DEF Reader, Reads, Threads
<1>7. ASSUME NEW k \in Held, Far(k) PROVE Settling'
    BY <1>1, <1>7 DEF Far, FarConnected, FarData, FarFails, caller, history, replay
<1> QED
    BY <1>2, <1>5, <1>6, <1>7 DEF Next

\* Initially nothing is heard.
LEMMA SettlingInitially == ASSUME Init PROVE Settling
<1>1. Len(heard) = 0 /\ heard = <<>>
    BY DEF Init
<1>2. CalledOff /\ LastMove
    BY <1>1 DEF Init, CalledOff, LastMove
<1>3. Forward
    BY <1>1 DEF Init, Forward, Threads
<1> QED
    BY <1>2, <1>3 DEF Settling

-----------------------------------------------------------------------------
(* The front end takes the steps of a connection that moves.               *)

\* Whatever the front end does is a step of the connection, or leaves it alone.
LEMMA Implements == ASSUME [ProxyNext]_pvars PROVE [Next]_vars
<1>1. CASE UNCHANGED pvars
    BY <1>1 DEF pvars
<1>2. CASE Handle
  <2>1. CASE T2CReads
      BY <2>1 DEF T2CReads, Next, Reader
  <2>2. CASE T2CEof
      BY <2>2 DEF T2CEof, Next, Reader
  <2>3. CASE \/ Negotiate \/ WaitForClient \/ Connects \/ ConnectFails \/ Replies
             \/ T2CFails \/ Shutdown \/ Close
      BY <2>3 DEF Negotiate, WaitForClient, Connects, ConnectFails, Replies, T2CFails,
                  Shutdown, Close, OnlyFront
  <2> QED
      BY <1>2, <2>1, <2>2, <2>3 DEF Handle
<1>3. CASE C2T
  <2>1. CASE C2TReads
      BY <2>1 DEF C2TReads, Next, Writer
  <2>2. CASE C2TEnds
      BY <2>2 DEF C2TEnds, OnlyFront
  <2> QED
      BY <1>3, <2>1, <2>2 DEF C2T
<1>4. CASE Client \/ set_ready \/ BootstrapFails
    BY <1>4 DEF Client, ClientSends, C2TEof, set_ready, BootstrapFails, OnlyFront
<1>5. CASE StreamSteps(Writes) \/ StreamSteps(Reads) \/ StreamSteps(Write \/ Read \/ ReaderEof)
    BY <1>5 DEF StreamSteps, Next, Writer, Reader
<1>6. CASE \E k \in Held : StreamSteps(Far(k))
    BY <1>6 DEF StreamSteps, Next
<1> QED
    BY <1>1, <1>2, <1>3, <1>4, <1>5, <1>6 DEF ProxyNext

\* The front end with its stream implements the connection that moves.
THEOREM Refinement == ProxySpec => Spec
<1>1. ProxyInit => Init
    BY DEF ProxyInit
<1>2. [ProxyNext]_pvars => [Next]_vars
    BY Implements
<1> QED
    BY <1>1, <1>2, PTL DEF ProxySpec, Spec

\* Types, for any number of attempts, chunks and answers: there is a number for every
\* attempt the two threads may open between them.
THEOREM TypeCorrect == ProxySpec => []TypeOK
<1>1. Inv => TypeOK
    BY DEF Inv
<1> QED
    BY <1>1, Invariant, Refinement, PTL

\* No chunk reaches the same attempt twice, however write, read and reattach meet.
THEOREM NoneTwice == ProxySpec => []NoDuplicates
<1>1. Inv => NoDuplicates
    BY DEF Inv
<1> QED
    BY <1>1, Invariant, Refinement, PTL

\* Whatever the two threads do at once, a move takes along, in order, everything that write
\* had returned for when reattach counted it.
THEOREM MovesWhole == ProxySpec => []ReplayWhole
<1>1. Inv /\ Handed => ReplayWhole
  <2> SUFFICES ASSUME Inv, Handed, NEW t \in Threads,
                      pc[t] = "replay", todo[t] = <<>>, fate[on[t]] = "open"
               PROVE  Within(owed[t], carried[on[t]])
      BY DEF ReplayWhole, Within
  <2>1. Len(todo[t]) = 0 /\ owed[t] \in Nat
      BY Numbers
  <2>2. owed[t] - Len(todo[t]) = owed[t]
      BY <2>1
  <2>3. Within(owed[t] - Len(todo[t]), carried[on[t]])
      BY DEF Handed, HandedBy
  <2> QED
      BY <2>2, <2>3
<1>2. Inv /\ Handed /\ [Next]_vars => Handed'
    BY HandedStep
<1> QED
    BY <1>1, <1>2, HandedInitially, Invariant, Refinement, PTL DEF Spec

\* Once there was an answer there is at most one more move, the reader makes none, and
\* what is read comes from the attempts in their order.
THEOREM AnswersSettle == ProxySpec => []AnswerSettles
<1>1. Inv /\ Settling => AnswerSettles
  <2> SUFFICES ASSUME Inv, Settling PROVE AnswerSettles
      OBVIOUS
  <2>1. late <= 1
    <3>1. late \in Nat /\ Here("count") \in 0..2 /\ Here("open") \in 0..2 /\ allowed \in BOOLEAN
        BY DEF Inv, TypeOK, Here
    <3> QED
        BY <3>1 DEF Settling, LastMove
  <2> QED
      BY <2>1 DEF AnswerSettles, Settling, CalledOff, Forward
<1>2. Inv /\ Settling /\ [Next]_vars => Settling'
    BY SettlingStep
<1> QED
    BY <1>1, <1>2, SettlingInitially, Invariant, Refinement, PTL DEF Spec

-----------------------------------------------------------------------------
(* The front end.                                                          *)

Before == {"negotiate", "wait", "asleep", "connect", "reply", "close", "exited"}
During == {"tunnel", "over", "join"}

FrontType ==
    front \in [pc : Before \cup During \cup {"none", "done"}, protocol : Protocols \cup {"none"},
               asked : Requests \cup {"none"}, input : Seq(Nat), sent : Nat, shut : BOOLEAN,
               replies : Seq({"granted", "refused", "page"}), c2t : {"none", "runs", "ended"},
               hand : Nat, closed : BOOLEAN]

\* The one answer: none before, granted while the two directions run.
Answer ==
    /\ front.pc \in Before => front.replies = <<>> /\ front.c2t = "none"
    /\ front.pc \in During => front.replies = <<"granted">> /\ front.c2t # "none"
    /\ front.pc = "done" => /\ Len(front.replies) <= 1
                            /\ front.replies = <<"granted">> <=> front.c2t # "none"

\* What the client has sent and nobody has read: the request and all that comes after it,
\* or what comes after the chunk taken last.
Queue ==
    /\ front.pc = "negotiate" => Len(front.input) = front.sent + 1 /\ CountsFrom(front.input, -1)
    /\ front.pc # "negotiate" /\ (front.pc = "done" => front.replies # <<>>) =>
          front.hand + Len(front.input) = front.sent /\ CountsFrom(front.input, front.hand)

\* The chunk taken last is the one that is being written.
InHand == front.hand = IF pc["writer"] = "idle" THEN written ELSE written + 1

\* Before the two directions run, nobody uses the stream.
Untouched ==
    front.c2t = "none" =>
        pc["reader"] = "idle" /\ pc["writer"] = "idle" /\ heard = <<>> /\ written = 0

FrontInv ==
    /\ FrontType
    /\ HasFront => Answer /\ Queue /\ InHand /\ Untouched
    /\ ~HasFront => front = NoFront

\* A request that is not granted is refused in every protocol, and one that is, is granted.
LEMMA Codes ==
    ASSUME NEW p
    PROVE  /\ Says(p, Succeeded) = "granted"
           /\ \A code \in {1, 2, 4, 5, 6, 7, 8} : Says(p, code) = "refused"
           /\ \A e : reply_code(e) \in {1, 2, 4, 5, 6}
<1>1. Says(p, Succeeded) = "granted"
    BY DEF Says, send_reply, Succeeded
<1>2. ASSUME NEW code \in {1, 2, 4, 5, 6, 7, 8} PROVE Says(p, code) = "refused"
  <2>1. code \notin {0, 90, 200} /\ code # Succeeded
      BY DEF Succeeded
  <2>2. CASE p = "Socks4"
      BY <2>1, <2>2 DEF Says, send_reply
  <2>3. CASE p = "Http"
    <3>1. (CASE code = Succeeded -> 200 [] code = 2 -> 403 [] code = 4 -> 404
             [] code = 6 -> 504 [] OTHER -> 502) \in {403, 404, 504, 502}
        BY <2>1
    <3> QED
        BY <2>3, <3>1 DEF Says, send_reply
  <2>4. CASE p # "Socks4" /\ p # "Http"
      BY <2>1, <2>4 DEF Says, send_reply
  <2> QED
      BY <2>2, <2>3, <2>4
<1>3. ASSUME NEW e PROVE reply_code(e) \in {1, 2, 4, 5, 6}
    BY DEF reply_code
<1> QED
    BY <1>1, <1>2, <1>3

\* The front end begins with the request alone in its input, or there is none.
LEMMA FrontInitially == ProxyInit => FrontInv
<1> SUFFICES ASSUME ProxyInit PROVE FrontInv
    OBVIOUS
<1>0. /\ <<>> \in Seq(Nat) /\ <<>> \in Seq({"granted", "refused", "page"}) /\ <<0>> \in Seq(Nat)
      /\ Len(<<0>>) = 1 /\ <<0>>[1] = 0
    OBVIOUS
<1>1. CASE front = NoFront
    BY <1>0, <1>1 DEF FrontInv, FrontType, HasFront, NoFront
<1>2. CASE \E p \in Protocols, r \in Requests :
             front = [NoFront EXCEPT !.pc = "negotiate", !.protocol = p, !.asked = r, !.input = <<0>>]
  <2>1. PICK p \in Protocols, r \in Requests :
             front = [NoFront EXCEPT !.pc = "negotiate", !.protocol = p, !.asked = r, !.input = <<0>>]
      BY <1>2
  <2>2. FrontType
      BY <1>0, <2>1 DEF FrontType, NoFront, Before
  <2>3. /\ front.pc = "negotiate" /\ front.input = <<0>> /\ front.sent = 0 /\ front.hand = 0
        /\ front.replies = <<>> /\ front.c2t = "none"
      BY <2>1 DEF NoFront
  <2>4. Answer /\ InHand /\ Untouched
      BY <2>3 DEF Answer, InHand, Untouched, ProxyInit, Init, Threads, Before, During
  <2>5. Queue
      BY <1>0, <2>3 DEF Queue, CountsFrom
  <2> QED
      BY <2>2, <2>3, <2>4, <2>5 DEF FrontInv, HasFront
<1> QED
    BY <1>1, <1>2 DEF ProxyInit

\* At most one reply.
LEMMA Short == ASSUME NEW s, s = <<>> \/ s = <<"granted">> PROVE Len(s) <= 1
<1>1. CASE s = <<>>
    BY <1>1
<1>2. CASE s = <<"granted">>
    BY <1>2
<1> QED
    BY <1>1, <1>2

\* A step of the front end alone.
LEMMA FrontAlone ==
    ASSUME FrontInv, HasFront, UNCHANGED vars, FrontType', Answer', Queue',
           front'.hand = front.hand, front'.pc # "none", front'.c2t = "none" => front.c2t = "none"
    PROVE  FrontInv'
<1>1. pc' = pc /\ written' = written /\ heard' = heard
    BY DEF vars, caller
<1>2. InHand' /\ Untouched'
    BY <1>1 DEF FrontInv, InHand, Untouched
<1> QED
    BY <1>2 DEF FrontInv, HasFront

\* A step of the connection alone: what the front end asks of it is pc, written and heard.
LEMMA StreamAlone ==
    ASSUME FrontInv, UNCHANGED front, HasFront => InHand' /\ Untouched'
    PROVE  FrontInv'
<1>1. FrontType'
    BY DEF FrontInv, FrontType
<1>2. HasFront => Answer' /\ Queue'
    BY DEF FrontInv, Answer, Queue, CountsFrom
<1> QED
    BY <1>1, <1>2 DEF FrontInv, HasFront

\* Nothing is read and nothing answered where only the place changes.
LEMMA PlaceAlone ==
    ASSUME FrontInv, UNCHANGED vars, front' = [front EXCEPT !.pc = front'.pc],
           \/ front.pc \in Before \ {"negotiate"} /\ front'.pc \in Before \ {"negotiate"}
           \/ front.pc \in During /\ front'.pc \in During
    PROVE  FrontInv'
<1> DEFINE w == front'.pc
<1>0. HasFront /\ FrontType /\ Answer /\ Queue
    BY DEF FrontInv, HasFront, Before, During
<1>1. /\ front'.pc = w /\ front'.input = front.input /\ front'.sent = front.sent
      /\ front'.replies = front.replies /\ front'.c2t = front.c2t /\ front'.hand = front.hand
      /\ FrontType'
    BY <1>0 DEF FrontType
<1>2. Answer'
    BY <1>0, <1>1 DEF Answer, Before, During
<1>3. Queue'
    BY <1>0, <1>1 DEF Queue, CountsFrom, Before, During
<1> QED
    BY <1>0, <1>1, <1>2, <1>3, FrontAlone DEF Before, During

\* A chunk the client sends before it is answered waits behind the others.
LEMMA SendsStep == ASSUME FrontInv, ClientSends PROVE FrontInv'
<1>0. HasFront /\ FrontType /\ Answer /\ Queue /\ UNCHANGED vars
    BY DEF FrontInv, ClientSends, OnlyFront
<1>1. front.input \in Seq(Nat) /\ front.sent \in Nat /\ front.hand \in Nat /\ front.sent + 1 \in Nat
    BY <1>0 DEF FrontType
<1>2. /\ Append(front.input, front.sent + 1) \in Seq(Nat)
      /\ Len(Append(front.input, front.sent + 1)) = Len(front.input) + 1 /\ Len(front.input) \in Nat
      /\ \A i \in 1..Len(front.input) : Append(front.input, front.sent + 1)[i] = front.input[i]
      /\ Append(front.input, front.sent + 1)[Len(front.input) + 1] = front.sent + 1
    BY <1>1, Appended
<1>3. /\ front'.pc = front.pc /\ front'.input = Append(front.input, front.sent + 1)
      /\ front'.sent = front.sent + 1 /\ front'.replies = front.replies
      /\ front'.c2t = front.c2t /\ front'.hand = front.hand /\ FrontType'
    BY <1>0, <1>1, <1>2 DEF FrontType, ClientSends
<1>4. front.pc \in Before /\ front.pc # "done"
    BY <1>0 DEF FrontType, ClientSends, HasFront, Before, During
<1>5. Answer'
    BY <1>0, <1>3 DEF Answer
<1>6. Queue'
  <2>1. \A i \in 1..Len(front'.input) : i \in 1..Len(front.input) \/ i = Len(front.input) + 1
      BY <1>2, <1>3
  <2>2. CASE front.pc = "negotiate"
    <3>1. Len(front.input) = front.sent + 1 /\ CountsFrom(front.input, -1)
        BY <1>0, <2>2 DEF Queue
    <3>2. Len(front'.input) = front'.sent + 1
        BY <1>2, <1>3, <3>1
    <3>3. \A i \in 1..Len(front'.input) : front'.input[i] = -1 + i
        BY <1>1, <1>2, <1>3, <2>1, <3>1 DEF CountsFrom
    <3> QED
        BY <1>3, <2>2, <3>2, <3>3 DEF Queue, CountsFrom
  <2>3. CASE front.pc # "negotiate"
    <3>1. front.hand + Len(front.input) = front.sent /\ CountsFrom(front.input, front.hand)
        BY <1>0, <1>4, <2>3 DEF Queue
    <3>2. front'.hand + Len(front'.input) = front'.sent
        BY <1>1, <1>2, <1>3, <3>1
    <3>a. front.sent + 1 = front.hand + (Len(front.input) + 1)
        BY <1>1, <1>2, <3>1
    <3>b. \A i \in 1..Len(front.input) : front'.input[i] = front.hand + i
        BY <1>2, <1>3, <3>1 DEF CountsFrom
    <3>c. front'.input[Len(front.input) + 1] = front.hand + (Len(front.input) + 1)
        BY <1>2, <1>3, <3>a
    <3>3. \A i \in 1..Len(front'.input) : front'.input[i] = front'.hand + i
        BY <1>3, <2>1, <3>b, <3>c
    <3> QED
        BY <1>3, <2>3, <3>2, <3>3 DEF Queue, CountsFrom
  <2> QED
      BY <2>2, <2>3
<1> QED
    BY <1>0, <1>3, <1>5, <1>6, FrontAlone DEF HasFront

\* The end of a connection: a refusal, the status page or nothing is what it was answered.
LEMMA DoneStep ==
    ASSUME FrontInv, UNCHANGED vars, front.pc \in Before, FrontType', front'.pc = "done",
           front'.replies = <<>> \/ front'.replies = <<"refused">> \/ front'.replies = <<"page">>,
           front'.c2t = front.c2t, front'.hand = front.hand, front'.sent = front.sent,
           front'.replies = <<>> \/ ( /\ front'.hand + Len(front'.input) = front'.sent
                                     /\ CountsFrom(front'.input, front'.hand) )
    PROVE  FrontInv'
<1>0. HasFront /\ Answer /\ front.c2t = "none"
    BY DEF FrontInv, HasFront, Answer, Before
<1>1. Len(<<>>) = 0 /\ Len(<<"refused">>) = 1 /\ Len(<<"page">>) = 1 /\ Len(<<"granted">>) = 1
    OBVIOUS
<1>2. <<>> # <<"granted">> /\ <<"refused">> # <<"granted">> /\ <<"page">> # <<"granted">>
    OBVIOUS
<1>a. front'.replies # <<"granted">>
    BY <1>2
<1>b. Len(front'.replies) = 0 \/ Len(front'.replies) = 1
    BY <1>1
<1> DEFINE n == Len(front'.replies)
<1>c. n = 0 \/ n = 1
    BY <1>b
<1> HIDE DEF n
<1>d. n <= 1
    BY ONLY <1>c
<1>3. front'.replies # <<"granted">> /\ Len(front'.replies) <= 1
    BY ONLY <1>a, <1>d DEF n
<1>4. Answer'
    BY <1>0, <1>3 DEF Answer, Before, During
<1>5. Queue'
    BY DEF Queue
<1> QED
    BY <1>0, <1>4, <1>5, FrontAlone

\* negotiate takes the request and nothing after it.
LEMMA NegotiateStep == ASSUME FrontInv, Negotiate PROVE FrontInv'
<1> DEFINE input == front.input
           read == [front EXCEPT !.input = Taken(@)]
<1>0. HasFront /\ FrontType /\ Answer /\ Queue /\ InHand /\ Untouched /\ UNCHANGED vars
    BY DEF FrontInv, Negotiate, OnlyFront, HasFront
<1>1. /\ front.pc = "negotiate" /\ front.pc \in Before /\ front.replies = <<>> /\ front.c2t = "none"
      /\ front.hand = 0
    BY <1>0 DEF Negotiate, Answer, InHand, Untouched, Before
<1>2. input \in Seq(Nat) /\ front.sent \in Nat /\ Len(input) = front.sent + 1 /\ CountsFrom(input, -1)
    BY <1>0, <1>1 DEF Queue, FrontType
<1>3. input # <<>>
    BY <1>2
<1>4. /\ Tail(input) \in Seq(Nat) /\ Len(Tail(input)) = Len(input) - 1
      /\ \A i \in 1..Len(Tail(input)) : Tail(input)[i] = input[i + 1] /\ i + 1 \in 1..Len(input)
    BY <1>2, <1>3, HeadAndRest
<1>5. 0 + Len(Tail(input)) = front.sent /\ CountsFrom(Tail(input), 0)
  <2>1. Len(Tail(input)) = front.sent
      BY <1>2, <1>4
  <2>2. \A i \in 1..Len(Tail(input)) : Tail(input)[i] = -1 + (i + 1)
      BY <1>2, <1>4 DEF CountsFrom
  <2>3. \A i \in 1..front.sent : -1 + (i + 1) = 0 + i
      BY <1>2
  <2> QED
      BY <1>2, <2>1, <2>2, <2>3 DEF CountsFrom
<1>6. /\ read.input = Tail(input) /\ read.hand = 0 /\ read.sent = front.sent /\ read.replies = <<>>
      /\ read.c2t = "none"
      /\ read \in [pc : Before \cup During \cup {"none", "done"}, protocol : Protocols \cup {"none"},
                   asked : Requests \cup {"none"}, input : Seq(Nat), sent : Nat, shut : BOOLEAN,
                   replies : Seq({"granted", "refused", "page"}), c2t : {"none", "runs", "ended"},
                   hand : Nat, closed : BOOLEAN]
    BY <1>0, <1>1, <1>4 DEF FrontType, Taken
<1> HIDE DEF read
<1>7. CASE front' = [read EXCEPT !.pc = "wait"]
  <2>1. /\ front'.pc = "wait" /\ front'.input = Tail(input) /\ front'.hand = 0
        /\ front'.sent = front.sent /\ front'.replies = <<>> /\ front'.c2t = "none" /\ FrontType'
      BY <1>6, <1>7 DEF FrontType, Before
  <2>2. Answer'
      BY <2>1 DEF Answer, Before, During
  <2>3. Queue'
      BY <1>5, <2>1 DEF Queue
  <2> QED
      BY <1>0, <1>1, <2>1, <2>2, <2>3, FrontAlone
<1>8. ASSUME NEW what \in {"refused", "page"}, front' = [read EXCEPT !.pc = "done", !.replies = <<what>>]
      PROVE  FrontInv'
  <2>0. <<what>> \in Seq({"granted", "refused", "page"})
      BY <1>8
  <2>1. /\ front'.pc = "done" /\ front'.input = Tail(input) /\ front'.hand = 0
        /\ front'.sent = front.sent /\ front'.replies = <<what>> /\ front'.c2t = "none" /\ FrontType'
      BY <1>6, <1>8, <2>0 DEF FrontType
  <2>2. front'.replies = <<"refused">> \/ front'.replies = <<"page">>
      BY <1>8, <2>1
  <2> QED
      BY <1>0, <1>1, <1>5, <2>1, <2>2, DoneStep
<1>9. CASE front' = [front EXCEPT !.pc = "done"]
  <2>1. /\ front'.pc = "done" /\ front'.hand = front.hand
        /\ front'.sent = front.sent /\ front'.replies = <<>> /\ front'.c2t = front.c2t /\ FrontType'
      BY <1>0, <1>1, <1>9 DEF FrontType
  <2> QED
      BY <1>0, <1>1, <2>1, DoneStep
<1>10. \A code \in {1, 7, 8} : Says(front.protocol, code) = "refused"
    BY Codes
<1> QED
    BY <1>7, <1>8, <1>9, <1>10 DEF Negotiate, read

\* The steps from the request to the stream change only where the front end is.
LEMMA StageSteps ==
    ASSUME FrontInv, WaitForClient \/ set_ready \/ BootstrapFails \/ Connects
    PROVE  FrontInv'
<1>0. FrontType
    BY DEF FrontInv
<1>1. CASE WaitForClient
  <2>1. UNCHANGED vars /\ front.pc = "wait" /\ front'.pc \in {"connect", "asleep"}
        /\ front' = [front EXCEPT !.pc = front'.pc]
      BY <1>0, <1>1 DEF WaitForClient, Stage, OnlyFront, FrontType
  <2> QED
      BY <2>1, PlaceAlone DEF Before
<1>2. CASE set_ready
  <2>1. CASE front.pc = "asleep"
    <3>1. UNCHANGED vars /\ front'.pc = "wait" /\ front' = [front EXCEPT !.pc = front'.pc]
        BY <1>0, <1>2, <2>1 DEF set_ready, FrontType
    <3> QED
        BY <2>1, <3>1, PlaceAlone DEF Before
  <2>2. CASE front.pc # "asleep"
    <3>1. front' = front /\ pc' = pc /\ written' = written /\ heard' = heard
        BY <1>2, <2>2 DEF set_ready, vars, caller
    <3>2. HasFront => InHand' /\ Untouched'
        BY <3>1 DEF FrontInv, InHand, Untouched
    <3> QED
        BY <3>1, <3>2, StreamAlone
  <2> QED
      BY <2>1, <2>2
<1>3. CASE BootstrapFails
  <2>1. UNCHANGED vars /\ front.pc \in {"wait", "asleep"} /\ front'.pc = "exited"
        /\ front' = [front EXCEPT !.pc = front'.pc]
      BY <1>0, <1>3 DEF BootstrapFails, OnlyFront, FrontType
  <2> QED
      BY <2>1, PlaceAlone DEF Before
<1>4. CASE Connects
  <2>1. UNCHANGED vars /\ front.pc = "connect" /\ front'.pc = "reply"
        /\ front' = [front EXCEPT !.pc = front'.pc]
      BY <1>0, <1>4 DEF Connects, Stage, OnlyFront, FrontType
  <2> QED
      BY <2>1, PlaceAlone DEF Before
<1> QED
    BY <1>1, <1>2, <1>3, <1>4

\* connect's error is the one reply.
LEMMA ConnectFailsStep == ASSUME FrontInv, ConnectFails PROVE FrontInv'
<1>0. HasFront /\ FrontType /\ Answer /\ Queue /\ UNCHANGED vars
    BY DEF FrontInv, ConnectFails, OnlyFront, HasFront
<1>1. /\ front.pc = "connect" /\ front.pc \in Before /\ front.replies = <<>> /\ front.c2t = "none"
      /\ front.hand + Len(front.input) = front.sent /\ CountsFrom(front.input, front.hand)
    BY <1>0 DEF ConnectFails, Answer, Before, Queue
<1>2. PICK e : front' = [front EXCEPT !.pc = "done",
                                      !.replies = Append(@, Says(front.protocol, reply_code(e)))]
    BY DEF ConnectFails
<1>3. Says(front.protocol, reply_code(e)) = "refused"
    BY Codes
<1>4. Append(<<>>, "refused") = <<"refused">> /\ <<"refused">> \in Seq({"granted", "refused", "page"})
    OBVIOUS
<1>5. /\ front'.pc = "done" /\ front'.replies = <<"refused">> /\ front'.c2t = front.c2t
      /\ front'.hand = front.hand /\ front'.sent = front.sent /\ front'.input = front.input
      /\ FrontType'
    BY <1>0, <1>1, <1>2, <1>3, <1>4 DEF FrontType
<1> QED
    BY <1>0, <1>1, <1>5, DoneStep

\* The reply is sent and the two directions start, or the stream is to be closed.
LEMMA RepliesStep == ASSUME FrontInv, Replies PROVE FrontInv'
<1>0. HasFront /\ FrontType /\ Answer /\ Queue /\ UNCHANGED vars
    BY DEF FrontInv, Replies, OnlyFront, HasFront
<1>1. /\ front.pc = "reply" /\ front.replies = <<>>
      /\ front.hand + Len(front.input) = front.sent /\ CountsFrom(front.input, front.hand)
    BY <1>0 DEF Replies, Answer, Before, Queue
<1>2. CASE front' = [front EXCEPT !.pc = "close"]
  <2>1. front'.pc = "close" /\ front' = [front EXCEPT !.pc = front'.pc]
      BY <1>0, <1>2 DEF FrontType
  <2> QED
      BY <1>0, <1>1, <2>1, PlaceAlone DEF Before
<1>3. CASE front' = [front EXCEPT !.pc = "tunnel", !.c2t = "runs", !.protocol = "none", !.asked = "none",
                                  !.replies = Append(@, Says(front.protocol, Succeeded))]
  <2>1. Append(<<>>, "granted") = <<"granted">> /\ <<"granted">> \in Seq({"granted", "refused", "page"})
      OBVIOUS
  <2>2. Says(front.protocol, Succeeded) = "granted"
      BY Codes
  <2>3. /\ front'.pc = "tunnel" /\ front'.replies = <<"granted">> /\ front'.c2t = "runs"
        /\ front'.hand = front.hand /\ front'.sent = front.sent /\ front'.input = front.input
        /\ FrontType'
      BY <1>0, <1>1, <1>3, <2>1, <2>2 DEF FrontType, During
  <2>4. Answer'
      BY <2>3 DEF Answer, Before, During
  <2>5. Queue'
      BY <1>1, <2>3 DEF Queue
  <2> QED
      BY <1>0, <2>3, <2>4, <2>5, FrontAlone
<1> QED
    BY <1>2, <1>3 DEF Replies

\* c2t takes the next chunk, and has the one before it written.
LEMMA C2TReadsStep == ASSUME Inv, FrontInv, C2TReads PROVE FrontInv'
<1> DEFINE input == front.input
<1>0. HasFront /\ FrontType /\ Answer /\ Queue /\ InHand /\ front.c2t = "runs"
    BY DEF FrontInv, C2TReads, NoFront
<1>1. /\ input \in Seq(Nat) /\ front.sent \in Nat /\ front.hand \in Nat /\ Len(input) \in Nat
      /\ front.sent + 1 \in Nat
    BY <1>0, LenProperties DEF FrontType
<1>2. /\ pc["writer"] = "idle" /\ pc'["writer"] = "send" /\ written' = written
      /\ front.hand = written
    BY <1>0 DEF C2TReads, Write, WriterCloned, Goto, Inv, TypeOK, Threads, caller, InHand
<1>3. front.pc # "negotiate" /\ (front.pc = "done" => front.replies # <<>>)
    BY <1>0 DEF Answer, Before, FrontType
<1>4. front.hand + Len(input) = front.sent /\ CountsFrom(input, front.hand)
    BY <1>0, <1>3 DEF Queue
<1>5. /\ front'.pc = front.pc /\ front'.replies = front.replies /\ front'.c2t = front.c2t
      /\ front'.hand = front.hand + 1 /\ FrontType'
      /\ front'.hand + Len(front'.input) = front'.sent /\ CountsFrom(front'.input, front'.hand)
  <2>1. CASE Len(input) > 0
    <3>0. input # <<>>
        BY <2>1
    <3>1. /\ Head(input) \in Nat /\ Head(input) = input[1] /\ Tail(input) \in Seq(Nat)
          /\ Len(Tail(input)) = Len(input) - 1 /\ Len(input) >= 1
          /\ \A i \in 1..Len(Tail(input)) : Tail(input)[i] = input[i + 1] /\ i + 1 \in 1..Len(input)
        BY <1>1, <3>0, HeadAndRest
    <3>2. front' = [front EXCEPT !.hand = Head(input), !.input = Tail(input)]
        BY <2>1 DEF C2TReads
    <3>3. Head(input) = front.hand + 1
        BY <1>1, <1>4, <3>1 DEF CountsFrom
    <3>4. /\ front'.pc = front.pc /\ front'.replies = front.replies /\ front'.c2t = front.c2t
          /\ front'.hand = front.hand + 1 /\ front'.input = Tail(input) /\ front'.sent = front.sent
          /\ FrontType'
        BY <1>0, <3>1, <3>2, <3>3 DEF FrontType
    <3>5. (front.hand + 1) + Len(Tail(input)) = front.sent
      <4> DEFINE a == Len(Tail(input))
                 b == Len(input)
                 h == front.hand
                 n == front.sent
      <4>1. a = b - 1 /\ b \in Nat /\ h \in Nat /\ n \in Nat /\ h + b = n
          BY <1>1, <1>4, <3>1
      <4> HIDE DEF a, b, h, n
      <4>2. (h + 1) + a = n
          BY ONLY <4>1
      <4> QED
          BY <4>2 DEF a, h, n
    <3>6. ASSUME NEW i \in 1..Len(Tail(input)) PROVE Tail(input)[i] = (front.hand + 1) + i
      <4>1. Tail(input)[i] = front.hand + (i + 1)
          BY <1>4, <3>1 DEF CountsFrom
      <4>2. i \in Nat
          BY <1>1, <3>1
      <4>3. \A h \in Nat, j \in Nat : h + (j + 1) = (h + 1) + j
          OBVIOUS
      <4> QED
          BY <1>1, <4>1, <4>2, <4>3
    <3> QED
        BY <3>4, <3>5, <3>6 DEF CountsFrom
  <2>2. CASE ~(Len(input) > 0)
    <3>1. front.hand = front.sent
        BY <1>1, <1>4, <2>2
    <3>2. /\ Head(<<front.sent + 1>>) = front.sent + 1 /\ Tail(<<front.sent + 1>>) = <<>>
          /\ <<>> \in Seq(Nat) /\ Len(<<>>) = 0
        OBVIOUS
    <3> DEFINE next == [front EXCEPT !.input = <<front.sent + 1>>, !.sent = front.sent + 1]
    <3>a. front' = [next EXCEPT !.hand = Head(next.input), !.input = Tail(next.input)]
        BY <2>2 DEF C2TReads
    <3>b. next.input = <<front.sent + 1>> /\ DOMAIN next = DOMAIN front
        BY <1>0 DEF FrontType
    <3>3. front' = [next EXCEPT !.hand = front.sent + 1, !.input = <<>>]
        BY <3>2, <3>a, <3>b
    <3>4. /\ front'.pc = front.pc /\ front'.replies = front.replies /\ front'.c2t = front.c2t
          /\ front'.hand = front.hand + 1 /\ front'.input = <<>> /\ front'.sent = front.sent + 1
          /\ FrontType'
        BY <1>0, <1>1, <3>1, <3>2, <3>3 DEF FrontType
    <3> QED
        BY <1>1, <3>1, <3>2, <3>4 DEF CountsFrom
  <2> QED
      BY <2>1, <2>2
<1>6. Answer'
    BY <1>0, <1>5 DEF Answer
<1>7. Queue'
    BY <1>3, <1>5 DEF Queue
<1>8. InHand' /\ Untouched'
    BY <1>0, <1>2, <1>5 DEF InHand, Untouched
<1> QED
    BY <1>0, <1>5, <1>6, <1>7, <1>8 DEF FrontInv, HasFront

\* c2t ends: it ran, so the answer was given.
LEMMA C2TEndsStep == ASSUME FrontInv, C2TEnds \/ C2TEof PROVE FrontInv'
<1>0. /\ HasFront /\ FrontType /\ Answer /\ Queue /\ front.c2t = "runs" /\ UNCHANGED vars
      /\ front' = [front EXCEPT !.c2t = "ended"]
    BY DEF FrontInv, C2TEnds, C2TEof, NoFront, OnlyFront
<1>1. /\ front'.pc = front.pc /\ front'.replies = front.replies /\ front'.c2t = "ended"
      /\ front'.hand = front.hand /\ front'.input = front.input /\ front'.sent = front.sent
      /\ FrontType'
    BY <1>0 DEF FrontType
<1>2. Answer'
    BY <1>0, <1>1 DEF Answer
<1>3. Queue'
    BY <1>0, <1>1 DEF Queue
<1> QED
    BY <1>0, <1>1, <1>2, <1>3, FrontAlone DEF HasFront

\* The tunnel ends in order: over, join, done.
LEMMA EndSteps == ASSUME FrontInv, T2CFails \/ Shutdown \/ Close PROVE FrontInv'
<1>0. FrontType /\ UNCHANGED vars
    BY DEF FrontInv, T2CFails, Shutdown, Close, OnlyFront
<1>2. CASE T2CFails \/ Shutdown
  <2>0. HasFront /\ Answer /\ Queue
      BY <1>2 DEF FrontInv, HasFront, T2CFails, Shutdown
  <2>1. /\ front.pc \in {"tunnel", "over"} /\ front'.pc = "join" /\ front'.replies = front.replies
        /\ front'.c2t = front.c2t /\ front'.hand = front.hand /\ front'.input = front.input
        /\ front'.sent = front.sent /\ FrontType'
      BY <1>0, <1>2 DEF FrontType, T2CFails, Shutdown, During
  <2>2. Answer' /\ Queue'
      BY <2>0, <2>1 DEF Answer, Queue, Before, During
  <2> QED
      BY <1>0, <2>0, <2>1, <2>2, FrontAlone
<1>3. CASE Close
  <2>0. HasFront /\ Answer /\ Queue
      BY <1>3 DEF FrontInv, HasFront, Close
  <2>1. /\ front.pc \in {"close", "join"} /\ front'.pc = "done" /\ front'.replies = front.replies
        /\ front'.c2t = front.c2t /\ front'.hand = front.hand /\ front'.input = front.input
        /\ front'.sent = front.sent /\ FrontType'
      BY <1>0, <1>3 DEF FrontType, Close
  <2>2. <<>> # <<"granted">>
      OBVIOUS
  <2>a. \/ front.replies = <<>> /\ front.c2t = "none"
        \/ front.replies = <<"granted">> /\ front.c2t # "none"
      BY <2>0, <2>1 DEF Answer, Before, During
  <2>b. Len(front.replies) <= 1
      BY <2>a, Short
  <2>3. Answer'
      BY <2>1, <2>2, <2>a, <2>b DEF Answer, Before, During
  <2>4. Queue'
      BY <2>0, <2>1 DEF Queue
  <2> QED
      BY <1>0, <2>0, <2>1, <2>3, <2>4, FrontAlone
<1> QED
    BY <1>2, <1>3

\* A thread in reattach stays in its call.
LEMMA Reattaching ==
    ASSUME Inv, NEW t \in Threads, Reattach(t)
    PROVE  /\ pc[t] # "idle" /\ pc'[t] # "idle" /\ written' = written /\ heard' = heard
           /\ \A u \in Threads : u # t => pc'[u] = pc[u]
<1>0. pc \in [Threads -> Places]
    BY DEF Inv, TypeOK
<1>1. /\ pc[t] # "idle" /\ written' = written /\ heard' = heard
      /\ pc' = pc \/ \E w \in {"count", "error", "open", "replay", "clone"} : pc' = [pc EXCEPT ![t] = w]
    BY DEF Reattach, MayRetry, GiveUp, Count, Open, OpenFails, Replay, ReplayFails, Again,
           Goto, caller
<1> QED
    BY <1>0, <1>1

\* write returns once its chunk is recorded, and is nobody's business but the writer's.
LEMMA Writing ==
    ASSUME Inv, Writes
    PROVE  /\ pc["writer"] # "idle" /\ pc'["reader"] = pc["reader"] /\ heard' = heard
           /\ written' = IF pc'["writer"] = "idle" THEN written + 1 ELSE written
<1>0. pc \in [Threads -> Places] /\ "writer" \in Threads /\ "reader" \in Threads
    BY DEF Inv, TypeOK, Threads
<1>1. CASE WriterClones
    BY <1>0, <1>1 DEF WriterClones, WriterCloned, Goto, caller
<1>2. CASE WriterSends
    BY <1>0, <1>2 DEF WriterSends, Goto, caller
<1>3. CASE WriterFails
    BY <1>0, <1>3 DEF WriterFails, Goto, caller
<1>4. CASE WriterRecords
    BY <1>0, <1>4 DEF WriterRecords, Goto
<1>5. CASE Reattach("writer")
    BY <1>0, <1>5, Reattaching
<1> QED
    BY <1>1, <1>2, <1>3, <1>4, <1>5 DEF Writes

\* A read leaves the writer alone.
LEMMA Reading ==
    ASSUME Inv, Reads
    PROVE  pc["reader"] # "idle" /\ pc'["writer"] = pc["writer"] /\ written' = written
<1>0. pc \in [Threads -> Places] /\ "writer" \in Threads /\ "reader" \in Threads
    BY DEF Inv, TypeOK, Threads
<1>1. CASE ReaderClones
    BY <1>0, <1>1 DEF ReaderClones, ReaderCloned, Goto, caller
<1>2. CASE ReaderReads
    BY <1>0, <1>2 DEF ReaderReads, Goto, caller
<1>3. CASE ReaderEstablishes
    BY <1>0, <1>3 DEF ReaderEstablishes, Goto, caller
<1>4. CASE ReaderFails
    BY <1>0, <1>4 DEF ReaderFails, Goto, caller
<1>5. CASE Reattach("reader")
    BY <1>0, <1>5, Reattaching
<1> QED
    BY <1>1, <1>2, <1>3, <1>4, <1>5 DEF Reads

\* The steps of the connection: the chunk in hand is the one being written, and before
\* the answer there are none.
LEMMA StreamStep ==
    ASSUME Inv, FrontInv,
           \/ StreamSteps(Writes) \/ StreamSteps(Reads)
           \/ ~HasFront /\ StreamSteps(Write \/ Read \/ ReaderEof)
           \/ \E k \in Held : StreamSteps(Far(k))
    PROVE  FrontInv'
<1>0. UNCHANGED front
    BY DEF StreamSteps
<1> SUFFICES ASSUME HasFront PROVE InHand' /\ Untouched'
    BY <1>0, StreamAlone
<1>1. InHand /\ Untouched
    BY DEF FrontInv
<1>2. CASE Writes
    BY <1>0, <1>1, <1>2, Writing DEF InHand, Untouched
<1>3. CASE Reads
    BY <1>0, <1>1, <1>3, Reading DEF InHand, Untouched
<1>4. CASE \E k \in Held : Far(k)
  <2>1. pc' = pc /\ written' = written /\ heard' = heard
      BY <1>4 DEF Far, FarConnected, FarData, FarFails, caller
  <2> QED
      BY <1>0, <1>1, <2>1 DEF InHand, Untouched
<1> QED
    BY <1>2, <1>3, <1>4 DEF StreamSteps

\* The thread that reads from Tor begins a read, or its read ends.
LEMMA T2CStep == ASSUME Inv, FrontInv, T2CReads \/ T2CEof PROVE FrontInv'
<1>0. /\ HasFront /\ FrontType /\ Answer /\ Queue /\ InHand /\ front.pc = "tunnel"
      /\ front.c2t # "none"
    BY DEF FrontInv, T2CReads, T2CEof, HasFront, Answer, During
<1>1. /\ pc'["writer"] = pc["writer"] /\ written' = written
      /\ front' = front \/ front' = [front EXCEPT !.pc = "over"]
    BY DEF T2CReads, T2CEof, Read, ReaderCloned, ReaderEof, Goto, caller, Inv, TypeOK, Threads
<1>2. /\ front'.pc \in {"tunnel", "over"} /\ front'.replies = front.replies
      /\ front'.c2t = front.c2t /\ front'.hand = front.hand /\ front'.input = front.input
      /\ front'.sent = front.sent /\ FrontType'
    BY <1>0, <1>1 DEF FrontType, During
<1>3. Answer' /\ Queue'
    BY <1>0, <1>2 DEF Answer, Queue, Before, During
<1>4. InHand' /\ Untouched'
    BY <1>0, <1>1, <1>2 DEF InHand, Untouched
<1> QED
    BY <1>2, <1>3, <1>4 DEF FrontInv, HasFront

\* Every step of the program preserves what is said of the front end.
LEMMA FrontStep == ASSUME Inv, FrontInv, [ProxyNext]_pvars PROVE FrontInv'
<1>1. CASE UNCHANGED pvars
  <2>1. front' = front /\ pc' = pc /\ written' = written /\ heard' = heard
      BY <1>1 DEF pvars, vars, caller
  <2>2. HasFront => InHand' /\ Untouched'
      BY <2>1 DEF FrontInv, InHand, Untouched
  <2> QED
      BY <2>1, <2>2, StreamAlone
<1>2. CASE Handle
    BY <1>2, NegotiateStep, StageSteps, ConnectFailsStep, RepliesStep, T2CStep, EndSteps DEF Handle
<1>3. CASE C2T
    BY <1>3, C2TReadsStep, C2TEndsStep DEF C2T
<1>4. CASE Client
    BY <1>4, SendsStep, C2TEndsStep DEF Client
<1>5. CASE set_ready \/ BootstrapFails
    BY <1>5, StageSteps
<1>6. CASE \/ StreamSteps(Writes) \/ StreamSteps(Reads)
           \/ ~HasFront /\ StreamSteps(Write \/ Read \/ ReaderEof)
           \/ Up /\ \E k \in Held : StreamSteps(Far(k))
    BY <1>6, StreamStep
<1> QED
    BY <1>1, <1>2, <1>3, <1>4, <1>5, <1>6 DEF ProxyNext

\* The front end's invariant holds in every state.
THEOREM FrontInvariant == ProxySpec => []FrontInv
<1>1. Inv /\ FrontInv /\ [ProxyNext]_pvars => FrontInv'
    BY FrontStep
<1> QED
    BY FrontInitially, <1>1, Invariant, Refinement, PTL DEF ProxySpec

\* One answer, granted only with a stream, and into the stream goes what the client
\* sent, from its first byte on with nothing left out, be it sent before the answer.
THEOREM SentVerbatim == ProxySpec => []Verbatim
<1>1. FrontInv => Verbatim
  <2> SUFFICES ASSUME FrontInv, HasFront PROVE Verbatim
      BY DEF Verbatim
  <2>0. FrontType /\ Answer /\ Queue /\ InHand /\ Untouched
      BY DEF FrontInv
  <2>1. <<>> # <<"granted">>
      OBVIOUS
  <2>2. front.pc \in Before \/ front.pc \in During \/ front.pc = "done"
      BY <2>0 DEF FrontType, HasFront
  <2>3. /\ Len(front.replies) <= 1
        /\ front.replies = <<"granted">> <=> front.c2t # "none"
    <3>1. CASE front.pc = "done"
        BY <2>0, <3>1 DEF Answer
    <3>2. CASE front.pc # "done"
      <4>1. \/ front.replies = <<>> /\ front.c2t = "none"
            \/ front.replies = <<"granted">> /\ front.c2t # "none"
          BY <2>0, <2>2, <3>2 DEF Answer
      <4>2. Len(front.replies) <= 1
          BY <4>1, Short
      <4> QED
          BY <2>1, <4>1, <4>2
    <3> QED
        BY <3>1, <3>2
  <2>4. front.hand \in {written, written + 1}
      BY <2>0 DEF InHand
  <2>5. front.pc # "negotiate" /\ front.replies # <<>> => front.sent = front.hand + Len(front.input)
      BY <2>0 DEF Queue
  <2>6. heard # <<>> => front.replies = <<"granted">>
      BY <2>0, <2>3 DEF Untouched
  <2> QED
      BY <2>3, <2>4, <2>5, <2>6 DEF Verbatim
<1> QED
    BY <1>1, FrontInvariant, PTL
=============================================================================
