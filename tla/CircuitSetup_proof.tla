------------------------- MODULE CircuitSetup_proof -------------------------
(* Proofs about modules Link, Path and CircuitSetup.                       *)
EXTENDS CircuitSetup, SequenceTheorems, TLAPS

(***************************************************************************)
(* The link handshake.                                                     *)
(***************************************************************************)

\* Whatever is in a CERTS cell, the identity that validate_responder finds is that of the
\* relay at the other end: only that relay signs for its TLS certificate, with a key that
\* only its own identity certifies.
LEMMA ResponderProven ==
    ASSUME NEW peer, NEW certs \in SUBSET Offerable(peer),
           validate_responder(certs, peer) # Nobody
    PROVE  validate_responder(certs, peer) = peer
<1> DEFINE of(kind) == {c \in certs : c.kind = kind}
           good == {p \in of(4) \X of(5) : /\ p[1].sound /\ ~p[1].late
                                           /\ p[2].sound /\ p[2].by = p[1].of /\ ~p[2].late
                                           /\ p[2].of = peer}
<1>1. good # {} /\ validate_responder(certs, peer) = (CHOOSE p \in good : TRUE)[1].by
  BY DEF validate_responder
<1>2. PICK p \in good : validate_responder(certs, peer) = p[1].by
  BY <1>1
<1>3. /\ p[1] \in Offerable(peer) /\ p[1].sound
      /\ p[2] \in Offerable(peer) /\ p[2].sound
      /\ p[2].by = p[1].of /\ p[2].of = peer
  BY <1>2
<1>4. ASSUME NEW c \in Offerable(peer), c.sound, c.of = peer PROVE c.by = peer
  BY <1>4 DEF Offerable, Cert
<1> QED
  BY <1>2, <1>3, <1>4

\* What a handshake has established at each point; the want and the peer never change.
LinkInv ==
    /\ link \in [pc : {"none", "versions", "cells", "up", "ended", "down"},
                 guard : Relays \cup {Nobody}, want : Relays \cup {Nobody},
                 peer : Relays \cup Impostors \cup {Nobody},
                 id : Relays \cup Impostors \cup {Nobody}, read : Nat]
    /\ link.id \in {Nobody, link.peer}
    /\ link.pc \in {"up", "ended"} =>
          link.id # Nobody /\ (link.want # Nobody => link.id = link.want)

\* The handshake's steps and the end of the link keep what is proven of it, and its guard.
LEMMA HandshakeHolds ==
    ASSUME LinkInv, Handshake \/ LinkEnds \/ (link.pc = "ended" /\ LinkGoto("down"))
    PROVE  LinkInv' /\ link'.guard = link.guard /\ link'.pc # "none"
<1> USE DEF LinkInv
<1>1. CASE Versions
  BY <1>1 DEF Versions, LinkGoto
<1>2. CASE Certs
  <2>1. PICK a, b, c \in Offerable(link.peer) :
          LET id == validate_responder({a, b, c}, link.peer) IN
          link' = IF id = Nobody THEN [link EXCEPT !.pc = "down"]
                  ELSE [link EXCEPT !.id = id, !.read = @ + 1]
    BY <1>2 DEF Certs
  <2> DEFINE id == validate_responder({a, b, c}, link.peer)
  <2>2. id = Nobody \/ id = link.peer
    BY ResponderProven
  <2> HIDE DEF id
  <2>3. \/ link' = [link EXCEPT !.pc = "down"]
        \/ link' = [link EXCEPT !.id = link.peer, !.read = link.read + 1]
    BY <2>1, <2>2 DEF id
  <2>4. link.pc = "cells" /\ link.read + 1 \in Nat
    BY <1>2 DEF Certs, Reads
  <2>5. CASE link' = [link EXCEPT !.pc = "down"]
    BY <2>4, <2>5
  <2>6. CASE link' = [link EXCEPT !.id = link.peer, !.read = link.read + 1]
    BY <2>4, <2>6
  <2> QED
    BY <2>3, <2>5, <2>6
<1>3. CASE Passed
  BY <1>3 DEF Passed, Reads
<1>4. CASE Netinfo
  BY <1>4 DEF Netinfo, Reads
<1>5. CASE HandshakeFails \/ LinkEnds \/ (link.pc = "ended" /\ LinkGoto("down"))
  BY <1>5 DEF HandshakeFails, LinkEnds, LinkGoto
<1> QED
  BY <1>1, <1>2, <1>3, <1>4, <1>5 DEF Handshake

-----------------------------------------------------------------------------
(***************************************************************************)
(* Types.                                                                  *)
(***************************************************************************)

Keys  == Relays \cup Impostors \cup Ends \cup {Nobody, None}
Reps  == [cell : {"reply"}, key : Keys, x : Nat, covers : Int, msg : Int]
Cells == Reps \cup {Destroy, Other}
Reqs  == [to : Keys, x : Nat, asks : BOOLEAN]
Cs    == [identities : SUBSET Keys, families : SUBSET Relays]
Circ  == [state : {"unused", "open", "closed"}, pump : {"runs", "ended"}, registered : BOOLEAN,
          path : Seq(Keys), way : {None, "exit", "fits", "named"}, hops : Seq(Keys \X Nat),
          slot : Reps \cup {NoReply}, rx : Seq(Cells), flow : Int, req : Reqs \cup {NoReq},
          far : Seq(Keys \X Nat \X Int), farflow : Int]

Builders ==
    [pc : {"idle", "take", "channel", "middle", "register", "send", "wait", "exit"},
     kind : {None, "stub", "to", "exit", "fast"}, last : Keys, cs : Cs,
     path : Seq(Keys), c : Circuits \cup {None}, stubbed : BOOLEAN]

Types ==
    /\ builder \in Builders
    /\ circ \in [Circuits -> Circ]
    /\ stub \in [c : Circuits \cup {None}, cs : Cs]
    /\ mds \subseteq Relays

\* The kinds of cells, and of requests, are told apart.
LEMMA Kinds ==
    /\ \A r \in Reps : r # NoReply /\ r \notin {Destroy, Other} /\ r.cell = "reply"
    /\ \A r \in Reqs : r # NoReq
    /\ NoReply \notin Cells
<1>1. \A r \in Reps : r.cell = "reply"
  BY DEF Reps
<1>2. NoReply.cell = "none" /\ Destroy.cell = "destroy" /\ Other.cell = "other"
  BY DEF NoReply, Destroy, Other, None
<1>3. ASSUME NEW r \in Reqs PROVE r # NoReq
  <2>1. "x" \in DOMAIN r
    BY DEF Reqs
  <2>2. "x" \notin DOMAIN NoReq
    BY DEF NoReq
  <2> QED
    BY <2>1, <2>2
<1> QED
  BY <1>1, <1>2, <1>3 DEF Cells

\* An honest reply covers its own message.
LEMMA ReplyType ==
    ASSUME NEW key \in Keys, NEW x \in Nat, NEW msg \in Int
    PROVE  /\ Reply(key, x, msg) \in Reps /\ Reply(key, x, msg).key = key
           /\ Reply(key, x, msg).x = x
           /\ Reply(key, x, msg).msg = msg /\ Reply(key, x, msg).covers = msg
BY DEF Reply, Reps

\* A circuit not in use has the type of a circuit.
LEMMA UnusedType == Unused \in Circ
BY DEF Unused, Circ, Windows, NoReply, NoReq, None

\* What the pump, the network and a close do to a circuit.
LEMMA CloseType ==
    ASSUME NEW k \in Circ
    PROVE  /\ close(k) \in Circ /\ close(k).state = "closed"
           /\ close(k).path = <<>> /\ close(k).hops = <<>> /\ close(k).far = <<>> /\ close(k).rx = <<>>
           /\ close(k).slot = NoReply /\ close(k).req = NoReq
           /\ close(k).flow = Windows /\ close(k).farflow = Windows
<1>1. close(k) = [Unused EXCEPT !.state = "closed", !.pump = k.pump]
  BY DEF close
<1>2. k.pump \in {"runs", "ended"}
  BY DEF Circ
<1> QED
  BY <1>1, <1>2, UnusedType DEF Circ, Unused

-----------------------------------------------------------------------------
(***************************************************************************)
(* The inductive invariant.                                                *)
(***************************************************************************)

\* The message of a hop's handshake settles a scheme at the far end; congestion control
\* is spoken of at the third hop of an exit circuit only.
Scheme(msg)   == IF msg \in {Declined, Malformed} THEN Windows ELSE msg
AsksAt(k, x)  == k.way = "exit" /\ x = 3 /\ CcAlg = 2 /\ k.path[3] \in Ed

\* Every reply about is the answer a relay gave in that handshake, or is by another key than
\* the path's, or was altered in a handshake whose authenticator shows it, or is no reply.
Genuine(k, cell) ==
    \/ /\ cell.x \in 1..Len(k.far) /\ cell.key = k.far[cell.x][1]
       /\ cell.covers = k.far[cell.x][3] /\ cell.msg = cell.covers
    \/ cell.x \in 1..Len(k.path) /\ cell.key # k.path[cell.x]
    \/ cell.x \in 1..Len(k.path) /\ AsksAt(k, cell.x) /\ cell.msg # cell.covers
    \/ cell.x = 0

\* The hops at this end are those at the other, of which there may be one more.
HopsOK(k) ==
    /\ Len(k.hops) <= Len(k.far) /\ Len(k.far) <= Len(k.hops) + 1 /\ Len(k.far) <= Len(k.path)
    /\ \A x \in 1..Len(k.far) : k.far[x][2] = x /\ (k.far[x][3] # Declined => AsksAt(k, x))
    /\ \A x \in 1..Len(k.hops) : k.hops[x] = <<k.far[x][1], x>> /\ k.far[x][1] = k.path[x]
    /\ k.farflow = IF Len(k.far) = 0 THEN Windows ELSE Scheme(k.far[Len(k.far)][3])
    /\ Len(k.far) = Len(k.hops) => k.flow = k.farflow

CellsOK(k) ==
    /\ \A i \in 1..Len(k.rx) : k.rx[i] \in Reps => Genuine(k, k.rx[i])
    /\ k.slot \in Reps => Genuine(k, k.slot)

ReqOK(k) ==
    k.req # NoReq =>
        /\ Len(k.far) = Len(k.hops) /\ Len(k.hops) < Len(k.path)
        /\ k.req.x = Len(k.hops) + 1 /\ k.req.to = k.path[k.req.x]
        /\ k.req.asks <=> AsksAt(k, k.req.x)

PathOK(p, w) ==
    /\ Len(p) >= 2 => Apart(p[1], p[2]) /\ ~Mutual(p[1], p[2])
    /\ Len(p) = 3 => /\ Apart(p[2], p[3])
                     /\ w \in {"exit", "fits"}  => Apart(p[1], p[3])
                     /\ w \in {"exit", "named"} => ~Mutual(p[2], p[3])
                     /\ w = "exit" => ~Mutual(p[1], p[3])

CircOK(k) == k \in Circ /\ HopsOK(k) /\ CellsOK(k) /\ ReqOK(k) /\ PathOK(k.path, k.way)

\* A circuit of two hops, and the constraints they make.
TwoHops(k, cs) ==
    Len(k.hops) = 2 /\ Len(k.path) = 2 /\ cs.identities = {k.path[1], k.path[2]}

Settled(k) == k.req = NoReq /\ Len(k.far) = Len(k.hops)

\* What the builder has in hand: only it has a request under way, and what it says of
\* the constraints is what is on the path.
HandOK ==
    /\ builder.pc \in {"send", "wait", "exit"} <=> builder.c # None
    /\ \A c \in Circuits : Settled(circ[c]) \/ (builder.c = c /\ builder.pc = "wait")
    /\ builder.pc \in {"send", "wait"} =>
          /\ Len(circ[builder.c].hops) < Len(circ[builder.c].path)
          /\ Len(circ[builder.c].path) = 2 => builder.cs.identities = {circ[builder.c].path[1]}
    /\ builder.pc = "exit" => TwoHops(circ[builder.c], builder.cs)
    /\ builder.pc = "middle" =>
          /\ link.pc # "none"
          /\ builder.cs.identities = {link.guard} \cup (IF builder.kind = "to" THEN {builder.last} ELSE {})
    /\ builder.pc = "register" =>
          /\ Len(builder.path) \in {1, 2, 3}
          /\ PathOK(builder.path, IF builder.kind = "to" THEN "named" ELSE None)
          /\ Len(builder.path) = 2 => builder.cs.identities = {builder.path[1]}
    /\ stub # NoStub => /\ stub.c \in Circuits /\ stub.c # builder.c
                        /\ TwoHops(circ[stub.c], stub.cs)

Inv == LinkInv /\ Types /\ (\A c \in Circuits : CircOK(circ[c])) /\ HandOK

-----------------------------------------------------------------------------
(***************************************************************************)
(* What each operation does to one circuit.                                *)
(***************************************************************************)

\* A circuit that differs in no more than its state, its pump and its cells.
Same(k, l) ==
    /\ l.path = k.path /\ l.way = k.way /\ l.hops = k.hops /\ l.far = k.far /\ l.req = k.req
    /\ l.flow = k.flow /\ l.farflow = k.farflow

\* Path, hops and far end unchanged: only the replies under way have to be looked at.
LEMMA SameHolds ==
    ASSUME NEW k, NEW l \in Circ, CircOK(k), Same(k, l),
           \A i \in 1..Len(l.rx) : l.rx[i] \in Reps => Genuine(k, l.rx[i]),
           l.slot \in Reps => Genuine(k, l.slot)
    PROVE  CircOK(l)
<1>1. \A cell : Genuine(l, cell) <=> Genuine(k, cell)
  BY DEF Same, Genuine, AsksAt
<1>2. CellsOK(l)
  BY <1>1 DEF CellsOK
<1>3. HopsOK(l)
  BY DEF CircOK, Same, HopsOK, AsksAt
<1>4. ReqOK(l)
  BY DEF CircOK, Same, ReqOK, AsksAt
<1>5. PathOK(l.path, l.way)
  BY DEF CircOK, Same
<1> QED
  BY <1>2, <1>3, <1>4, <1>5 DEF CircOK

\* A circuit with nothing in it satisfies what is asked of a circuit.
LEMMA EmptyHolds ==
    ASSUME NEW k \in Circ, k.path = <<>>, k.hops = <<>>, k.far = <<>>, k.rx = <<>>,
           k.slot = NoReply, k.req = NoReq, k.flow = Windows, k.farflow = Windows
    PROVE  CircOK(k) /\ Settled(k)
<1>1. HopsOK(k) /\ ReqOK(k) /\ PathOK(k.path, k.way) /\ Settled(k)
  BY DEF HopsOK, ReqOK, PathOK, Settled
<1>2. CellsOK(k)
  BY Kinds DEF CellsOK
<1> QED
  BY <1>1, <1>2 DEF CircOK

\* Circuit::close leaves nothing in the circuit.
LEMMA CloseHolds ==
    ASSUME NEW k \in Circ
    PROVE  close(k) \in Circ /\ CircOK(close(k)) /\ Settled(close(k))
BY CloseType, EmptyHolds

\* A circuit not in use satisfies what is asked of a circuit.
LEMMA UnusedHolds == CircOK(Unused) /\ Settled(Unused)
<1>1. /\ Unused.path = <<>> /\ Unused.hops = <<>> /\ Unused.far = <<>> /\ Unused.rx = <<>>
      /\ Unused.slot = NoReply /\ Unused.req = NoReq
      /\ Unused.flow = Windows /\ Unused.farflow = Windows
  BY DEF Unused
<1> QED
  BY <1>1, UnusedType, EmptyHolds

\* The end of the pump leaves path, hops and replies as they are.
LEMMA PumpEndedHolds ==
    ASSUME NEW k \in Circ, CircOK(k)
    PROVE  PumpEnded(k) \in Circ /\ CircOK(PumpEnded(k)) /\ Same(k, PumpEnded(k))
<1> DEFINE l == PumpEnded(k)
<1>1. l = [k EXCEPT !.state = "closed", !.registered = FALSE, !.pump = "ended", !.rx = <<>>]
  BY DEF PumpEnded
<1>2. l \in Circ /\ l.rx = <<>> /\ l.slot = k.slot
  <2>1. <<>> \in Seq(Cells)
    BY EmptySeq
  <2> QED
    BY <1>1, <2>1 DEF Circ
<1>5. Same(k, l)
  BY <1>1 DEF Circ, Same
<1> HIDE DEF l
<1>3. k.slot \in Reps => Genuine(k, k.slot)
  BY DEF CircOK, CellsOK
<1>4. CircOK(l)
  BY <1>2, <1>3, <1>5, SameHolds
<1> QED
  BY <1>2, <1>4, <1>5 DEF l

\* What the pump does with the next cell puts at most a reply under way into the slot.
LEMMA HandledHolds ==
    ASSUME NEW k \in Circ, CircOK(k), k.rx # <<>>
    PROVE  Handled(k) \in Circ /\ CircOK(Handled(k)) /\ Same(k, Handled(k))
<1> DEFINE cell == Head(k.rx)
           rest == [k EXCEPT !.rx = Tail(k.rx)]
<1>1. k.rx \in Seq(Cells)
  BY DEF Circ
<1>2. /\ cell \in Cells /\ cell = k.rx[1] /\ Tail(k.rx) \in Seq(Cells)
      /\ Len(k.rx) \in Nat /\ Len(k.rx) >= 1 /\ Len(Tail(k.rx)) = Len(k.rx) - 1
      /\ \A i \in 1..Len(Tail(k.rx)) : Tail(k.rx)[i] = k.rx[i + 1]
  BY <1>1, HeadTailProperties, EmptySeq
<1>3. /\ \A i \in 1..Len(k.rx) : k.rx[i] \in Reps => Genuine(k, k.rx[i])
      /\ k.slot \in Reps => Genuine(k, k.slot)
  BY DEF CircOK, CellsOK
<1>4. \A i \in 1..Len(Tail(k.rx)) : Tail(k.rx)[i] \in Reps => Genuine(k, Tail(k.rx)[i])
  BY <1>2, <1>3
<1>5. rest \in Circ /\ Same(k, rest) /\ rest.rx = Tail(k.rx) /\ rest.slot = k.slot
  BY <1>2 DEF Circ, Same
<1> HIDE DEF cell
<1>6. cell \in Reps => Genuine(k, cell)
  BY <1>2, <1>3
<1>7. Handled(k) = CASE k.state = "closed" \/ cell.cell = "destroy" -> PumpEnded(k)
                     [] k.state # "closed" /\ cell.cell = "reply"   -> [rest EXCEPT !.slot = cell]
                     [] k.state # "closed" /\ cell.cell = "other"   -> rest
  BY DEF Handled, cell
<1>8. \/ cell.cell = "destroy" \/ cell.cell = "other"
      \/ cell.cell = "reply" /\ cell \in Reps
  BY <1>2, Kinds DEF Cells, Destroy, Other
<1> HIDE DEF rest
<1>9. CASE Handled(k) = PumpEnded(k)
  BY <1>9, PumpEndedHolds
<1>10. CASE Handled(k) = rest
  <2>1. CircOK(rest)
    BY <1>3, <1>4, <1>5, SameHolds
  <2> QED
    BY <1>5, <1>10, <2>1
<1>11. CASE Handled(k) = [rest EXCEPT !.slot = cell] /\ cell \in Reps
  <2> DEFINE l == [rest EXCEPT !.slot = cell]
  <2>1. l \in Circ /\ Same(k, l) /\ l.rx = Tail(k.rx) /\ l.slot = cell
    BY <1>5, <1>11 DEF Circ, Same
  <2> HIDE DEF l
  <2>2. CircOK(l)
    BY <1>4, <1>6, <2>1, SameHolds
  <2> QED
    BY <1>11, <2>1, <2>2 DEF l
<1> QED
  <2>1. CASE k.state = "closed" \/ cell.cell = "destroy"
    BY <1>7, <1>9, <2>1
  <2>2. CASE k.state # "closed" /\ cell.cell = "reply"
    BY <1>7, <1>8, <1>11, <2>2
  <2>3. CASE k.state # "closed" /\ cell.cell = "other"
    BY <1>7, <1>10, <2>3
  <2> QED
    BY <1>8, <2>1, <2>2, <2>3

\* A cell that is delivered is either no reply or a genuine one.
LEMMA DeliverHolds ==
    ASSUME NEW k \in Circ, CircOK(k), NEW cell \in Cells, cell \in Reps => Genuine(k, cell)
    PROVE  Deliver(k, cell) \in Circ /\ CircOK(Deliver(k, cell)) /\ Same(k, Deliver(k, cell))
<1>1. CASE ~k.registered
  <2>1. Deliver(k, cell) = k
    BY <1>1 DEF Deliver
  <2> QED
    BY <2>1 DEF Same
<1>2. CASE k.registered
  <2> DEFINE l == [k EXCEPT !.rx = Append(k.rx, cell)]
  <2>0. Deliver(k, cell) = l
    BY <1>2 DEF Deliver
  <2>1. k.rx \in Seq(Cells)
    BY DEF Circ
  <2>2. /\ Append(k.rx, cell) \in Seq(Cells) /\ Len(Append(k.rx, cell)) = Len(k.rx) + 1
        /\ \A i \in 1..Len(k.rx) : Append(k.rx, cell)[i] = k.rx[i]
        /\ Append(k.rx, cell)[Len(k.rx) + 1] = cell /\ Len(k.rx) \in Nat
    BY <2>1, AppendProperties, LenProperties
  <2>3. l \in Circ /\ Same(k, l) /\ l.rx = Append(k.rx, cell) /\ l.slot = k.slot
    BY <2>2 DEF Circ, Same
  <2> HIDE DEF l
  <2>4. /\ \A i \in 1..Len(k.rx) : k.rx[i] \in Reps => Genuine(k, k.rx[i])
        /\ k.slot \in Reps => Genuine(k, k.slot)
    BY DEF CircOK, CellsOK
  <2>5. ASSUME NEW i \in 1..Len(l.rx), l.rx[i] \in Reps PROVE Genuine(k, l.rx[i])
    <3>1. i \in 1..Len(k.rx) \/ i = Len(k.rx) + 1
      BY <2>2, <2>3
    <3>2. CASE i \in 1..Len(k.rx)
      <4>1. l.rx[i] = k.rx[i]
        BY <2>2, <2>3, <3>2
      <4> QED
        BY <2>4, <2>5, <3>2, <4>1
    <3>3. CASE i = Len(k.rx) + 1
      <4>1. l.rx[i] = cell
        BY <2>2, <2>3, <3>3
      <4> QED
        BY <2>5, <4>1
    <3> QED
      BY <3>1, <3>2, <3>3
  <2>6. CircOK(l)
    BY <2>3, <2>4, <2>5, SameHolds
  <2> QED
    BY <2>0, <2>3, <2>6
<1> QED
  BY <1>1, <1>2

-----------------------------------------------------------------------------
(***************************************************************************)
(* What the steps do to all of them.                                       *)
(***************************************************************************)

\* A step that changes one circuit only has to be looked at there.
LEMMA OneChanges ==
    ASSUME circ \in [Circuits -> Circ], \A d \in Circuits : CircOK(circ[d]),
           NEW c \in Circuits, NEW k, circ' = [circ EXCEPT ![c] = k], CircOK(k)
    PROVE  /\ circ' \in [Circuits -> Circ] /\ \A d \in Circuits : CircOK(circ'[d])
           /\ circ'[c] = k /\ \A d \in Circuits \ {c} : circ'[d] = circ[d]
BY DEF CircOK

\* What is in the builder's hand and in the pool is as it was if neither changes and
\* every circuit is the same, but for ones that nobody holds.
LEMMA HandKeeps ==
    ASSUME Inv, UNCHANGED <<builder, stub>>,
           link.pc # "none" => link'.pc # "none" /\ link'.guard = link.guard,
           \A c \in Circuits : \/ Same(circ[c], circ'[c])
                               \/ c \notin {builder.c, stub.c} /\ Settled(circ'[c])
    PROVE  HandOK'
<1>1. \A c \in Circuits : c \in {builder.c, stub.c} => Same(circ[c], circ'[c])
  OBVIOUS
<1>2. \A c \in Circuits : Settled(circ'[c]) \/ (builder.c = c /\ builder.pc = "wait")
  BY DEF Inv, HandOK, Same, Settled
<1>3. builder.pc \in {"send", "wait", "exit"} => builder.c \in Circuits
  BY DEF Inv, HandOK, Types, Builders
<1>4. builder.pc \in {"send", "wait"} =>
          /\ Len(circ'[builder.c].hops) < Len(circ'[builder.c].path)
          /\ Len(circ'[builder.c].path) = 2 => builder.cs.identities = {circ'[builder.c].path[1]}
  BY <1>1, <1>3 DEF Inv, HandOK, Same
<1>5. builder.pc = "exit" => TwoHops(circ'[builder.c], builder.cs)
  BY <1>1, <1>3 DEF Inv, HandOK, Same, TwoHops
<1>6. stub # NoStub => /\ stub.c \in Circuits /\ stub.c # builder.c
                       /\ TwoHops(circ'[stub.c], stub.cs)
  BY <1>1 DEF Inv, HandOK, Same, TwoHops
<1>7. builder.pc = "middle" =>
          /\ link'.pc # "none"
          /\ builder.cs.identities = {link'.guard} \cup (IF builder.kind = "to" THEN {builder.last} ELSE {})
  BY DEF Inv, HandOK
<1> QED
  BY <1>2, <1>4, <1>5, <1>6, <1>7 DEF Inv, HandOK

\* The pump's step keeps the invariant.
LEMMA PumpStepHolds ==
    ASSUME Inv, NEW c \in Circuits, PumpStep(c)
    PROVE  Inv'
<1> DEFINE k == IF circ[c].rx = <<>> THEN PumpEnded(circ[c]) ELSE Handled(circ[c])
           l == IF k.pump = "ended" /\ c \notin {builder.c, stub.c} THEN close(k) ELSE k
<1>1. circ' = [circ EXCEPT ![c] = l] /\ UNCHANGED <<link, builder, stub, mds>>
  BY DEF PumpStep
<1>2. circ[c] \in Circ /\ CircOK(circ[c]) /\ circ \in [Circuits -> Circ]
  BY DEF Inv, Types
<1>3. k \in Circ /\ CircOK(k) /\ Same(circ[c], k)
  BY <1>2, PumpEndedHolds, HandledHolds
<1> HIDE DEF k
<1>4. CircOK(l) /\ (Same(circ[c], l) \/ (c \notin {builder.c, stub.c} /\ Settled(l)))
  BY <1>3, CloseHolds
<1> HIDE DEF l
<1>5. /\ circ' \in [Circuits -> Circ] /\ \A d \in Circuits : CircOK(circ'[d])
      /\ circ'[c] = l /\ \A d \in Circuits \ {c} : circ'[d] = circ[d]
  BY <1>1, <1>2, <1>4, OneChanges DEF Inv
<1>6. HandOK'
  <2>1. \A d \in Circuits : \/ Same(circ[d], circ'[d])
                            \/ d \notin {builder.c, stub.c} /\ Settled(circ'[d])
    BY <1>4, <1>5 DEF Same
  <2> QED
    BY <1>1, <2>1, HandKeeps
<1> QED
  BY <1>1, <1>5, <1>6 DEF Inv, Types, LinkInv

\* A circuit nobody holds may be let go of.
LEMMA ReleaseHolds ==
    ASSUME Inv, NEW c \in Circuits, Release(c)
    PROVE  Inv'
<1>1. /\ circ' = [circ EXCEPT ![c] = close(circ[c])] /\ UNCHANGED <<link, builder, stub, mds>>
      /\ c \notin {builder.c, stub.c}
  BY DEF Release
<1>2. circ[c] \in Circ /\ circ \in [Circuits -> Circ]
  BY DEF Inv, Types
<1>3. CircOK(close(circ[c])) /\ Settled(close(circ[c]))
  BY <1>2, CloseHolds
<1>4. /\ circ' \in [Circuits -> Circ] /\ \A d \in Circuits : CircOK(circ'[d])
      /\ circ'[c] = close(circ[c]) /\ \A d \in Circuits \ {c} : circ'[d] = circ[d]
  BY <1>1, <1>2, <1>3, OneChanges DEF Inv
<1>5. \A d \in Circuits : \/ Same(circ[d], circ'[d])
                          \/ d \notin {builder.c, stub.c} /\ Settled(circ'[d])
  BY <1>1, <1>3, <1>4 DEF Same
<1>6. HandOK'
  BY <1>1, <1>5, HandKeeps
<1> QED
  BY <1>1, <1>4, <1>6 DEF Inv, Types, LinkInv

\* The channel's handshake touches no circuit.
LEMMA LinkStepsHolds ==
    ASSUME Inv, LinkSteps
    PROVE  Inv'
<1>1. (Handshake \/ LinkEnds) /\ UNCHANGED <<builder, circ, stub, mds>>
  BY DEF LinkSteps
<1>2. LinkInv' /\ link'.guard = link.guard /\ link'.pc # "none"
  BY <1>1, HandshakeHolds DEF Inv
<1>3. \A d \in Circuits : Same(circ[d], circ'[d])
  BY <1>1 DEF Same
<1>4. HandOK'
  BY <1>1, <1>2, <1>3, HandKeeps
<1> QED
  BY <1>1, <1>2, <1>4 DEF Inv, Types

\* The end of the link unregisters every circuit.
LEMMA LinkClearedHolds ==
    ASSUME Inv, LinkCleared
    PROVE  Inv'
<1>1. /\ link.pc = "ended" /\ LinkGoto("down") /\ UNCHANGED <<builder, stub, mds>>
      /\ circ' = [c \in Circuits |-> [circ[c] EXCEPT !.registered = FALSE]]
  BY DEF LinkCleared
<1>2. LinkInv' /\ link'.guard = link.guard /\ link'.pc # "none"
  BY <1>1, HandshakeHolds DEF Inv
<1>3. ASSUME NEW c \in Circuits
      PROVE  circ'[c] \in Circ /\ CircOK(circ'[c]) /\ Same(circ[c], circ'[c])
  <2> DEFINE l == [circ[c] EXCEPT !.registered = FALSE]
  <2>1. circ[c] \in Circ /\ CircOK(circ[c]) /\ circ'[c] = l
    BY <1>1 DEF Inv, Types
  <2>2. l \in Circ /\ Same(circ[c], l) /\ l.rx = circ[c].rx /\ l.slot = circ[c].slot
    BY <2>1 DEF Circ, Same
  <2> HIDE DEF l
  <2>3. /\ \A i \in 1..Len(l.rx) : l.rx[i] \in Reps => Genuine(circ[c], l.rx[i])
        /\ l.slot \in Reps => Genuine(circ[c], l.slot)
    BY <2>1, <2>2 DEF CircOK, CellsOK
  <2>4. CircOK(l)
    BY <2>1, <2>2, <2>3, SameHolds
  <2> QED
    BY <2>1, <2>2, <2>4
<1>4. HandOK'
  BY <1>1, <1>2, <1>3, HandKeeps
<1>5. circ' \in [Circuits -> Circ]
  BY <1>1, <1>3
<1> QED
  BY <1>1, <1>2, <1>3, <1>4, <1>5 DEF Inv, Types

\* A relay's answer is one hop more at the far end.
LEMMA AnswerHolds ==
    ASSUME Inv, NEW c \in Circuits, Answer(c)
    PROVE  Inv'
<1> DEFINE k   == circ[c]
           req == k.req
           n   == Len(k.hops) + 1
           key == IF req.x = 1 THEN link.peer ELSE req.to
<1>1. /\ circ \in [Circuits -> Circ] /\ k \in Circ /\ CircOK(k) /\ req # NoReq
      /\ UNCHANGED <<link, builder, stub, mds>>
  BY DEF Answer, Inv, Types
<1>2. /\ req \in Reqs /\ k.path \in Seq(Keys) /\ k.far \in Seq(Keys \X Nat \X Int)
      /\ k.hops \in Seq(Keys \X Nat)
  BY <1>1 DEF Circ
<1>3. /\ Len(k.far) = Len(k.hops) /\ n <= Len(k.path) /\ req.x = n /\ req.to = k.path[n]
      /\ req.asks <=> AsksAt(k, n)
      /\ Len(k.far) \in Nat /\ Len(k.path) \in Nat /\ n \in Nat
  BY <1>1, <1>2, LenProperties DEF CircOK, ReqOK
<1>4. key \in Keys /\ req.asks \in BOOLEAN
  BY <1>2 DEF Reqs, Keys, Inv, LinkInv
<1> DEFINE sent(msg) == [k EXCEPT !.req = NoReq, !.farflow = Scheme(msg), !.far = Append(k.far, <<key, n, msg>>)]
<1>5. PICK msg \in Int : /\ msg # Declined => AsksAt(k, n)
                         /\ circ' = [circ EXCEPT ![c] = Deliver(sent(msg), Reply(key, n, msg))]
  <2>1. CASE req.asks
    <3>1. PICK msg \in CcAnswers :
            circ' = [circ EXCEPT ![c] =
               Deliver([k EXCEPT !.req = NoReq,
                                 !.farflow = IF msg \in {Declined, Malformed} THEN Windows ELSE msg,
                                 !.far = Append(k.far, <<key, req.x, msg>>)],
                       Reply(key, req.x, msg))]
      BY <1>1, <1>4, <2>1 DEF Answer
    <3>2. msg \in Int
      BY SetupAssumption DEF SetupAssumption
    <3> QED
      BY <1>3, <2>1, <3>1, <3>2 DEF Scheme
  <2>2. CASE ~req.asks
    <3>1. circ' = [circ EXCEPT ![c] =
               Deliver([k EXCEPT !.req = NoReq, !.farflow = Windows,
                                 !.far = Append(k.far, <<key, req.x, Declined>>)],
                       Reply(key, req.x, Declined))]
      BY <1>1, <1>4, <2>2 DEF Answer
    <3>2. Declined \in Int /\ Scheme(Declined) = Windows
      BY DEF Scheme, Declined
    <3> QED
      BY <1>3, <3>1, <3>2
  <2> QED
    BY <1>4, <2>1, <2>2
<1> DEFINE l == sent(msg)
<1> HIDE DEF key
<1>6. /\ <<key, n, msg>> \in Keys \X Nat \X Int
      /\ Append(k.far, <<key, n, msg>>) \in Seq(Keys \X Nat \X Int)
      /\ Len(Append(k.far, <<key, n, msg>>)) = n
      /\ \A i \in 1..Len(k.far) : Append(k.far, <<key, n, msg>>)[i] = k.far[i]
      /\ Append(k.far, <<key, n, msg>>)[n] = <<key, n, msg>>
  <2>1. <<key, n, msg>> \in Keys \X Nat \X Int
    BY <1>3, <1>4
  <2> QED
    BY <1>2, <1>3, <2>1, AppendProperties
<1>7. Scheme(msg) \in Int
  BY DEF Scheme, Windows
<1>8. /\ l \in Circ /\ l.far = Append(k.far, <<key, n, msg>>) /\ l.req = NoReq
      /\ l.farflow = Scheme(msg)
      /\ l.path = k.path /\ l.way = k.way /\ l.hops = k.hops /\ l.rx = k.rx /\ l.slot = k.slot
  BY <1>1, <1>6, <1>7 DEF Circ
<1> HIDE DEF l
<1>9. \A i \in 1..Len(k.far) : l.far[i] = k.far[i]
  BY <1>6, <1>8
<1>10. Len(l.far) = n /\ l.far[n][1] = key /\ l.far[n][2] = n /\ l.far[n][3] = msg
  BY <1>6, <1>8
<1>11. \A x : AsksAt(l, x) <=> AsksAt(k, x)
  BY <1>8 DEF AsksAt
<1>12. HopsOK(l)
  <2>1. Len(l.hops) <= Len(l.far) /\ Len(l.far) <= Len(l.hops) + 1 /\ Len(l.far) <= Len(l.path)
    BY <1>3, <1>8, <1>10
  <2>2. ASSUME NEW x \in 1..Len(l.far)
        PROVE  l.far[x][2] = x /\ (l.far[x][3] # Declined => AsksAt(l, x))
    <3>1. x \in 1..Len(k.far) \/ x = n
      BY <1>3, <1>10
    <3>2. CASE x \in 1..Len(k.far)
      BY <1>1, <1>9, <1>11, <3>2 DEF CircOK, HopsOK
    <3>3. CASE x = n
      BY <1>5, <1>10, <1>11, <3>3
    <3> QED
      BY <3>1, <3>2, <3>3
  <2>3. \A x \in 1..Len(l.hops) : l.hops[x] = <<l.far[x][1], x>> /\ l.far[x][1] = l.path[x]
    BY <1>1, <1>3, <1>8, <1>9 DEF CircOK, HopsOK
  <2>4. l.farflow = IF Len(l.far) = 0 THEN Windows ELSE Scheme(l.far[Len(l.far)][3])
    BY <1>3, <1>8, <1>10
  <2>5. Len(l.far) # Len(l.hops)
    BY <1>3, <1>8, <1>10
  <2> QED
    BY <2>1, <2>2, <2>3, <2>4, <2>5 DEF HopsOK
<1>13. ASSUME NEW cell, Genuine(k, cell) PROVE Genuine(l, cell)
  BY <1>3, <1>8, <1>9, <1>10, <1>11, <1>13 DEF Genuine
<1>14. CircOK(l)
  <2>1. CellsOK(l)
    BY <1>1, <1>8, <1>13 DEF CircOK, CellsOK
  <2>2. ReqOK(l) /\ PathOK(l.path, l.way)
    BY <1>1, <1>8 DEF CircOK, ReqOK
  <2> QED
    BY <1>8, <1>12, <2>1, <2>2 DEF CircOK
<1>15. Reply(key, n, msg) \in Cells /\ Genuine(l, Reply(key, n, msg))
  <2>1. /\ Reply(key, n, msg) \in Reps /\ Reply(key, n, msg).key = key
        /\ Reply(key, n, msg).x = n
        /\ Reply(key, n, msg).msg = msg /\ Reply(key, n, msg).covers = msg
    BY <1>3, <1>4, ReplyType
  <2> DEFINE r == Reply(key, n, msg)
  <2>2. n \in 1..Len(l.far)
    BY <1>3, <1>10
  <2> HIDE DEF r, n
  <2>3. Genuine(l, r)
    BY <1>10, <2>1, <2>2 DEF Genuine, r
  <2> QED
    BY <2>1, <2>3 DEF Cells, r
<1> DEFINE m == Deliver(l, Reply(key, n, msg))
<1>16. m \in Circ /\ CircOK(m) /\ Same(l, m)
  BY <1>8, <1>14, <1>15, DeliverHolds
<1>17. circ' = [circ EXCEPT ![c] = m]
  BY <1>5 DEF l
<1> HIDE DEF m
<1>18. /\ circ' \in [Circuits -> Circ] /\ \A d \in Circuits : CircOK(circ'[d])
       /\ circ'[c] = m /\ \A d \in Circuits \ {c} : circ'[d] = circ[d]
  BY <1>1, <1>16, <1>17, OneChanges DEF Inv
<1>19. builder.c = c /\ builder.pc = "wait"
  BY <1>1 DEF Inv, HandOK, Settled
<1>20. HandOK'
  <2>1. circ'[c].hops = k.hops /\ circ'[c].path = k.path
    BY <1>8, <1>16, <1>18 DEF Same
  <2>2. stub # NoStub => circ'[stub.c] = circ[stub.c]
    BY <1>18, <1>19 DEF Inv, HandOK
  <2> QED
    BY <1>1, <1>18, <1>19, <2>1, <2>2 DEF Inv, HandOK
<1> QED
  BY <1>1, <1>18, <1>20 DEF Inv, Types, LinkInv

\* What a relay on the way may send is no reply, or the answer to an earlier handshake,
\* or one whose key or whose message gives it away.
LEMMA DisturbHolds ==
    ASSUME Inv, NEW c \in Circuits, Disturb(c)
    PROVE  Inv'
<1> DEFINE k == circ[c]
           Repeats == {Reply(k.far[i][1], i, k.far[i][3]) : i \in DOMAIN k.far}
           InPlace == IF k.req = NoReq THEN {} ELSE {Reply(r, k.req.x, Declined) : r \in Relays \ {k.req.to}}
           Altered == IF k.req = NoReq \/ ~k.req.asks THEN {} ELSE
                      {[Reply(k.req.to, k.req.x, Declined) EXCEPT !.msg = m] : m \in CcAnswers \ {Declined}}
<1>1. /\ circ \in [Circuits -> Circ] /\ k \in Circ /\ CircOK(k)
      /\ UNCHANGED <<link, builder, stub, mds>>
  BY DEF Disturb, Inv, Types
<1>2. PICK cell \in {Destroy, Other, Garbled} \cup Repeats \cup InPlace \cup Altered :
         circ' = [circ EXCEPT ![c] = Deliver(k, cell)]
  BY <1>1 DEF Disturb
<1>3. /\ k.path \in Seq(Keys) /\ k.far \in Seq(Keys \X Nat \X Int) /\ k.req \in Reqs \cup {NoReq}
      /\ k.hops \in Seq(Keys \X Nat)
  BY <1>1 DEF Circ
<1>4. k.req # NoReq => /\ k.req \in Reqs /\ k.req.x \in 1..Len(k.path) /\ k.req.to = k.path[k.req.x]
                       /\ k.req.to \in Keys /\ k.req.x \in Nat
                       /\ k.req.asks <=> AsksAt(k, k.req.x)
  <2> SUFFICES ASSUME k.req # NoReq
               PROVE  /\ k.req \in Reqs /\ k.req.x \in 1..Len(k.path) /\ k.req.to = k.path[k.req.x]
                      /\ k.req.to \in Keys /\ k.req.x \in Nat
                      /\ k.req.asks <=> AsksAt(k, k.req.x)
    OBVIOUS
  <2>1. k.req \in Reqs /\ k.req.to \in Keys /\ k.req.x \in Nat
    BY <1>3 DEF Reqs
  <2>2. /\ Len(k.hops) < Len(k.path) /\ k.req.x = Len(k.hops) + 1 /\ k.req.to = k.path[k.req.x]
        /\ k.req.asks <=> AsksAt(k, k.req.x)
    BY <1>1 DEF CircOK, ReqOK
  <2>3. Len(k.hops) \in Nat /\ Len(k.path) \in Nat
    BY <1>3, LenProperties
  <2> QED
    BY <2>1, <2>2, <2>3
<1>5. cell \in Cells /\ (cell \in Reps => Genuine(k, cell))
  <2>1. CASE cell = Destroy \/ cell = Other
    BY <2>1, Kinds DEF Cells
  <2>2. CASE cell = Garbled
    <3>1. None \in Keys /\ 0 \in Nat /\ Declined \in Int
      BY DEF Keys, Declined
    <3>2. cell \in Reps /\ cell.x = 0
      BY <2>2, <3>1, ReplyType DEF Garbled
    <3> QED
      BY <3>2 DEF Cells, Genuine
  <2>3. CASE cell \in Repeats
    <3>1. PICK i \in DOMAIN k.far : cell = Reply(k.far[i][1], i, k.far[i][3])
      BY <2>3
    <3>5. DOMAIN k.far = 1..Len(k.far) /\ Len(k.far) \in Nat
      BY <1>3, LenProperties
    <3>2. i \in 1..Len(k.far) /\ k.far[i] \in Keys \X Nat \X Int /\ i \in Nat
      <4> HIDE DEF k
      <4> QED
        BY <1>3, <3>1, <3>5, ElementOfSeq
    <3>3. k.far[i][1] \in Keys /\ k.far[i][3] \in Int
      BY <3>2
    <3>4. /\ cell \in Reps /\ cell.key = k.far[i][1] /\ cell.x = i
          /\ cell.msg = k.far[i][3] /\ cell.covers = k.far[i][3]
      BY <3>1, <3>2, <3>3, ReplyType
    <3> QED
      BY <3>2, <3>4 DEF Cells, Genuine
  <2>4. CASE cell \in InPlace
    <3>1. k.req # NoReq
      BY <2>4
    <3>2. PICK r \in Relays \ {k.req.to} : cell = Reply(r, k.req.x, Declined)
      BY <2>4, <3>1
    <3>3. r \in Keys /\ Declined \in Int
      BY DEF Keys, Declined
    <3>4. cell \in Reps /\ cell.key = r /\ cell.x = k.req.x
      BY <1>4, <3>1, <3>2, <3>3, ReplyType
    <3> QED
      BY <1>4, <3>1, <3>2, <3>4 DEF Cells, Genuine
  <2>5. CASE cell \in Altered
    <3>1. k.req # NoReq /\ k.req.asks
      BY <2>5
    <3>2. PICK m \in CcAnswers \ {Declined} :
             cell = [Reply(k.req.to, k.req.x, Declined) EXCEPT !.msg = m]
      BY <2>5, <3>1
    <3>3. m \in Int /\ Declined \in Int
      BY SetupAssumption DEF SetupAssumption, Declined
    <3> DEFINE r == Reply(k.req.to, k.req.x, Declined)
    <3>4. r \in Reps /\ r.x = k.req.x /\ r.covers = Declined
      BY <1>4, <3>1, <3>3, ReplyType
    <3> HIDE DEF r
    <3>5. cell = [r EXCEPT !.msg = m]
      BY <3>2 DEF r
    <3>6. cell \in Reps /\ cell.x = k.req.x /\ cell.covers = Declined /\ cell.msg = m
      BY <3>3, <3>4, <3>5 DEF Reps
    <3> QED
      BY <1>4, <3>1, <3>2, <3>6 DEF Cells, Genuine
  <2> QED
    BY <1>2, <2>1, <2>2, <2>3, <2>4, <2>5
<1> DEFINE m == Deliver(k, cell)
<1>6. m \in Circ /\ CircOK(m) /\ Same(k, m)
  BY <1>1, <1>5, DeliverHolds
<1>7. circ' = [circ EXCEPT ![c] = m]
  BY <1>2
<1> HIDE DEF m
<1>8. /\ circ' \in [Circuits -> Circ] /\ \A d \in Circuits : CircOK(circ'[d])
      /\ circ'[c] = m /\ \A d \in Circuits \ {c} : circ'[d] = circ[d]
  BY <1>1, <1>6, <1>7, OneChanges DEF Inv
<1>9. \A d \in Circuits : Same(circ[d], circ'[d])
  BY <1>6, <1>8 DEF Same
<1>10. HandOK'
  BY <1>1, <1>9, HandKeeps
<1> QED
  BY <1>1, <1>8, <1>10 DEF Inv, Types, LinkInv

-----------------------------------------------------------------------------
(***************************************************************************)
(* The builder.                                                            *)
(***************************************************************************)

\* A sample is drawn from its candidates.
LEMMA SamplesIn ==
    ASSUME NEW rs, NEW n, NEW position, NEW sample \in Samples(rs, n, position)
    PROVE  sample \subseteq rs
BY DEF Samples, kSubset, Drawn

\* Only microdescriptors of relays are loaded.
LEMMA LoadHolds ==
    ASSUME mds \subseteq Relays, NEW sample \in SUBSET Relays, NEW known \in Known(sample),
           load_microdescs(sample, known)
    PROVE  mds' \subseteq Relays
BY DEF load_microdescs, Kept, Known

\* What the builder starts a job with: no circuit yet.
LEMMA IdleType ==
    ASSUME NEW kind \in {None, "stub", "to", "exit", "fast"}, NEW last \in Keys,
           NEW pc \in {"idle", "take", "channel"}
    PROVE  LET b == [Idle EXCEPT !.kind = kind, !.last = last, !.pc = pc] IN
           b \in Builders /\ b.pc = pc /\ b.c = None
<1>1. NoConstraints \in Cs
  BY DEF NoConstraints, Cs
<1>2. <<>> \in Seq(Keys)
  BY EmptySeq
<1> QED
  BY <1>1, <1>2 DEF Idle, Builders

\* An idle builder has no circuit.
LEMMA IdleBuilder == Idle \in Builders /\ Idle.pc = "idle" /\ Idle.c = None
<1>1. NoConstraints \in Cs
  BY DEF NoConstraints, Cs
<1>2. <<>> \in Seq(Keys) /\ None \in Keys
  BY EmptySeq DEF Keys
<1> QED
  BY <1>1, <1>2 DEF Idle, Builders

\* A builder that comes out with no circuit in hand.
LEMMA EmptyHanded ==
    ASSUME Inv, link' = link, mds' \subseteq Relays,
           builder' \in Builders, builder'.pc \in {"idle", "take", "channel"}, builder'.c = None,
           circ' \in [Circuits -> Circ],
           \A c \in Circuits : CircOK(circ'[c]) /\ Settled(circ'[c]),
           \/ stub' = NoStub
           \/ stub' = stub /\ (stub # NoStub => circ'[stub.c] = circ[stub.c])
           \/ /\ stub'.c \in Circuits /\ TwoHops(circ'[stub'.c], stub'.cs)
              /\ stub' \in [c : Circuits \cup {None}, cs : Cs]
    PROVE  Inv'
<1>1. NoStub \in [c : Circuits \cup {None}, cs : Cs]
  BY DEF NoStub, Cs, NoConstraints
<1>2. Types'
  BY <1>1 DEF Inv, Types
<1>3. stub' # NoStub => /\ stub'.c \in Circuits /\ stub'.c # builder'.c
                        /\ TwoHops(circ'[stub'.c], stub'.cs)
  BY SetupAssumption DEF Inv, HandOK, SetupAssumption
<1>4. HandOK'
  BY <1>3 DEF HandOK
<1> QED
  BY <1>2, <1>4 DEF Inv, LinkInv

\* A job that has no circuit in hand has no request under way either.
LEMMA AllSettled ==
    ASSUME Inv, builder.pc # "wait"
    PROVE  \A c \in Circuits : Settled(circ[c])
BY DEF Inv, HandOK

\* A build that fails closes what it has in hand, and keeps the invariant.
LEMMA FailedHolds ==
    ASSUME Inv, NEW k \in Circ, Failed(k), link' = link, stub' = stub, mds' \subseteq Relays
    PROVE  Inv'
<1>1. /\ builder \in Builders /\ circ \in [Circuits -> Circ]
      /\ \A c \in Circuits : CircOK(circ[c])
  BY DEF Inv, Types
<1>2. builder' \in Builders /\ builder'.pc \in {"idle", "take", "channel"} /\ builder'.c = None
  <2>1. CASE builder.stubbed
    <3>1. builder' = [Idle EXCEPT !.kind = builder.kind, !.last = builder.last, !.pc = "channel"]
      BY <2>1 DEF Failed
    <3>2. builder.kind \in {None, "stub", "to", "exit", "fast"} /\ builder.last \in Keys
      BY <1>1 DEF Builders
    <3> QED
      BY <3>1, <3>2, IdleType
  <2>2. CASE ~builder.stubbed
    BY <2>2, IdleBuilder DEF Failed
  <2> QED
    BY <2>1, <2>2
<1>3. \A c \in Circuits \ {builder.c} : Settled(circ[c])
  BY DEF Inv, HandOK
<1>4. CASE builder.c = None
  <2>1. circ' = circ /\ \A c \in Circuits : Settled(circ[c])
    BY <1>3, <1>4, SetupAssumption DEF Failed, SetupAssumption
  <2> QED
    BY <1>1, <1>2, <2>1, EmptyHanded
<1>5. CASE builder.c # None
  <2>1. builder.c \in Circuits /\ circ' = [circ EXCEPT ![builder.c] = close(k)]
    BY <1>1, <1>5 DEF Failed, Builders
  <2>2. CircOK(close(k)) /\ Settled(close(k))
    BY CloseHolds
  <2>3. /\ circ' \in [Circuits -> Circ] /\ \A d \in Circuits : CircOK(circ'[d])
        /\ circ'[builder.c] = close(k) /\ \A d \in Circuits \ {builder.c} : circ'[d] = circ[d]
    BY <1>1, <2>1, <2>2, OneChanges
  <2>4. \A d \in Circuits : Settled(circ'[d])
    BY <1>3, <2>2, <2>3
  <2>5. stub # NoStub => circ'[stub.c] = circ[stub.c]
    BY <2>3 DEF Inv, HandOK
  <2> QED
    BY <1>2, <2>3, <2>4, <2>5, EmptyHanded
<1> QED
  BY <1>4, <1>5

\* What the builder has in hand is a circuit.
LEMMA InHandType ==
    ASSUME Inv
    PROVE  InHand \in Circ
BY UnusedType DEF InHand, Inv, Types, Builders

\* A new job starts without a circuit.
LEMMA StartHolds ==
    ASSUME Inv, Start
    PROVE  Inv'
<1>1. /\ builder.pc = "idle" /\ UNCHANGED <<link, circ, stub, mds>>
  BY DEF Start, At
<1>2. \E kind \in {None, "stub", "to", "exit", "fast"}, last \in Ends \cup {None},
         pc \in {"idle", "take", "channel"} :
         builder' = [Idle EXCEPT !.kind = kind, !.last = last, !.pc = pc]
  BY DEF Start
<1>3. PICK kind \in {None, "stub", "to", "exit", "fast"}, last \in Ends \cup {None},
           pc \in {"idle", "take", "channel"} :
         builder' = [Idle EXCEPT !.kind = kind, !.last = last, !.pc = pc]
  BY <1>2
<1>4. last \in Keys /\ None \in Keys
  BY DEF Keys
<1>5. builder' \in Builders /\ builder'.pc \in {"idle", "take", "channel"} /\ builder'.c = None
  <2>1. NoConstraints \in Cs
    BY DEF NoConstraints, Cs
  <2>2. <<>> \in Seq(Keys)
    BY EmptySeq
  <2> QED
    BY <1>3, <1>4, <2>1, <2>2 DEF Idle, Builders
<1>6. /\ circ' \in [Circuits -> Circ] /\ mds' \subseteq Relays
      /\ \A c \in Circuits : CircOK(circ'[c]) /\ Settled(circ'[c])
  BY <1>1, AllSettled DEF Inv, Types
<1> QED
  BY <1>1, <1>5, <1>6, EmptyHanded

\* So does one to a rendezvous point.
LEMMA StartRendezvousHolds ==
    ASSUME Inv, StartRendezvous
    PROVE  Inv'
<1>1. /\ builder.pc = "idle" /\ UNCHANGED <<link, circ, stub>>
  BY DEF StartRendezvous, At
<1>0. PICK cs : \E sample \in Samples(rendezvous_candidates(cs), RendezvousSample, "Middle") :
                \E known \in Known(sample) :
          /\ load_microdescs(sample, known)
          /\ \/ known = {} /\ builder' = Idle
             \/ \E last \in Drawn(known, "Middle") :
                   builder' = [Idle EXCEPT !.kind = "to", !.last = last, !.pc = "take"]
  BY DEF StartRendezvous
<1> DEFINE fitting == rendezvous_candidates(cs)
<1>2. PICK sample \in Samples(fitting, RendezvousSample, "Middle") : \E known \in Known(sample) :
          /\ load_microdescs(sample, known)
          /\ \/ known = {} /\ builder' = Idle
             \/ \E last \in Drawn(known, "Middle") :
                   builder' = [Idle EXCEPT !.kind = "to", !.last = last, !.pc = "take"]
  BY <1>0
<1>3. PICK known \in Known(sample) :
          /\ load_microdescs(sample, known)
          /\ \/ known = {} /\ builder' = Idle
             \/ \E last \in Drawn(known, "Middle") :
                   builder' = [Idle EXCEPT !.kind = "to", !.last = last, !.pc = "take"]
  BY <1>2
<1>4. fitting \subseteq Relays
  BY DEF rendezvous_candidates
<1> HIDE DEF fitting
<1>5. sample \in SUBSET Relays /\ known \subseteq Relays
  BY <1>4, SamplesIn DEF Known
<1>6. mds' \subseteq Relays
  BY <1>3, <1>5, LoadHolds DEF Inv, Types
<1>7. builder' \in Builders /\ builder'.pc \in {"idle", "take", "channel"} /\ builder'.c = None
  <2>1. CASE builder' = Idle
    BY <2>1, IdleBuilder
  <2>2. CASE \E last \in Drawn(known, "Middle") :
                   builder' = [Idle EXCEPT !.kind = "to", !.last = last, !.pc = "take"]
    <3>1. PICK last \in known : builder' = [Idle EXCEPT !.kind = "to", !.last = last, !.pc = "take"]
      BY <2>2 DEF Drawn
    <3>2. last \in Keys
      BY <1>5 DEF Keys
    <3> QED
      BY <3>1, <3>2, IdleType
  <2> QED
    BY <1>3, <2>1, <2>2
<1>8. /\ circ' \in [Circuits -> Circ]
      /\ \A c \in Circuits : CircOK(circ'[c]) /\ Settled(circ'[c])
  BY <1>1, AllSettled DEF Inv, Types
<1> QED
  BY <1>1, <1>6, <1>7, <1>8, EmptyHanded

\* Without a stub that fits, the path starts at the guard.
LEMMA NoStubFitsHolds ==
    ASSUME Inv, NoStubFits
    PROVE  Inv'
<1>1. /\ builder.pc = "take" /\ UNCHANGED <<link, mds>> /\ builder \in Builders
      /\ builder' = [builder EXCEPT !.pc = "channel"] /\ circ \in [Circuits -> Circ]
  BY DEF NoStubFits, At, Inv, Types
<1>2. builder.c = None
  BY <1>1 DEF Inv, HandOK
<1>3. builder' \in Builders /\ builder'.pc = "channel" /\ builder'.c = None
  BY <1>1, <1>2 DEF Builders
<1>4. \A c \in Circuits : CircOK(circ[c]) /\ Settled(circ[c])
  BY <1>1, AllSettled DEF Inv
<1>5. CASE stub' = NoStub /\ circ' = [circ EXCEPT ![stub.c] = close(circ[stub.c])] /\ stub # NoStub
  <2>1. stub.c \in Circuits
    BY <1>5 DEF Inv, HandOK
  <2>2. CircOK(close(circ[stub.c])) /\ Settled(close(circ[stub.c]))
    BY <1>1, <2>1, CloseHolds
  <2>3. /\ circ' \in [Circuits -> Circ] /\ \A d \in Circuits : CircOK(circ'[d])
        /\ circ'[stub.c] = close(circ[stub.c]) /\ \A d \in Circuits \ {stub.c} : circ'[d] = circ[d]
    BY <1>1, <1>4, <1>5, <2>1, <2>2, OneChanges
  <2>4. \A d \in Circuits : Settled(circ'[d])
    BY <1>4, <2>2, <2>3
  <2> QED
    BY <1>1, <1>3, <1>5, <2>3, <2>4, EmptyHanded DEF Inv, Types
<1>6. CASE UNCHANGED <<stub, circ>>
  BY <1>1, <1>3, <1>4, <1>6, EmptyHanded DEF Inv, Types
<1> QED
  BY <1>5, <1>6 DEF NoStubFits

\* A relay that goes with two constraints' worth of relays goes with each of them.
LEMMA AcceptsApart ==
    ASSUME NEW cs, NEW r, accepts(cs, r), NEW i \in cs.identities
    PROVE  Apart(i, r) /\ Apart(r, i) /\ ~Mutual(i, r) /\ ~Mutual(r, i)
BY DEF accepts, accepts_relay, Apart, Mutual

\* A relay that accepts_relay lets through is apart from every relay of the constraints.
LEMMA FitsApart ==
    ASSUME NEW cs, NEW r, NEW declared, accepts_relay(cs, r, declared), NEW i \in cs.identities
    PROVE  Apart(i, r)
BY DEF accepts_relay, Apart

\* A sequence with one more element.
LEMMA AppendLen ==
    ASSUME NEW S, NEW p \in Seq(S), NEW r \in S
    PROVE  /\ Append(p, r) \in Seq(S) /\ Len(Append(p, r)) = Len(p) + 1
           /\ \A i \in 1..Len(p) : Append(p, r)[i] = p[i]
           /\ Append(p, r)[Len(p) + 1] = r
BY AppendProperties

\* A path of two relays with a third.
LEMMA AppendTwo ==
    ASSUME NEW S, NEW p \in Seq(S), Len(p) = 2, NEW r \in S
    PROVE  /\ Append(p, r) \in Seq(S) /\ Len(Append(p, r)) = 3
           /\ Append(p, r)[1] = p[1] /\ Append(p, r)[2] = p[2] /\ Append(p, r)[3] = r
<1>1. /\ Append(p, r) \in Seq(S) /\ Len(Append(p, r)) = Len(p) + 1
      /\ \A i \in 1..Len(p) : Append(p, r)[i] = p[i]
      /\ Append(p, r)[Len(p) + 1] = r
  BY AppendLen
<1> QED
  BY <1>1

\* A third relay on the path of a circuit of two hops.
LEMMA ThirdHolds ==
    ASSUME NEW k \in Circ, CircOK(k), NEW cs, TwoHops(k, cs), Settled(k), NEW r \in Keys,
           NEW way \in {"exit", "fits"},
           \A i \in cs.identities : Apart(i, r),
           way = "exit" => \A i \in cs.identities : ~Mutual(i, r)
    PROVE  LET l == [k EXCEPT !.path = Append(k.path, r), !.way = way] IN
           /\ l \in Circ /\ CircOK(l) /\ Settled(l) /\ Len(l.hops) = 2 /\ Len(l.path) = 3
<1> DEFINE l == [k EXCEPT !.path = Append(k.path, r), !.way = way]
<1>1. /\ k.path \in Seq(Keys) /\ Len(k.path) = 2 /\ Len(k.hops) = 2 /\ Len(k.far) = 2
      /\ cs.identities = {k.path[1], k.path[2]}
  BY DEF Circ, TwoHops, Settled
<1>2. /\ Append(k.path, r) \in Seq(Keys) /\ Len(Append(k.path, r)) = 3
      /\ Append(k.path, r)[1] = k.path[1] /\ Append(k.path, r)[2] = k.path[2]
      /\ Append(k.path, r)[3] = r
  BY <1>1, AppendTwo
<1>3. /\ l \in Circ /\ l.path = Append(k.path, r) /\ l.way = way
      /\ l.hops = k.hops /\ l.far = k.far /\ l.req = k.req /\ l.flow = k.flow
      /\ l.farflow = k.farflow /\ l.rx = k.rx /\ l.slot = k.slot
  BY <1>2 DEF Circ
<1> HIDE DEF l
<1>4. l.path[1] = k.path[1] /\ l.path[2] = k.path[2] /\ l.path[3] = r /\ Len(l.path) = 3
  BY <1>2, <1>3
<1>5. \A x \in {1, 2} : ~AsksAt(l, x) /\ ~AsksAt(k, x) /\ l.path[x] = k.path[x]
  BY <1>4 DEF AsksAt
<1>6. HopsOK(l)
  <2>1. /\ \A x \in {1, 2} : /\ k.far[x][2] = x /\ k.far[x][3] = Declined
                             /\ k.hops[x] = <<k.far[x][1], x>> /\ k.far[x][1] = k.path[x]
        /\ k.farflow = Scheme(k.far[2][3]) /\ k.flow = k.farflow
    BY <1>1, <1>5 DEF CircOK, HopsOK
  <2>2. 1..Len(l.far) = {1, 2} /\ 1..Len(l.hops) = {1, 2}
    BY <1>1, <1>3
  <2>3. \A x \in {1, 2} : /\ l.far[x][2] = x /\ l.far[x][3] = Declined
                          /\ l.hops[x] = <<l.far[x][1], x>> /\ l.far[x][1] = l.path[x]
    BY <1>3, <1>5, <2>1
  <2>4. Len(l.hops) = 2 /\ Len(l.far) = 2
    BY <1>1, <1>3
  <2>5. l.farflow = Scheme(l.far[2][3]) /\ l.flow = l.farflow
    BY <1>3, <2>1
  <2> QED
    BY <1>4, <2>2, <2>3, <2>4, <2>5 DEF HopsOK
<1>7. ASSUME NEW cell, Genuine(k, cell) PROVE Genuine(l, cell)
  <2>1. 1..Len(k.far) = {1, 2} /\ 1..Len(k.path) = {1, 2} /\ {1, 2} \subseteq 1..Len(l.path)
        /\ 1..Len(l.far) = {1, 2}
    BY <1>1, <1>3, <1>4
  <2> QED
    BY <1>3, <1>5, <1>7, <2>1 DEF Genuine
<1>8. CellsOK(l)
  BY <1>3, <1>7 DEF CircOK, CellsOK
<1>9. ReqOK(l) /\ Settled(l)
  BY <1>3 DEF ReqOK, Settled
<1>10. PathOK(l.path, l.way)
  <2>1. Apart(k.path[1], k.path[2]) /\ ~Mutual(k.path[1], k.path[2])
    BY <1>1 DEF CircOK, PathOK
  <2>2. Apart(k.path[1], r) /\ Apart(k.path[2], r)
    BY <1>1
  <2>3. way = "exit" => ~Mutual(k.path[1], r) /\ ~Mutual(k.path[2], r)
    BY <1>1
  <2> QED
    BY <1>3, <1>4, <2>1, <2>2, <2>3 DEF PathOK
<1> QED
  BY <1>1, <1>3, <1>4, <1>6, <1>8, <1>9, <1>10 DEF CircOK, l

\* A step of the builder on the circuit in its hand, which becomes k.
LEMMA InHandHolds ==
    ASSUME Inv, UNCHANGED link, mds' \subseteq Relays,
           NEW c \in Circuits, NEW k, circ' = [circ EXCEPT ![c] = k], CircOK(k),
           builder' \in Builders, builder'.c = c, builder'.pc \in {"send", "wait", "exit"},
           \A d \in Circuits \ {c} : Settled(circ[d]),
           builder'.pc # "wait" => Settled(k),
           builder'.pc \in {"send", "wait"} =>
              /\ Len(k.hops) < Len(k.path)
              /\ Len(k.path) = 2 => builder'.cs.identities = {k.path[1]},
           builder'.pc = "exit" => TwoHops(k, builder'.cs),
           \/ stub' = NoStub
           \/ stub' = stub /\ (stub # NoStub => stub.c # c)
    PROVE  Inv'
<1>1. circ \in [Circuits -> Circ] /\ \A d \in Circuits : CircOK(circ[d])
  BY DEF Inv, Types
<1>2. /\ circ' \in [Circuits -> Circ] /\ \A d \in Circuits : CircOK(circ'[d])
      /\ circ'[c] = k /\ \A d \in Circuits \ {c} : circ'[d] = circ[d]
  BY <1>1, OneChanges
<1>3. NoStub \in [c : Circuits \cup {None}, cs : Cs]
  BY DEF NoStub, Cs, NoConstraints
<1>4. Types'
  BY <1>2, <1>3 DEF Inv, Types
<1>5. stub' # NoStub => /\ stub'.c \in Circuits /\ stub'.c # builder'.c
                        /\ TwoHops(circ'[stub'.c], stub'.cs)
  BY <1>2 DEF Inv, HandOK
<1>6. \A d \in Circuits : Settled(circ'[d]) \/ (builder'.c = d /\ builder'.pc = "wait")
  BY <1>2
<1>7. c # None
  BY SetupAssumption DEF SetupAssumption
<1>8. HandOK'
  BY <1>2, <1>5, <1>6, <1>7 DEF HandOK
<1> QED
  BY <1>2, <1>4, <1>8 DEF Inv, LinkInv

\* A stub that is taken has the path its constraints are made from.
LEMMA TakeStubHolds ==
    ASSUME Inv, TakeStub
    PROVE  Inv'
<1> DEFINE c == stub.c
           k == circ[c]
<1>1. /\ builder.pc = "take" /\ UNCHANGED <<link, mds>> /\ builder \in Builders /\ stub' = NoStub
      /\ circ \in [Circuits -> Circ] /\ stub # NoStub /\ Fits(stub.cs) /\ stub.cs \in Cs
      /\ mds' \subseteq Relays
  BY DEF TakeStub, At, Inv, Types, StubFits
<1>2. c \in Circuits /\ TwoHops(k, stub.cs)
  BY <1>1 DEF Inv, HandOK
<1>3. k \in Circ /\ CircOK(k) /\ Settled(k) /\ \A d \in Circuits \ {c} : Settled(circ[d])
  BY <1>1, <1>2, AllSettled DEF Inv
<1>4. CASE /\ circ' = circ
           /\ builder' = [builder EXCEPT !.pc = "exit", !.c = stub.c, !.cs = stub.cs, !.stubbed = TRUE]
  <2>1. builder' \in Builders /\ builder'.c = c /\ builder'.pc = "exit" /\ builder'.cs = stub.cs
    BY <1>1, <1>2, <1>4 DEF Builders
  <2>2. circ' = [circ EXCEPT ![c] = k]
    BY <1>1, <1>2, <1>4
  <2> HIDE DEF c, k
  <2> QED
    BY <1>1, <1>2, <1>3, <2>1, <2>2, InHandHolds
<1>5. CASE /\ builder.kind = "to"
           /\ circ' = [circ EXCEPT ![stub.c].path = Append(@, builder.last), ![stub.c].way = "fits"]
           /\ builder' = [builder EXCEPT !.pc = "send", !.c = stub.c, !.stubbed = TRUE]
  <2> DEFINE l == [k EXCEPT !.path = Append(k.path, builder.last), !.way = "fits"]
  <2>1. circ' = [circ EXCEPT ![c] = l]
    BY <1>1, <1>2, <1>5
  <2>2. builder' \in Builders /\ builder'.c = c /\ builder'.pc = "send" /\ builder.last \in Keys
    BY <1>1, <1>2, <1>5 DEF Builders
  <2>3. \A i \in stub.cs.identities : Apart(i, builder.last)
    BY <1>1, <1>5, FitsApart DEF Fits
  <2>4. /\ l \in Circ /\ CircOK(l) /\ Settled(l) /\ Len(l.hops) = 2 /\ Len(l.path) = 3
    <3> HIDE DEF k
    <3> QED
      BY <1>2, <1>3, <2>2, <2>3, ThirdHolds
  <2>5. Len(l.hops) < Len(l.path) /\ Len(l.path) # 2
    <3> HIDE DEF l
    <3> QED
      BY <2>4
  <2> HIDE DEF c, k, l
  <2> QED
    BY <1>1, <1>2, <1>3, <2>1, <2>2, <2>4, <2>5, InHandHolds
<1> QED
  BY <1>4, <1>5 DEF TakeStub

\* constrain adds the relay to the identities.
LEMMA ConstrainType ==
    ASSUME NEW cs \in Cs, NEW r \in Keys, NEW known \in SUBSET Relays
    PROVE  /\ constrain(cs, r, known) \in Cs
           /\ constrain(cs, r, known).identities = cs.identities \cup {r}
<1>1. family(r, known) \subseteq Relays
  BY PathAssumption DEF PathAssumption, family
<1> QED
  BY <1>1 DEF constrain, Cs

\* The builder goes on without a circuit.
LEMMA NoneInHand ==
    ASSUME Inv, UNCHANGED <<link, circ, stub>>, mds' \subseteq Relays,
           builder.pc # "wait", builder' \in Builders, builder'.c = None,
           builder'.pc \in {"middle", "register"},
           builder'.pc = "middle" =>
              /\ link.pc # "none"
              /\ builder'.cs.identities = {link.guard} \cup (IF builder'.kind = "to" THEN {builder'.last} ELSE {}),
           builder'.pc = "register" =>
              /\ Len(builder'.path) \in {1, 2, 3}
              /\ PathOK(builder'.path, IF builder'.kind = "to" THEN "named" ELSE None)
              /\ Len(builder'.path) = 2 => builder'.cs.identities = {builder'.path[1]}
    PROVE  Inv'
<1>1. Types' /\ LinkInv' /\ \A c \in Circuits : CircOK(circ'[c])
  BY DEF Inv, Types, LinkInv
<1>2. \A c \in Circuits : Settled(circ'[c])
  BY AllSettled
<1>3. stub' # NoStub => /\ stub'.c \in Circuits /\ stub'.c # builder'.c
                        /\ TwoHops(circ'[stub'.c], stub'.cs)
  BY SetupAssumption DEF Inv, HandOK, SetupAssumption
<1>4. HandOK'
  BY <1>2, <1>3 DEF HandOK
<1> QED
  BY <1>1, <1>4 DEF Inv

\* The link is opened without touching a circuit.
LEMMA GuardConnectHolds ==
    ASSUME Inv, GuardConnect
    PROVE  Inv'
<1>1. builder.pc = "channel" /\ link.pc = "none" /\ UNCHANGED <<builder, circ, stub>>
  BY DEF GuardConnect, At
<1>2. PICK g \in guard_candidates : /\ Connect(g, IF g \in Ed THEN g ELSE Nobody)
                                    /\ mds' = Kept({g} \ mds, {g} \ mds)
  BY DEF GuardConnect
<1>3. g \in Relays
  BY DEF guard_candidates
<1>4. mds' \subseteq Relays
  BY <1>2, <1>3 DEF Kept, Inv, Types
<1>5. LinkInv'
  <2>1. PICK peer \in {g} \cup Impostors :
          link' = [NoLink EXCEPT !.pc = "versions", !.guard = g, !.peer = peer,
                                 !.want = IF g \in Ed THEN g ELSE Nobody]
    BY <1>2 DEF Connect
  <2> DEFINE want == IF g \in Ed THEN g ELSE Nobody
  <2>2. want \in Relays \cup {Nobody}
    BY <1>3
  <2> HIDE DEF want
  <2>3. link' = [pc |-> "versions", guard |-> g, want |-> want, peer |-> peer,
                 id |-> Nobody, read |-> 0]
    BY <2>1 DEF NoLink, want
  <2> QED
    BY <1>3, <2>2, <2>3 DEF LinkInv
<1>6. \A c \in Circuits : Same(circ[c], circ'[c])
  BY <1>1 DEF Same
<1>7. HandOK'
  BY <1>1, <1>6, HandKeeps
<1> QED
  BY <1>1, <1>4, <1>5, <1>7 DEF Inv, Types

\* The guard is the first relay of the path and of the constraints.
LEMMA GuardChannelHolds ==
    ASSUME Inv, GuardChannel
    PROVE  Inv'
<1>1. /\ builder.pc = "channel" /\ UNCHANGED <<link, stub, mds>> /\ builder \in Builders
      /\ mds \subseteq Relays /\ mds' \subseteq Relays
  BY DEF GuardChannel, At, Inv, Types
<1>2. CASE Failed(InHand)
  BY <1>1, <1>2, FailedHolds, InHandType
<1>3. CASE link.pc = "up" /\ UNCHANGED circ
  <2> DEFINE guarded == constrain(NoConstraints, link.guard, mds)
             both    == constrain(guarded, builder.last, mds)
  <2>0. builder.c = None
    BY <1>1 DEF Inv, HandOK
  <2>1. link.guard \in Keys /\ link.id \in Keys /\ builder.last \in Keys
    BY <1>1 DEF Inv, LinkInv, Keys, Builders
  <2>2. NoConstraints \in Cs /\ NoConstraints.identities = {}
    BY DEF NoConstraints, Cs
  <2>3. guarded \in Cs /\ guarded.identities = {link.guard}
    BY <1>1, <2>1, <2>2, ConstrainType
  <2> HIDE DEF guarded
  <2>4. both \in Cs /\ both.identities = {link.guard} \cup {builder.last}
    BY <1>1, <2>1, <2>3, ConstrainType
  <2> HIDE DEF both
  <2>5. builder' = CASE builder.kind = "fast" -> [builder EXCEPT !.pc = "register", !.path = <<link.id>>]
                     [] builder.kind = "to"   -> [builder EXCEPT !.pc = "middle", !.cs = both]
                     [] OTHER -> [builder EXCEPT !.pc = "middle", !.cs = guarded]
    BY <1>3 DEF GuardChannel, guarded, both
  <2>6. CASE builder.kind = "fast"
    <3>1. builder' = [builder EXCEPT !.pc = "register", !.path = <<link.id>>]
      BY <2>5, <2>6
    <3>2. <<link.id>> \in Seq(Keys) /\ Len(<<link.id>>) = 1
      BY <2>1
    <3>3. /\ builder' \in Builders /\ builder'.c = None /\ builder'.pc = "register"
          /\ builder'.path = <<link.id>>
      BY <1>1, <2>0, <3>1, <3>2 DEF Builders
    <3>4. Len(builder'.path) = 1
      BY <3>2, <3>3
    <3>5. \A w : PathOK(builder'.path, w)
      BY <3>4 DEF PathOK
    <3> QED
      BY <1>1, <1>3, <3>3, <3>4, <3>5, NoneInHand
  <2>7. CASE builder.kind = "to"
    <3>1. builder' = [builder EXCEPT !.pc = "middle", !.cs = both]
      BY <2>5, <2>7
    <3>2. /\ builder' \in Builders /\ builder'.c = None /\ builder'.pc = "middle"
          /\ builder'.cs = both /\ builder'.kind = "to" /\ builder'.last = builder.last
      BY <1>1, <2>0, <2>4, <2>7, <3>1 DEF Builders
    <3> QED
      BY <1>1, <1>3, <2>4, <3>2, NoneInHand
  <2>8. CASE builder.kind \notin {"fast", "to"}
    <3>1. builder' = [builder EXCEPT !.pc = "middle", !.cs = guarded]
      BY <2>5, <2>8
    <3>2. /\ builder' \in Builders /\ builder'.c = None /\ builder'.pc = "middle"
          /\ builder'.cs = guarded /\ builder'.kind # "to"
      BY <1>1, <2>0, <2>3, <2>8, <3>1 DEF Builders
    <3> QED
      BY <1>1, <1>3, <2>3, <3>2, NoneInHand
  <2> QED
    BY <2>6, <2>7, <2>8
<1> QED
  BY <1>2, <1>3 DEF GuardChannel

\* The sequences a path is made of.
LEMMA PathOfThree ==
    ASSUME NEW a \in Keys, NEW b \in Keys, NEW d \in Keys
    PROVE  /\ <<a, b>> \o <<>> = <<a, b>> /\ <<a, b>> \in Seq(Keys) /\ Len(<<a, b>>) = 2
           /\ <<a, b>> \o <<d>> = <<a, b, d>> /\ <<a, b, d>> \in Seq(Keys) /\ Len(<<a, b, d>>) = 3
<1>1. <<a, b>> \in Seq(Keys) /\ Len(<<a, b>>) = 2
  OBVIOUS
<1>2. <<a, b, d>> \in Seq(Keys) /\ Len(<<a, b, d>>) = 3
  OBVIOUS
<1>3. <<a, b>> \o <<>> = <<a, b>>
  BY <1>1, ConcatEmptySeq
<1>4. <<a, b>> \o <<d>> = Append(<<a, b>>, d)
  BY <1>1, AppendIsConcat
<1>5. Append(<<a, b>>, d) = <<a, b, d>>
  <2> DEFINE p == <<a, b>>
             q == <<a, b, d>>
  <2>1. /\ Append(p, d) \in Seq(Keys) /\ Len(Append(p, d)) = 3
        /\ Append(p, d)[1] = p[1] /\ Append(p, d)[2] = p[2] /\ Append(p, d)[3] = d
    BY <1>1, AppendTwo
  <2>2. p[1] = a /\ p[2] = b /\ q[1] = a /\ q[2] = b /\ q[3] = d
    OBVIOUS
  <2>3. q \in Seq(Keys) /\ Len(q) = 3
    BY <1>2
  <2> DEFINE s == Append(p, d)
  <2> HIDE DEF p, q
  <2>4. s \in Seq(Keys) /\ Len(s) = Len(q) /\ s[1] = q[1] /\ s[2] = q[2] /\ s[3] = q[3]
    BY <2>1, <2>2, <2>3
  <2> HIDE DEF s
  <2>5. \A i \in 1..Len(s) : s[i] = q[i]
    BY <2>3, <2>4
  <2>6. s = q
    BY <2>3, <2>4, <2>5, SeqEqual
  <2> QED
    BY <2>6 DEF s, p, q
<1> QED
  BY <1>1, <1>2, <1>3, <1>4, <1>5

\* The middle relay is apart from the guard.
LEMMA ChooseMiddleHolds ==
    ASSUME Inv, ChooseMiddle
    PROVE  Inv'
<1>1. builder.pc = "middle" /\ UNCHANGED <<link, stub>> /\ builder \in Builders /\ builder.c = None
  BY DEF ChooseMiddle, At, Inv, Types, HandOK
<1> DEFINE tail == IF builder.kind = "to" THEN <<builder.last>> ELSE <<>>
<1>2. PICK sample \in Samples(middle_candidates(builder.cs), MiddleSample, "Middle") :
      \E known \in Known(sample) :
          /\ load_microdescs(sample, known)
          /\ \/ Failed(InHand)
             \/ \E r \in Drawn(Fitting(known), "Middle") :
                   /\ builder' = [builder EXCEPT !.pc = "register", !.path = <<link.guard, r>> \o tail]
                   /\ UNCHANGED circ
  BY DEF ChooseMiddle
<1>3. PICK known \in Known(sample) :
          /\ load_microdescs(sample, known)
          /\ \/ Failed(InHand)
             \/ \E r \in Drawn(Fitting(known), "Middle") :
                   /\ builder' = [builder EXCEPT !.pc = "register", !.path = <<link.guard, r>> \o tail]
                   /\ UNCHANGED circ
  BY <1>2
<1>4. sample \in SUBSET Relays /\ known \subseteq Relays
  BY SamplesIn DEF middle_candidates, Known
<1>5. mds' \subseteq Relays
  BY <1>3, <1>4, LoadHolds DEF Inv, Types
<1>6. CASE Failed(InHand)
  BY <1>1, <1>5, <1>6, FailedHolds, InHandType
<1>7. ASSUME NEW r \in Drawn(Fitting(known), "Middle"), UNCHANGED circ,
             builder' = [builder EXCEPT !.pc = "register", !.path = <<link.guard, r>> \o tail]
      PROVE  Inv'
  <2>1. r \in Keys /\ accepts(builder.cs, r)
    BY <1>4 DEF Drawn, Fitting, Keys
  <2>2. /\ builder.cs.identities = {link.guard} \cup (IF builder.kind = "to" THEN {builder.last} ELSE {})
        /\ link.guard \in Keys /\ builder.last \in Keys
    BY <1>1 DEF Inv, HandOK, LinkInv, Keys, Builders
  <2>3. Apart(link.guard, r) /\ ~Mutual(link.guard, r)
    BY <2>1, <2>2, AcceptsApart
  <2>4. CASE builder.kind = "to"
    <3> DEFINE p == <<link.guard, r, builder.last>>
    <3>1. Apart(r, builder.last) /\ ~Mutual(r, builder.last)
      BY <2>1, <2>2, <2>4, AcceptsApart
    <3>2. p \in Seq(Keys) /\ Len(p) = 3 /\ builder' = [builder EXCEPT !.pc = "register", !.path = p]
      BY <1>7, <2>1, <2>2, <2>4, PathOfThree
    <3>3. p[1] = link.guard /\ p[2] = r /\ p[3] = builder.last
      OBVIOUS
    <3> HIDE DEF p
    <3>4. /\ builder' \in Builders /\ builder'.c = None /\ builder'.pc = "register"
          /\ builder'.path = p /\ builder'.kind = "to"
      BY <1>1, <2>4, <3>2 DEF Builders
    <3>5. PathOK(builder'.path, "named")
      BY <2>3, <3>1, <3>2, <3>3, <3>4 DEF PathOK
    <3> QED
      BY <1>1, <1>5, <1>7, <3>2, <3>4, <3>5, NoneInHand
  <2>5. CASE builder.kind # "to"
    <3> DEFINE p == <<link.guard, r>>
    <3>1. p \in Seq(Keys) /\ Len(p) = 2 /\ builder' = [builder EXCEPT !.pc = "register", !.path = p]
      BY <1>7, <2>1, <2>2, <2>5, PathOfThree
    <3>2. p[1] = link.guard /\ p[2] = r
      OBVIOUS
    <3> HIDE DEF p
    <3>3. /\ builder' \in Builders /\ builder'.c = None /\ builder'.pc = "register"
          /\ builder'.path = p /\ builder'.kind = builder.kind /\ builder'.cs = builder.cs
      BY <1>1, <3>1 DEF Builders
    <3>4. PathOK(builder'.path, None)
      BY <2>3, <3>1, <3>2, <3>3 DEF PathOK
    <3>5. builder'.cs.identities = {builder'.path[1]}
      BY <2>2, <2>5, <3>2, <3>3
    <3> QED
      BY <1>1, <1>5, <1>7, <2>5, <3>1, <3>3, <3>4, <3>5, NoneInHand
  <2> QED
    BY <2>4, <2>5
<1> QED
  BY <1>3, <1>6, <1>7

\* The exit is apart from guard and middle.
LEMMA ChooseExitHolds ==
    ASSUME Inv, ChooseExit
    PROVE  Inv'
<1> DEFINE c == builder.c
           k == circ[c]
<1>1. /\ builder.pc = "exit" /\ UNCHANGED <<link, stub>> /\ builder \in Builders
      /\ circ \in [Circuits -> Circ]
  BY DEF ChooseExit, At, Inv, Types
<1>2. c \in Circuits /\ TwoHops(k, builder.cs)
  BY <1>1 DEF Inv, HandOK, Builders
<1>3. PICK sample \in Samples(exit_candidates(builder.cs), ExitSample, "Exit") :
      \E known \in Known(sample) :
          /\ load_microdescs(sample, known)
          /\ \/ Failed(InHand)
             \/ \E r \in Drawn(Best(Fitting(known)), "Exit") :
                   /\ builder' = [builder EXCEPT !.pc = "send"]
                   /\ circ' = [circ EXCEPT ![builder.c].path = Append(@, r), ![builder.c].way = "exit"]
  BY DEF ChooseExit
<1>4. PICK known \in Known(sample) :
          /\ load_microdescs(sample, known)
          /\ \/ Failed(InHand)
             \/ \E r \in Drawn(Best(Fitting(known)), "Exit") :
                   /\ builder' = [builder EXCEPT !.pc = "send"]
                   /\ circ' = [circ EXCEPT ![builder.c].path = Append(@, r), ![builder.c].way = "exit"]
  BY <1>3
<1>5. sample \in SUBSET Relays /\ known \subseteq Relays
  BY SamplesIn DEF exit_candidates, Known
<1>6. mds' \subseteq Relays
  BY <1>4, <1>5, LoadHolds DEF Inv, Types
<1>7. CASE Failed(InHand)
  BY <1>1, <1>6, <1>7, FailedHolds, InHandType
<1>8. ASSUME NEW r \in Drawn(Best(Fitting(known)), "Exit"),
             builder' = [builder EXCEPT !.pc = "send"],
             circ' = [circ EXCEPT ![builder.c].path = Append(@, r), ![builder.c].way = "exit"]
      PROVE  Inv'
  <2> DEFINE l == [k EXCEPT !.path = Append(k.path, r), !.way = "exit"]
  <2>1. r \in Keys /\ accepts(builder.cs, r)
    BY <1>5 DEF Drawn, Best, Fitting, Keys
  <2>2. \A i \in builder.cs.identities : Apart(i, r) /\ ~Mutual(i, r)
    BY <2>1, AcceptsApart
  <2>3. /\ builder' \in Builders /\ builder'.c = c /\ builder'.pc = "send"
    BY <1>1, <1>8 DEF Builders
  <2>4. circ' = [circ EXCEPT ![c] = l]
    BY <1>1, <1>2, <1>8
  <2>5. /\ k \in Circ /\ CircOK(k) /\ \A d \in Circuits : Settled(circ[d])
        /\ stub # NoStub => stub.c # c
    BY <1>1, <1>2, AllSettled DEF Inv, HandOK
  <2>6. /\ l \in Circ /\ CircOK(l) /\ Settled(l) /\ Len(l.hops) = 2 /\ Len(l.path) = 3
    <3>1. Settled(k)
      BY <1>2, <2>5
    <3> HIDE DEF k
    <3> QED
      BY <1>2, <2>1, <2>2, <2>5, <3>1, ThirdHolds
  <2> HIDE DEF c, k, l
  <2>7. Len(l.hops) < Len(l.path) /\ Len(l.path) # 2
    BY <2>6
  <2> QED
    BY <1>1, <1>2, <1>6, <2>3, <2>4, <2>5, <2>6, <2>7, InHandHolds
<1> QED
  BY <1>4, <1>7, <1>8

\* A circuit is registered empty.
LEMMA RegisterHolds ==
    ASSUME Inv, Register
    PROVE  Inv'
<1> DEFINE c == CHOOSE d \in Circuits : circ[d] = Unused
           way == IF builder.kind = "to" THEN "named" ELSE None
           l == [Unused EXCEPT !.state = "open", !.registered = TRUE, !.pump = "runs",
                               !.path = builder.path, !.way = way]
<1>1. /\ builder.pc = "register" /\ UNCHANGED <<link, stub, mds>> /\ builder \in Builders
      /\ circ \in [Circuits -> Circ] /\ mds' \subseteq Relays
  BY DEF Register, At, Inv, Types
<1>2. c \in Circuits /\ circ[c] = Unused
  BY DEF Register
<1>3. /\ circ' = [circ EXCEPT ![c].state = "open", ![c].registered = TRUE, ![c].pump = "runs",
                              ![c].path = builder.path, ![c].way = way]
      /\ builder' = [builder EXCEPT !.pc = "send", !.c = c, !.path = <<>>]
  BY DEF Register
<1> HIDE DEF c
<1>4. circ' = [circ EXCEPT ![c] = l]
  <2> HIDE DEF way
  <2> QED
    BY <1>1, <1>2, <1>3
<1>5. /\ builder.path \in Seq(Keys) /\ Len(builder.path) \in {1, 2, 3} /\ PathOK(builder.path, way)
      /\ Len(builder.path) = 2 => builder.cs.identities = {builder.path[1]}
  BY <1>1 DEF Inv, HandOK, Builders
<1>6. way \in {None, "exit", "fits", "named"}
  OBVIOUS
<1> HIDE DEF way
<1>7. /\ l \in Circ /\ l.path = builder.path /\ l.way = way /\ l.hops = <<>> /\ l.far = <<>>
      /\ l.rx = <<>> /\ l.slot = NoReply /\ l.req = NoReq /\ l.flow = Windows /\ l.farflow = Windows
  BY <1>5, <1>6, UnusedType DEF Circ, Unused
<1> HIDE DEF l
<1>8. CircOK(l) /\ Settled(l)
  <2>1. HopsOK(l) /\ ReqOK(l) /\ PathOK(l.path, l.way) /\ Settled(l)
    BY <1>5, <1>7 DEF HopsOK, ReqOK, Settled
  <2>2. CellsOK(l)
    BY <1>7, Kinds DEF CellsOK
  <2> QED
    BY <1>7, <2>1, <2>2 DEF CircOK
<1>9. builder' \in Builders /\ builder'.c = c /\ builder'.pc = "send" /\ builder'.cs = builder.cs
  <2>1. <<>> \in Seq(Keys)
    BY EmptySeq
  <2> QED
    BY <1>1, <1>2, <1>3, <2>1 DEF Builders
<1>10. /\ Len(l.hops) < Len(l.path)
       /\ Len(l.path) = 2 => builder'.cs.identities = {l.path[1]}
  <2>1. Len(l.hops) = 0
    BY <1>7
  <2>2. Len(l.path) \in {1, 2, 3}
    BY <1>5, <1>7
  <2>3. Len(l.hops) < Len(l.path)
    BY <2>1, <2>2
  <2>4. Len(l.path) = 2 => builder'.cs.identities = {l.path[1]}
    <3>1. l.path = builder.path /\ builder'.cs.identities = builder.cs.identities
      BY <1>7, <1>9
    <3> QED
      BY <1>5, <3>1
  <2> QED
    BY <2>3, <2>4
<1>11. (\A d \in Circuits : Settled(circ[d])) /\ (stub # NoStub => stub.c # c)
  <2>1. stub # NoStub => TwoHops(circ[stub.c], stub.cs)
    BY DEF Inv, HandOK
  <2>2. \A cs : ~TwoHops(Unused, cs)
    <3>1. Unused.hops = <<>>
      BY DEF Unused
    <3> QED
      BY <3>1 DEF TwoHops
  <2> QED
    BY <1>1, <1>2, <2>1, <2>2, AllSettled
<1> QED
  BY <1>1, <1>2, <1>4, <1>8, <1>9, <1>10, <1>11, InHandHolds

\* A request is numbered by the hop it asks for.
LEMMA SendHolds ==
    ASSUME Inv, Send
    PROVE  Inv'
<1> DEFINE c == builder.c
           k == circ[c]
           n == Len(k.hops) + 1
           q == [to |-> k.path[n], x |-> n, asks |-> AsksAt(k, n)]
           l == [k EXCEPT !.req = q]
<1>1. /\ builder.pc = "send" /\ UNCHANGED <<link, stub, mds>> /\ builder \in Builders
      /\ circ \in [Circuits -> Circ] /\ mds' \subseteq Relays
  BY DEF Send, At, Inv, Types
<1>2. c \in Circuits
  BY <1>1 DEF Inv, HandOK, Builders
<1>3. /\ k \in Circ /\ CircOK(k) /\ \A d \in Circuits : Settled(circ[d])
      /\ stub # NoStub => stub.c # c
  BY <1>1, <1>2, AllSettled DEF Inv, HandOK
<1>4. CASE Failed(k)
  BY <1>1, <1>3, <1>4, FailedHolds
<1>5. CASE /\ circ' = [circ EXCEPT ![c].req = [to |-> k.path[NextHop(k)], x |-> NextHop(k), asks |-> Asks(k)]]
           /\ builder' = [builder EXCEPT !.pc = "wait"]
  <2>1. circ' = [circ EXCEPT ![c] = l]
    BY <1>1, <1>2, <1>5 DEF NextHop, Asks, AsksAt
  <2>2. /\ Len(k.hops) < Len(k.path)
        /\ Len(k.path) = 2 => builder.cs.identities = {k.path[1]}
    BY <1>1 DEF Inv, HandOK
  <2>3. k.path \in Seq(Keys) /\ Len(k.path) \in Nat /\ Len(k.hops) \in Nat
    <3>1. k.path \in Seq(Keys) /\ k.hops \in Seq(Keys \X Nat)
      BY <1>3 DEF Circ
    <3> QED
      BY <3>1, LenProperties
  <2>4. Settled(k)
    BY <1>2, <1>3
  <2> HIDE DEF c, k
  <2>5. n \in 1..Len(k.path) /\ n \in Nat
    BY <2>2, <2>3
  <2>6. q \in Reqs
    <3>1. k.path[n] \in Keys
      BY <2>3, <2>5, ElementOfSeq
    <3>2. AsksAt(k, n) \in BOOLEAN
      BY DEF AsksAt
    <3> QED
      BY <2>5, <3>1, <3>2 DEF Reqs
  <2>7. q.to = k.path[n] /\ q.x = n /\ (q.asks <=> AsksAt(k, n))
    OBVIOUS
  <2> HIDE DEF q
  <2>8. /\ l \in Circ /\ l.req = q /\ l.path = k.path /\ l.way = k.way /\ l.hops = k.hops
        /\ l.far = k.far /\ l.flow = k.flow /\ l.farflow = k.farflow /\ l.rx = k.rx /\ l.slot = k.slot
    BY <1>3, <2>6 DEF Circ
  <2> HIDE DEF l
  <2>9. CircOK(l)
    <3>1. \A x : AsksAt(l, x) <=> AsksAt(k, x)
      BY <2>8 DEF AsksAt
    <3>2. HopsOK(l)
      BY <1>3, <2>8, <3>1 DEF CircOK, HopsOK
    <3>3. \A cell : Genuine(l, cell) <=> Genuine(k, cell)
      BY <2>8, <3>1 DEF Genuine
    <3>4. CellsOK(l)
      BY <1>3, <2>8, <3>3 DEF CircOK, CellsOK
    <3>5. ReqOK(l)
      BY <2>2, <2>4, <2>7, <2>8, <3>1 DEF ReqOK, Settled
    <3> QED
      BY <1>3, <2>8, <3>2, <3>4, <3>5 DEF CircOK
  <2>10. builder' \in Builders /\ builder'.c = c /\ builder'.pc = "wait" /\ builder'.cs = builder.cs
    BY <1>1, <1>5 DEF Builders, c
  <2>11. /\ Len(l.hops) < Len(l.path)
         /\ Len(l.path) = 2 => builder'.cs.identities = {l.path[1]}
    BY <2>2, <2>8, <2>10
  <2> QED
    BY <1>1, <1>2, <1>3, <2>1, <2>9, <2>10, <2>11, InHandHolds
<1> QED
  BY <1>4, <1>5 DEF Send

\* The third relay's increment, if the client can adopt it, is the one the relay runs.
LEMMA AdoptedScheme ==
    ASSUME NEW msg \in Int, adopted(msg) # Malformed
    PROVE  adopted(msg) = Scheme(msg)
BY SetupAssumption DEF SetupAssumption, adopted, Scheme, Declined, Malformed, Windows

\* The increment that is adopted is a number.
LEMMA AdoptedType ==
    ASSUME NEW msg \in Int
    PROVE  adopted(msg) \in Int
BY DEF adopted, Windows, Malformed

\* The reply that was taken.
LEMMA TakenHolds ==
    ASSUME NEW k \in Circ, CircOK(k)
    PROVE  LET l == [k EXCEPT !.slot = NoReply] IN
           l \in Circ /\ CircOK(l) /\ Same(k, l) /\ l.rx = k.rx /\ l.slot = NoReply
<1> DEFINE l == [k EXCEPT !.slot = NoReply]
<1>1. l \in Circ /\ Same(k, l) /\ l.rx = k.rx /\ l.slot = NoReply
  BY DEF Circ, Same
<1> HIDE DEF l
<1>2. \A i \in 1..Len(l.rx) : l.rx[i] \in Reps => Genuine(k, l.rx[i])
  BY <1>1 DEF CircOK, CellsOK
<1>3. CircOK(l)
  BY <1>1, <1>2, Kinds, SameHolds
<1> QED
  BY <1>1, <1>3 DEF l

\* A reply that finish lets through is the answer of the relay that was meant, in the handshake
\* that is under way: nothing else that can be in the slot passes.
LEMMA FinishGenuine ==
    ASSUME NEW k \in Circ, CircOK(k), NEW reply \in Reps, Genuine(k, reply),
           Len(k.hops) < Len(k.path), finish(k, reply),
           Asks(k) => reply.msg = reply.covers
    PROVE  /\ Len(k.far) = Len(k.hops) + 1 /\ k.far[Len(k.far)][1] = k.path[Len(k.far)]
           /\ reply.msg = k.far[Len(k.far)][3] /\ k.req = NoReq
<1>1. /\ Len(k.hops) \in Nat /\ Len(k.far) \in Nat /\ Len(k.path) \in Nat
      /\ Len(k.far) <= Len(k.hops) + 1 /\ Len(k.hops) <= Len(k.far)
  <2>1. k.path \in Seq(Keys) /\ k.hops \in Seq(Keys \X Nat) /\ k.far \in Seq(Keys \X Nat \X Int)
    BY DEF Circ
  <2>2. Len(k.far) <= Len(k.hops) + 1 /\ Len(k.hops) <= Len(k.far)
    BY DEF CircOK, HopsOK
  <2> QED
    BY <2>1, <2>2, LenProperties
<1> DEFINE n == Len(k.hops) + 1
<1>2. reply.x = n /\ reply.key = k.path[n] /\ (AsksAt(k, n) => reply.msg = reply.covers)
  BY DEF finish, NextHop, Asks, AsksAt
<1>3. n \in 1..Len(k.path) /\ n # 0
  BY <1>1
<1>4. /\ n \in 1..Len(k.far) /\ reply.key = k.far[n][1]
      /\ reply.covers = k.far[n][3] /\ reply.msg = reply.covers
  BY <1>2, <1>3 DEF Genuine
<1>5. Len(k.far) = n
  BY <1>1, <1>4
<1>6. k.req = NoReq
  BY <1>1, <1>5 DEF CircOK, ReqOK
<1> QED
  BY <1>2, <1>4, <1>5, <1>6

\* The client's hop for it, and the scheme it settles on.
LEMMA HopHolds ==
    ASSUME NEW k \in Circ, CircOK(k), Len(k.hops) < Len(k.path), k.req = NoReq,
           Len(k.far) = Len(k.hops) + 1, k.far[Len(k.far)][1] = k.path[Len(k.far)],
           NEW flow \in Int, flow = Scheme(k.far[Len(k.far)][3])
    PROVE  LET n == Len(k.hops) + 1
               l == [k EXCEPT !.hops = Append(k.hops, <<k.path[n], n>>), !.flow = flow]
           IN  /\ l \in Circ /\ CircOK(l) /\ Settled(l)
               /\ l.path = k.path /\ Len(l.hops) = n
<1> DEFINE n == Len(k.hops) + 1
           h == <<k.path[n], n>>
           l == [k EXCEPT !.hops = Append(k.hops, h), !.flow = flow]
<1>1. k.path \in Seq(Keys) /\ k.hops \in Seq(Keys \X Nat) /\ k.far \in Seq(Keys \X Nat \X Int)
  BY DEF Circ
<1>2. Len(k.hops) \in Nat /\ Len(k.path) \in Nat /\ n \in Nat /\ n \in 1..Len(k.path)
  BY <1>1, LenProperties
<1>3. k.path[n] \in Keys /\ h \in Keys \X Nat
  <2>1. k.path[n] \in Keys
    BY <1>1, <1>2, ElementOfSeq
  <2> QED
    BY <1>2, <2>1
<1>4. /\ Append(k.hops, h) \in Seq(Keys \X Nat) /\ Len(Append(k.hops, h)) = n
      /\ \A i \in 1..Len(k.hops) : Append(k.hops, h)[i] = k.hops[i]
      /\ Append(k.hops, h)[n] = h
  BY <1>1, <1>3, AppendLen
<1>5. /\ l \in Circ /\ l.hops = Append(k.hops, h) /\ l.flow = flow /\ l.path = k.path /\ l.way = k.way
      /\ l.far = k.far /\ l.req = k.req /\ l.farflow = k.farflow /\ l.rx = k.rx /\ l.slot = k.slot
  BY <1>4 DEF Circ
<1> HIDE DEF l
<1>6. Len(l.hops) = n /\ l.hops[n] = h /\ \A i \in 1..Len(k.hops) : l.hops[i] = k.hops[i]
  BY <1>4, <1>5
<1>7. \A x : AsksAt(l, x) <=> AsksAt(k, x)
  BY <1>5 DEF AsksAt
<1>8. HopsOK(l)
  <2>1. Len(l.hops) <= Len(l.far) /\ Len(l.far) <= Len(l.hops) + 1 /\ Len(l.far) <= Len(l.path)
    BY <1>2, <1>5, <1>6
  <2>2. \A x \in 1..Len(l.far) : l.far[x][2] = x /\ (l.far[x][3] # Declined => AsksAt(l, x))
    BY <1>5, <1>7 DEF CircOK, HopsOK
  <2>3. ASSUME NEW x \in 1..Len(l.hops)
        PROVE  l.hops[x] = <<l.far[x][1], x>> /\ l.far[x][1] = l.path[x]
    <3>1. x \in 1..Len(k.hops) \/ x = n
      BY <1>2, <1>6
    <3>2. CASE x \in 1..Len(k.hops)
      BY <1>5, <1>6, <3>2 DEF CircOK, HopsOK
    <3>3. CASE x = n
      BY <1>5, <1>6, <3>3
    <3> QED
      BY <3>1, <3>2, <3>3
  <2>4. /\ l.farflow = IF Len(l.far) = 0 THEN Windows ELSE Scheme(l.far[Len(l.far)][3])
        /\ Len(l.far) # 0 /\ l.flow = Scheme(l.far[Len(l.far)][3])
    BY <1>2, <1>5 DEF CircOK, HopsOK
  <2> QED
    BY <2>1, <2>2, <2>3, <2>4 DEF HopsOK
<1>9. \A cell : Genuine(l, cell) <=> Genuine(k, cell)
  BY <1>5, <1>7 DEF Genuine
<1>10. CellsOK(l)
  BY <1>5, <1>9 DEF CircOK, CellsOK
<1>11. ReqOK(l) /\ Settled(l)
  BY <1>5, <1>6 DEF ReqOK, Settled
<1> QED
  BY <1>5, <1>6, <1>8, <1>10, <1>11 DEF CircOK, l

\* A reply that finish accepts comes from the relay that was asked.
LEMMA WaitTakesHolds ==
    ASSUME Inv, WaitTakes
    PROVE  Inv'
<1> DEFINE c     == builder.c
           k     == circ[c]
           taken == [k EXCEPT !.slot = NoReply]
           flow  == IF Asks(taken) THEN adopted(k.slot.msg) ELSE Windows
           done  == IF Asks(taken) THEN finish_v3(taken, k.slot) ELSE finish(taken, k.slot)
           hop   == [taken EXCEPT !.hops = Append(taken.hops, <<taken.path[NextHop(taken)], NextHop(taken)>>)]
           l     == [hop EXCEPT !.flow = flow]
<1>1. /\ builder.pc = "wait" /\ UNCHANGED <<link, mds>> /\ builder \in Builders
      /\ circ \in [Circuits -> Circ] /\ mds' \subseteq Relays /\ mds \subseteq Relays
      /\ k.slot # NoReply
  BY DEF WaitTakes, At, Inv, Types
<1>2. c \in Circuits
  BY <1>1 DEF Inv, HandOK, Builders
<1>3. /\ k \in Circ /\ CircOK(k) /\ \A d \in Circuits \ {c} : Settled(circ[d])
      /\ stub # NoStub => stub.c # c
      /\ Len(k.hops) < Len(k.path)
      /\ Len(k.path) = 2 => builder.cs.identities = {k.path[1]}
  BY <1>1, <1>2 DEF Inv, HandOK
<1>4. k.slot \in Reps /\ Genuine(k, k.slot) /\ k.slot.msg \in Int
  <2>1. k.slot \in Reps
    BY <1>1, <1>3 DEF Circ
  <2>2. k.slot.msg \in Int
    BY <2>1 DEF Reps
  <2> QED
    BY <1>3, <2>1, <2>2 DEF CircOK, CellsOK
<1>5. \/ done /\ flow # Malformed /\ circ' = [circ EXCEPT ![c] = l] /\ HopDone(hop)
      \/ done /\ Failed(hop) /\ UNCHANGED stub
      \/ Failed(taken) /\ UNCHANGED stub
  BY DEF WaitTakes
<1> HIDE DEF c, k
<1>6. taken \in Circ /\ CircOK(taken) /\ Same(k, taken)
  BY <1>3, TakenHolds
<1> DEFINE reply == k.slot
<1> HIDE DEF taken, reply
<1>7. /\ Genuine(taken, reply) /\ reply \in Reps /\ Len(taken.hops) < Len(taken.path)
      /\ taken.path = k.path /\ reply.msg \in Int
  BY <1>3, <1>4, <1>6 DEF Same, Genuine, AsksAt, reply
<1>8. CASE Failed(taken) /\ UNCHANGED stub
  BY <1>1, <1>6, <1>8, FailedHolds
<1>9. CASE done
  <2>1. finish(taken, reply) /\ (Asks(taken) => reply.msg = reply.covers)
    BY <1>9 DEF finish_v3, reply
  <2>2. /\ Len(taken.far) = Len(taken.hops) + 1
        /\ taken.far[Len(taken.far)][1] = taken.path[Len(taken.far)]
        /\ reply.msg = taken.far[Len(taken.far)][3] /\ taken.req = NoReq
    BY <1>6, <1>7, <2>1, FinishGenuine
  <2>3. hop \in Circ
    <3> DEFINE n == Len(taken.hops) + 1
               h == <<taken.path[n], n>>
    <3>1. taken.path \in Seq(Keys) /\ taken.hops \in Seq(Keys \X Nat)
      BY <1>6 DEF Circ
    <3>2. n \in 1..Len(taken.path) /\ n \in Nat
      BY <1>7, <3>1, LenProperties
    <3>3. taken.path[n] \in Keys
      BY <3>1, <3>2, ElementOfSeq
    <3>4. h \in Keys \X Nat
      BY <3>2, <3>3
    <3>5. Append(taken.hops, h) \in Seq(Keys \X Nat)
      BY <3>1, <3>4, AppendLen
    <3>6. hop = [taken EXCEPT !.hops = Append(taken.hops, h)]
      BY DEF NextHop
    <3> HIDE DEF h, hop
    <3> QED
      BY <1>6, <3>5, <3>6 DEF Circ
  <2>4. CASE Failed(hop) /\ UNCHANGED stub
    BY <1>1, <2>3, <2>4, FailedHolds
  <2>5. CASE flow # Malformed /\ circ' = [circ EXCEPT ![c] = l] /\ HopDone(hop)
    <3>1. flow = Scheme(taken.far[Len(taken.far)][3]) /\ flow \in Int
      <4>1. CASE Asks(taken)
        BY <1>7, <2>2, <2>5, <4>1, AdoptedScheme, AdoptedType DEF reply
      <4>2. CASE ~Asks(taken)
        <5>1. taken.far \in Seq(Keys \X Nat \X Int) /\ taken.hops \in Seq(Keys \X Nat)
          BY <1>6 DEF Circ
        <5>2. Len(taken.far) \in 1..Len(taken.far)
          BY <2>2, <5>1, LenProperties
        <5>3. ~AsksAt(taken, Len(taken.far))
          BY <2>2, <4>2 DEF Asks, AsksAt, NextHop
        <5>4. taken.far[Len(taken.far)][3] = Declined
          BY <1>6, <5>2, <5>3 DEF CircOK, HopsOK
        <5> QED
          BY <4>2, <5>4 DEF Scheme, Windows
      <4> QED
        BY <4>1, <4>2
    <3> HIDE DEF flow
    <3> DEFINE n == Len(taken.hops) + 1
    <3>2. l = [taken EXCEPT !.hops = Append(taken.hops, <<taken.path[n], n>>), !.flow = flow]
      BY <1>6 DEF NextHop, Circ
    <3>3. l \in Circ /\ CircOK(l) /\ Settled(l) /\ l.path = taken.path /\ Len(l.hops) = n
      <4> HIDE DEF l
      <4> QED
        BY <1>6, <1>7, <2>2, <3>1, <3>2, HopHolds
    <3>4. hop.path = l.path /\ hop.hops = l.hops
      BY <2>3 DEF Circ
    <3>5. l.path = k.path /\ Len(l.hops) \in Nat /\ Len(l.path) \in Nat /\ Len(l.hops) <= Len(l.path)
          /\ Len(l.hops) >= 1 /\ l.path \in Seq(Keys)
      <4>1. taken.hops \in Seq(Keys \X Nat) /\ l.path \in Seq(Keys)
        BY <1>6, <3>3 DEF Circ
      <4>2. Len(taken.hops) \in Nat /\ Len(l.path) \in Nat
        BY <4>1, LenProperties
      <4> QED
        BY <1>7, <3>3, <4>1, <4>2
    <3> DEFINE cs == constrain(builder.cs, l.path[Len(l.hops)], mds)
    <3> HIDE DEF l, hop
    <3>6. /\ cs \in Cs
          /\ Len(l.hops) = 2 /\ Len(l.path) = 2 => TwoHops(l, cs)
      <4>1. l.path[Len(l.hops)] \in Keys /\ builder.cs \in Cs
        BY <1>1, <3>5, ElementOfSeq DEF Builders
      <4>2. cs \in Cs /\ cs.identities = builder.cs.identities \cup {l.path[Len(l.hops)]}
        BY <1>1, <4>1, ConstrainType
      <4>3. Len(l.path) = 2 => builder.cs.identities = {l.path[1]}
        BY <1>3, <3>5
      <4> HIDE DEF cs
      <4> QED
        BY <4>2, <4>3 DEF TwoHops
    <3> HIDE DEF cs
    <3>7. \/ Len(l.hops) < Len(l.path) /\ builder' = [builder EXCEPT !.pc = "send"] /\ stub' = stub
          \/ /\ Len(l.hops) = 2 /\ Len(l.path) = 2
             /\ builder' = [builder EXCEPT !.pc = "exit", !.cs = cs] /\ stub' = stub
          \/ /\ Len(l.hops) = 2 /\ Len(l.path) = 2
             /\ builder' = Idle /\ stub' = [c |-> builder.c, cs |-> cs]
          \/ builder' = Idle /\ stub' = stub
      BY <2>5, <3>4 DEF HopDone, cs
    <3>8. CASE Len(l.hops) < Len(l.path) /\ builder' = [builder EXCEPT !.pc = "send"] /\ stub' = stub
      <4>1. builder' \in Builders /\ builder'.c = c /\ builder'.pc = "send" /\ builder'.cs = builder.cs
        BY <1>1, <3>8 DEF Builders, c
      <4>2. Len(l.path) = 2 => builder'.cs.identities = {l.path[1]}
        BY <1>3, <3>5, <4>1
      <4> QED
        BY <1>1, <1>2, <1>3, <2>5, <3>3, <3>8, <4>1, <4>2, InHandHolds
    <3>9. CASE /\ Len(l.hops) = 2 /\ Len(l.path) = 2
               /\ builder' = [builder EXCEPT !.pc = "exit", !.cs = cs] /\ stub' = stub
      <4>1. builder' \in Builders /\ builder'.c = c /\ builder'.pc = "exit" /\ builder'.cs = cs
        BY <1>1, <3>6, <3>9 DEF Builders, c
      <4>2. TwoHops(l, cs)
        BY <3>6, <3>9
      <4> QED
        BY <1>1, <1>2, <1>3, <2>5, <3>3, <3>9, <4>1, <4>2, InHandHolds
    <3>10. /\ circ' \in [Circuits -> Circ] /\ \A d \in Circuits : CircOK(circ'[d])
           /\ circ'[c] = l /\ \A d \in Circuits \ {c} : circ'[d] = circ[d]
      BY <1>1, <1>2, <2>5, <3>3, OneChanges DEF Inv
    <3>11. \A d \in Circuits : CircOK(circ'[d]) /\ Settled(circ'[d])
      BY <1>3, <3>3, <3>10
    <3>12. CASE /\ Len(l.hops) = 2 /\ Len(l.path) = 2
                /\ builder' = Idle /\ stub' = [c |-> builder.c, cs |-> cs]
      <4>1. TwoHops(l, cs)
        BY <3>6, <3>12
      <4>2. stub'.c = c /\ stub'.cs = cs /\ stub' \in [c : Circuits \cup {None}, cs : Cs]
        BY <1>2, <3>6, <3>12 DEF c
      <4>3. TwoHops(circ'[stub'.c], stub'.cs)
        BY <3>10, <4>1, <4>2
      <4>4. /\ builder' \in Builders /\ builder'.pc \in {"idle", "take", "channel"} /\ builder'.c = None
        BY <3>12, IdleBuilder
      <4> QED
        BY <1>1, <1>2, <3>10, <3>11, <4>2, <4>3, <4>4, EmptyHanded
    <3>13. CASE builder' = Idle /\ stub' = stub
      <4>1. stub # NoStub => circ'[stub.c] = circ[stub.c]
        BY <1>3, <3>10 DEF Inv, HandOK
      <4>2. /\ builder' \in Builders /\ builder'.pc \in {"idle", "take", "channel"} /\ builder'.c = None
        BY <3>13, IdleBuilder
      <4> QED
        BY <1>1, <3>10, <3>11, <3>13, <4>1, <4>2, EmptyHanded
    <3> QED
      BY <3>7, <3>8, <3>9, <3>12, <3>13
  <2> QED
    BY <1>5, <1>8, <2>4, <2>5
<1> QED
  BY <1>5, <1>8, <1>9

\* A wait that fails closes the circuit.
LEMMA WaitFailsHolds ==
    ASSUME Inv, WaitFails
    PROVE  Inv'
<1>1. Failed(InHand) /\ UNCHANGED <<link, stub, mds>> /\ mds' \subseteq Relays
  BY DEF WaitFails, Inv, Types
<1> QED
  BY <1>1, FailedHolds, InHandType

\* A download that fails closes the circuit.
LEMMA LoadFailsHolds ==
    ASSUME Inv, LoadFails
    PROVE  Inv'
<1>1. Failed(InHand) /\ UNCHANGED <<link, stub, mds>> /\ mds' \subseteq Relays
  BY DEF LoadFails, Inv, Types
<1> QED
  BY <1>1, FailedHolds, InHandType

-----------------------------------------------------------------------------
(***************************************************************************)
(* The invariant, and what follows from it.                                *)
(***************************************************************************)

\* The invariant holds at the start.
LEMMA InitHolds ==
    ASSUME Init
    PROVE  Inv
<1>1. LinkInv
  BY DEF Init, LinkInit, NoLink, LinkInv
<1>2. Types
  <2>1. NoStub \in [c : Circuits \cup {None}, cs : Cs]
    BY DEF NoStub, Cs, NoConstraints
  <2> QED
    BY <2>1, IdleBuilder, UnusedType DEF Init, Types
<1>3. \A c \in Circuits : CircOK(circ[c]) /\ Settled(circ[c])
  BY UnusedHolds DEF Init
<1>4. HandOK
  <2>1. builder.pc = "idle" /\ builder.c = None /\ stub = NoStub
    BY IdleBuilder DEF Init
  <2> QED
    BY <1>3, <2>1 DEF HandOK
<1> QED
  BY <1>1, <1>2, <1>3, <1>4 DEF Inv

\* In every state of the specification each circuit's two ends agree on what they have
\* done, every reply under way is accounted for, only the circuit in the builder's hand
\* has a request under way, and the constraints are those of the path.
THEOREM Invariant == Spec => []Inv
<1>1. Init => Inv
  BY InitHolds
<1>2. Inv /\ [Next]_vars => Inv'
  <2> SUFFICES ASSUME Inv, [Next]_vars PROVE Inv'
    OBVIOUS
  <2>1. CASE Start \/ StartRendezvous
    BY <2>1, StartHolds, StartRendezvousHolds
  <2>2. CASE Builds
    BY <2>2, TakeStubHolds, NoStubFitsHolds, GuardConnectHolds, GuardChannelHolds, ChooseMiddleHolds,
       ChooseExitHolds, LoadFailsHolds, RegisterHolds, SendHolds, WaitTakesHolds, WaitFailsHolds
    DEF Builds
  <2>3. CASE LinkSteps \/ LinkCleared
    BY <2>3, LinkStepsHolds, LinkClearedHolds
  <2>4. CASE Network
    BY <2>4, AnswerHolds, DisturbHolds DEF Network
  <2>5. CASE \E c \in Circuits : PumpStep(c) \/ Release(c)
    BY <2>5, PumpStepHolds, ReleaseHolds
  <2>6. CASE UNCHANGED vars
    BY <2>6 DEF vars, Inv, LinkInv, Types, HandOK
  <2> QED
    BY <2>1, <2>2, <2>3, <2>4, <2>5, <2>6 DEF Next
<1> QED
  BY <1>1, <1>2, PTL DEF Spec

\* A channel that is up leads to the relay whose identity it says, and to the one asked
\* for if its identity was known, whatever certificates the other end sends.
THEOREM LinkAuthentic == Spec => []LinkProven
<1>1. Inv => LinkProven
  BY DEF Inv, LinkInv, LinkProven
<1> QED
  BY <1>1, Invariant, PTL

\* No circuit is ever laid through two relays of one /16 or of one declared family, at the
\* places where the code promises it.
THEOREM PathsApart == Spec => []PathApart
<1>1. Inv => PathApart
  BY DEF Inv, CircOK, PathOK, PathApart
<1> QED
  BY <1>1, Invariant, PTL

\* Every hop the client encrypts for is the relay it chose, with the keys of the very
\* handshake they did: no reply that is forged, repeated or out of turn adds a hop.
THEOREM HopsMatch == Spec => []HopsAgree
<1>1. Inv => HopsAgree
  <2> SUFFICES ASSUME Inv, NEW c \in Circuits
               PROVE  LET k == circ[c] IN
                      /\ Len(k.hops) <= Len(k.far)
                      /\ \A x \in DOMAIN k.hops :
                            k.hops[x] = <<k.far[x][1], k.far[x][2]>> /\ k.hops[x][1] = k.path[x]
    BY DEF HopsAgree
  <2> DEFINE k == circ[c]
  <2>1. k \in Circ /\ HopsOK(k)
    BY DEF Inv, Types, CircOK
  <2> HIDE DEF k
  <2>2. k.hops \in Seq(Keys \X Nat) /\ k.far \in Seq(Keys \X Nat \X Int)
    BY <2>1 DEF Circ
  <2>3. /\ DOMAIN k.hops = 1..Len(k.hops) /\ Len(k.hops) \in Nat /\ Len(k.far) \in Nat
        /\ Len(k.hops) <= Len(k.far)
    BY <2>1, <2>2, LenProperties DEF HopsOK
  <2>4. ASSUME NEW x \in DOMAIN k.hops
        PROVE  k.hops[x] = <<k.far[x][1], k.far[x][2]>> /\ k.hops[x][1] = k.path[x]
    <3>1. x \in 1..Len(k.hops) /\ x \in 1..Len(k.far)
      BY <2>3
    <3> QED
      BY <2>1, <3>1 DEF HopsOK
  <2> QED
    BY <2>3, <2>4 DEF k
<1> QED
  BY <1>1, Invariant, PTL

\* A circuit that the builder has let go of is run under one scheme at both its ends.
THEOREM SchemesAgree == Spec => []SchemeAgreed
<1>1. Inv => SchemeAgreed
  BY DEF Inv, HandOK, CircOK, HopsOK, Settled, SchemeAgreed
<1> QED
  BY <1>1, Invariant, PTL
=============================================================================
