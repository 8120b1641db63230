---------------------------- MODULE CircuitSetup ----------------------------
(***************************************************************************)
(* Building circuits (build_stub, build_exit_circuit, build_circuit_to of  *)
(* src/tor/client.rs; create, extend_with, wait_for_handshake and the pump *)
(* of src/tor/circuit.rs; register_circuit and io_loop of                  *)
(* src/tor/channel.rs; src/tor/ntor.rs, src/tor/ntor_v3.rs): a thread      *)
(* builds one circuit after another on the channel to a guard, while the   *)
(* pump of each circuit takes in what the network sends, in or out of      *)
(* turn, and the channel may end at any point.                             *)
(*                                                                         *)
(* A handshake is its number on the circuit; a reply carries the key that  *)
(* authenticated it, the handshake and the message it was made for.        *)
(***************************************************************************)
EXTENDS Link, Sequences

CONSTANTS Circuits,
          Ends,          \* relays a job may be told to end at
          Ed,            \* relays whose Ed25519 identity the directory gives
          Ports, Policy, \* the ports an exit is wanted for, and those each relay lets out
          MiddleSample, ExitSample, RendezvousSample, MaxCached,
          CcAlg, SendmeInc,   \* cc_alg and cc_sendme_inc of the consensus
          CcAnswers,     \* what a far end that speaks it may say: an increment,
                         \* Declined, or Malformed
          MaxJobs, MaxFaults

Declined  == -1
Malformed == -2
Windows   == 0
None      == "none"

ASSUME SetupAssumption ==
    /\ {SendmeInc, MaxJobs, MaxFaults, MaxCached} \subseteq Nat
    /\ CcAnswers \subseteq Int /\ None \notin Circuits

VARIABLES
    builder,  \* pc, kind (stub, to, exit, fast), last (where a circuit is to end), cs
              \* (its constraints), path (the relays chosen), c (the circuit in hand),
              \* stubbed (it was a stub)
    circ,     \* each circuit: state, pump, registered; path (the relays it is meant to have),
              \* way (how its last one was chosen), hops (the handshakes completed), slot
              \* (handshake), rx (cells for the pump), flow; and at the other end: req (the
              \* request under way), far (the hops there are), farflow
    stub,     \* the pool's stub: its circuit and constraints
    mds,      \* microdescs
    jobs, faults

vars == <<link, builder, circ, stub, mds, jobs, faults>>

NoReply == [cell |-> None]
NoReq   == [to |-> None]
NoStub  == [c |-> None, cs |-> NoConstraints]
Idle    == [pc |-> "idle", kind |-> None, last |-> None, cs |-> NoConstraints,
            path |-> <<>>, c |-> None, stubbed |-> FALSE]
Unused  == [state |-> "unused", pump |-> "ended", registered |-> FALSE, path |-> <<>>, way |-> None,
            hops |-> <<>>, slot |-> NoReply, rx |-> <<>>, flow |-> Windows, req |-> NoReq,
            far |-> <<>>, farflow |-> Windows]

Init ==
    /\ LinkInit /\ builder = Idle /\ circ = [c \in Circuits |-> Unused] /\ stub = NoStub
    /\ mds = {} /\ jobs = 0 /\ faults = 0

At(where) == builder.pc = where
Fault     == faults < MaxFaults /\ faults' = faults + 1
Fine      == UNCHANGED faults

-----------------------------------------------------------------------------
(* The circuit.                                                            *)

\* Circuit::close by whoever holds the circuit; one its pump has closed is closed already.
\* Nobody looks at its contents any more.
close(k) == [Unused EXCEPT !.state = "closed", !.pump = k.pump]

\* The end of the pump: whatever the reason, the circuit is closed and forgotten.
PumpEnded(k) == [k EXCEPT !.state = "closed", !.registered = FALSE, !.pump = "ended", !.rx = <<>>]

\* handle_cell: a reply fills the slot, whoever it is from and whatever is in it;
\* a DESTROY, a TRUNCATED or a malformed cell ends the circuit; other cells do nothing here.
Handled(k) ==
    LET cell == Head(k.rx)
        rest == [k EXCEPT !.rx = Tail(@)]
    IN  CASE k.state = "closed" \/ cell.cell = "destroy" -> PumpEnded(k)
          [] k.state # "closed" /\ cell.cell = "reply"   -> [rest EXCEPT !.slot = cell]
          [] k.state # "closed" /\ cell.cell = "other"   -> rest

\* pump: the next cell, or the end once nobody can send any more.
PumpStep(c) ==
    /\ circ[c].pump = "runs" /\ (circ[c].rx # <<>> \/ ~circ[c].registered)
    /\ LET k == IF circ[c].rx = <<>> THEN PumpEnded(circ[c]) ELSE Handled(circ[c]) IN
       circ' = [circ EXCEPT ![c] = IF k.pump = "ended" /\ c \notin {builder.c, stub.c}
                                   THEN close(k) ELSE k]
    /\ UNCHANGED <<link, builder, stub, mds, jobs, faults>>

\* deliver: a cell for a circuit that is not registered is dropped.
Deliver(k, cell) == IF k.registered THEN [k EXCEPT !.rx = Append(@, cell)] ELSE k

-----------------------------------------------------------------------------
(* The channel.                                                            *)

LinkSteps ==
    /\ Handshake \/ LinkEnds
    /\ UNCHANGED <<builder, circ, stub, mds, jobs, faults>>

\* Every circuit's sender is dropped.
LinkCleared ==
    /\ link.pc = "ended" /\ LinkGoto("down")
    /\ circ' = [c \in Circuits |-> [circ[c] EXCEPT !.registered = FALSE]]
    /\ UNCHANGED <<builder, stub, mds, jobs, faults>>

-----------------------------------------------------------------------------
(* Relays and what lies between.                                           *)

\* A reply carries a message, which over ntor-v3 its authenticator covers with the
\* relay's key and the handshake.
Reply(key, x, msg) == [cell |-> "reply", key |-> key, x |-> x, covers |-> msg, msg |-> msg]
Destroy == [cell |-> "destroy"]
Other   == [cell |-> "other"]
Garbled == Reply(None, 0, Declined)

\* The relay does the handshake: the first is whoever is at the end of the link, the
\* others are reached by their identity.  Asked for congestion control, it takes it
\* up and says its increment, or declines.
Answer(c) ==
    LET k   == circ[c]
        req == k.req
        key == IF req.x = 1 THEN link.peer ELSE req.to
        Done(msg, scheme) ==
            circ' = [circ EXCEPT ![c] = Deliver([k EXCEPT !.req = NoReq, !.farflow = scheme,
                                                          !.far = Append(k.far, <<key, req.x, msg>>)],
                                                Reply(key, req.x, msg))]
    IN  /\ req # NoReq /\ link.pc = "up"
        /\ IF req.asks THEN \E msg \in CcAnswers :
                               Done(msg, IF msg \in {Declined, Malformed} THEN Windows ELSE msg)
           ELSE Done(Declined, Windows)
        /\ UNCHANGED <<link, builder, stub, mds, jobs, faults>>

\* By a fault a relay on the way ends the circuit, sends what is no reply, repeats an
\* earlier reply, answers in place of the relay that was asked, or alters its message.
Disturb(c) ==
    LET k == circ[c]
        Repeats  == {Reply(k.far[i][1], i, k.far[i][3]) : i \in DOMAIN k.far}
        InPlace  == IF k.req = NoReq THEN {} ELSE {Reply(r, k.req.x, Declined) : r \in Relays \ {k.req.to}}
        Altered  == IF k.req = NoReq \/ ~k.req.asks THEN {} ELSE
                    {[Reply(k.req.to, k.req.x, Declined) EXCEPT !.msg = m] : m \in CcAnswers \ {Declined}}
    IN  /\ k.registered /\ link.pc = "up" /\ Fault
        /\ \E cell \in {Destroy, Other, Garbled} \cup Repeats \cup InPlace \cup Altered :
              circ' = [circ EXCEPT ![c] = Deliver(@, cell)]
        /\ UNCHANGED <<link, builder, stub, mds, jobs>>

-----------------------------------------------------------------------------
(* Microdescriptors.                                                       *)

\* load_microdescs: those not in memory are fetched; memory is emptied rather than
\* let grow past its limit.
Kept(missing, fetched) ==
    IF missing = {} THEN mds
    ELSE IF Cardinality(mds) + Cardinality(fetched) > MaxCached THEN fetched ELSE mds \cup fetched

\* The relays of a sample whose microdescriptors may be known once those that are
\* missing were asked for; it is a fault if some do not come.
Known(sample) == {known \in SUBSET sample : sample \cap mds \subseteq known}

load_microdescs(sample, known) ==
    /\ IF known = sample THEN Fine ELSE Fault
    /\ mds' = Kept(sample \ mds, known \ mds)

-----------------------------------------------------------------------------
(* A job: stub, to, exit or fast.                                          *)

Start ==
    /\ At("idle") /\ jobs < MaxJobs /\ jobs' = jobs + 1
    /\ \E kind \in {"stub", "to", "exit", "fast"} :
       \E last \in (IF kind = "to" THEN Ends ELSE {None}) :
          /\ kind = "stub" => stub = NoStub
          /\ builder' = [Idle EXCEPT !.kind = kind, !.last = last,
                                     !.pc = IF kind \in {"to", "exit"} THEN "take" ELSE "channel"]
    /\ UNCHANGED <<link, circ, stub, mds, faults>>

\* choose_rendezvous_point, for a job that ends there: a relay whose microdescriptor came
\* and that fits with the guard, unless there was no guard to be had at that moment.
StartRendezvous ==
    /\ At("idle") /\ jobs < MaxJobs /\ jobs' = jobs + 1 /\ link.pc = "up"
    /\ \E cs \in {constrain(NoConstraints, link.guard, mds), NoConstraints} :
       \E sample \in Samples(rendezvous_candidates(cs), RendezvousSample, "Middle") :
       \E known \in Known(sample) :
          /\ load_microdescs(sample, known)
          /\ \/ known = {} /\ builder' = Idle
             \/ \E last \in Drawn(known, "Middle") :
                   builder' = [Idle EXCEPT !.kind = "to", !.last = last, !.pc = "take"]
    /\ UNCHANGED <<link, circ, stub>>

\* take_stub: a stub that fits the end, if it is named; one that is closed is let go.
Live(c)  == circ[c].state = "open" /\ link.pc = "up"
Fits(cs) ==
    builder.kind = "to" =>
        accepts_relay(cs, builder.last, family(builder.last, mds))

StubFits == stub # NoStub /\ Live(stub.c) /\ Fits(stub.cs)

TakeStub ==
    /\ At("take") /\ StubFits
    /\ \/ /\ builder.kind = "exit" /\ UNCHANGED circ
          /\ builder' = [builder EXCEPT !.pc = "exit", !.c = stub.c, !.cs = stub.cs, !.stubbed = TRUE]
       \/ /\ builder.kind = "to"
          /\ circ' = [circ EXCEPT ![stub.c].path = Append(@, builder.last), ![stub.c].way = "fits"]
          /\ builder' = [builder EXCEPT !.pc = "send", !.c = stub.c, !.stubbed = TRUE]
    /\ stub' = NoStub
    /\ UNCHANGED <<link, mds, jobs, faults>>

NoStubFits ==
    /\ At("take") /\ ~StubFits
    /\ builder' = [builder EXCEPT !.pc = "channel"]
    /\ IF stub # NoStub /\ ~Live(stub.c)
       THEN stub' = NoStub /\ circ' = [circ EXCEPT ![stub.c] = close(@)]
       ELSE UNCHANGED <<stub, circ>>
    /\ UNCHANGED <<link, mds, jobs, faults>>

\* Mutant of Failed: the circuit is not closed.
FailedOpen(k) ==
    /\ builder' = IF builder.stubbed
                  THEN [Idle EXCEPT !.kind = builder.kind, !.last = builder.last, !.pc = "channel"]
                  ELSE Idle
    /\ UNCHANGED circ

\* The job fails, and its circuit, now k, is closed; but if that was a stub, the job goes
\* on with a circuit of its own.
Failed(k) ==
    /\ builder' = IF builder.stubbed
                  THEN [Idle EXCEPT !.kind = builder.kind, !.last = builder.last, !.pc = "channel"]
                  ELSE Idle
    /\ circ' = IF builder.c = None THEN circ ELSE [circ EXCEPT ![builder.c] = close(k)]

InHand == IF builder.c = None THEN Unused ELSE circ[builder.c]

-----------------------------------------------------------------------------
(* The channel and the choice of relays.                                   *)

\* guard_channel: the channel there is, or a new one to some guard.
GuardConnect ==
    /\ At("channel") /\ link.pc = "none"
    /\ \E g \in guard_candidates :
          /\ Connect(g, IF g \in Ed THEN g ELSE Nobody)
          /\ mds' = Kept({g} \ mds, {g} \ mds)
    /\ UNCHANGED <<builder, circ, stub, jobs, faults>>

GuardChannel ==
    /\ At("channel")
    /\ \/ /\ link.pc = "up"
          /\ LET guarded == constrain(NoConstraints, link.guard, mds) IN
             builder' = CASE builder.kind = "fast" -> [builder EXCEPT !.pc = "register", !.path = <<link.id>>]
                          [] builder.kind = "to"   -> [builder EXCEPT !.pc = "middle",
                                                                      !.cs = constrain(guarded, builder.last, mds)]
                          [] OTHER -> [builder EXCEPT !.pc = "middle", !.cs = guarded]
          /\ UNCHANGED circ
       \/ link.pc \in {"ended", "down"} /\ Failed(InHand)
    /\ UNCHANGED <<link, stub, mds, jobs, faults>>

\* Those that still fit, now that their microdescriptors are known.
Fitting(known) == {r \in known : accepts(builder.cs, r)}

ChooseMiddle ==
    /\ At("middle")
    /\ \E sample \in Samples(middle_candidates(builder.cs), MiddleSample, "Middle") :
       \E known \in Known(sample) :
          /\ load_microdescs(sample, known)
          /\ \/ Fitting(known) = {} /\ Failed(InHand)
             \/ \E r \in Drawn(Fitting(known), "Middle") :
                   /\ builder' = [builder EXCEPT !.pc = "register",
                                    !.path = <<link.guard, r>> \o IF builder.kind = "to"
                                                                  THEN <<builder.last>> ELSE <<>>]
                   /\ UNCHANGED circ
    /\ UNCHANGED <<link, stub, jobs>>

\* PortPolicy::allows.
allows(r, port) == port \in Policy[r]

\* extend_to_exit: an exit that lets out all the ports if there is one, or else some.
Best(rs) ==
    LET all  == {r \in rs : \A p \in Ports : allows(r, p)}
        some == {r \in rs : \E p \in Ports : allows(r, p)}
    IN  IF all # {} THEN all ELSE some

ChooseExit ==
    /\ At("exit")
    /\ \E sample \in Samples(exit_candidates(builder.cs), ExitSample, "Exit") :
       \E known \in Known(sample) :
          /\ load_microdescs(sample, known)
          /\ \/ Best(Fitting(known)) = {} /\ Failed(InHand)
             \/ \E r \in Drawn(Best(Fitting(known)), "Exit") :
                   /\ builder' = [builder EXCEPT !.pc = "send"]
                   /\ circ' = [circ EXCEPT ![builder.c].path = Append(@, r), ![builder.c].way = "exit"]
    /\ UNCHANGED <<link, stub, jobs>>

\* load_microdescs fails: no directory circuit, or the fetch.
LoadFails ==
    /\ builder.pc \in {"middle", "exit"} /\ Fault /\ Failed(InHand)
    /\ UNCHANGED <<link, stub, mds, jobs>>

-----------------------------------------------------------------------------
(* create and extend.                                                      *)

\* new_on: a circuit ID of those there are, and a pump.  Whether the channel is closed is not looked at.
Register ==
    /\ At("register") /\ \E d \in Circuits : circ[d] = Unused
    /\ LET c == CHOOSE d \in Circuits : circ[d] = Unused IN
       /\ circ' = [circ EXCEPT ![c].state = "open", ![c].registered = TRUE, ![c].pump = "runs",
                               ![c].path = builder.path,
                               ![c].way = IF builder.kind = "to" THEN "named" ELSE None]
       /\ builder' = [builder EXCEPT !.pc = "send", !.c = c, !.path = <<>>]
    /\ UNCHANGED <<link, stub, mds, jobs, faults>>

\* The next hop; congestion control is asked for of an exit, over ntor-v3.
NextHop(k) == Len(k.hops) + 1
Asks(k)    == k.way = "exit" /\ NextHop(k) = 3 /\ CcAlg = 2 /\ k.path[3] \in Ed

\* CREATE_FAST, CREATE2 or EXTEND2.
Send ==
    LET c == builder.c
        k == circ[c]
    IN  /\ At("send")
        /\ \/ /\ link.pc = "up"
              /\ circ' = [circ EXCEPT ![c].req = [to |-> k.path[NextHop(k)], x |-> NextHop(k), asks |-> Asks(k)]]
              /\ builder' = [builder EXCEPT !.pc = "wait"]
           \/ link.pc # "up" /\ Failed(k)
        /\ UNCHANGED <<link, stub, mds, jobs, faults>>

\* Mutant of finish: the reply is not authenticated.
finishAny(k, reply) == TRUE

\* finish: the reply is by the relay that was meant, for this handshake.
finish(k, reply) == reply.key = k.path[NextHop(k)] /\ reply.x = NextHop(k)

\* Over ntor-v3, and the message is the one it sent.
finish_v3(k, reply) == finish(k, reply) /\ reply.msg = reply.covers

\* Mutant of adopted: an increment that does not fit is taken to mean windows.
adoptedLax(msg) == IF msg > 0 /\ msg * 2 >= SendmeInc /\ msg <= SendmeInc * 2 THEN msg ELSE Windows

\* adopt_congestion_control: windows if there is no answer, an error if it is not one
\* byte, zero or far from the consensus.
adopted(msg) ==
    CASE msg = Declined -> Windows
      [] msg > 0 /\ msg * 2 >= SendmeInc /\ msg <= SendmeInc * 2 -> msg
      [] OTHER -> Malformed

\* After a hop: the next, the exit still to be chosen, the stub into the pool, or done.
HopDone(k) ==
    LET cs == constrain(builder.cs, k.path[Len(k.hops)], mds) IN
    CASE Len(k.hops) < Len(k.path) -> builder' = [builder EXCEPT !.pc = "send"] /\ UNCHANGED stub
      [] Len(k.hops) = 2 /\ Len(k.path) = 2 /\ builder.kind = "exit" ->
             builder' = [builder EXCEPT !.pc = "exit", !.cs = cs] /\ UNCHANGED stub
      [] Len(k.hops) = 2 /\ Len(k.path) = 2 /\ builder.kind = "stub" ->
             builder' = Idle /\ stub' = [c |-> builder.c, cs |-> cs]
      [] OTHER -> builder' = Idle /\ UNCHANGED stub

\* wait_for_handshake takes the reply there is, whether the circuit is closed or not.
WaitTakes ==
    LET c     == builder.c
        taken == [circ[c] EXCEPT !.slot = NoReply]
        flow  == IF Asks(taken) THEN adopted(circ[c].slot.msg) ELSE Windows
        done  == IF Asks(taken) THEN finish_v3(taken, circ[c].slot) ELSE finish(taken, circ[c].slot)
        hop   == [taken EXCEPT !.hops = Append(@, <<taken.path[NextHop(taken)], NextHop(taken)>>)]
    IN  /\ At("wait") /\ circ[c].slot # NoReply
        /\ \/ /\ done /\ flow # Malformed
              /\ circ' = [circ EXCEPT ![c] = [hop EXCEPT !.flow = flow]]
              /\ HopDone(hop)
           \/ /\ done /\ flow = Malformed
              /\ Failed(hop) /\ UNCHANGED stub
           \/ /\ ~done
              /\ Failed(taken) /\ UNCHANGED stub
        /\ UNCHANGED <<link, mds, jobs, faults>>

\* It finds the circuit closed, or is out of time.
WaitFails ==
    /\ At("wait") /\ circ[builder.c].slot = NoReply /\ Failed(InHand)
    /\ UNCHANGED <<link, stub, mds, jobs, faults>>

\* Whoever uses a circuit is done with it.
Release(c) ==
    /\ circ[c].state = "open" /\ c \notin {builder.c, stub.c}
    /\ circ' = [circ EXCEPT ![c] = close(@)]
    /\ UNCHANGED <<link, builder, stub, mds, jobs, faults>>

Builds == \/ TakeStub \/ NoStubFits \/ GuardConnect \/ GuardChannel \/ ChooseMiddle \/ ChooseExit
          \/ LoadFails \/ Register \/ Send \/ WaitTakes \/ WaitFails

Network == \E c \in Circuits : Answer(c) \/ Disturb(c)

Next == \/ Start \/ StartRendezvous \/ Builds \/ LinkSteps \/ LinkCleared \/ Network
        \/ \E c \in Circuits : PumpStep(c) \/ Release(c)

Spec == Init /\ [][Next]_vars

\* The builder and the pumps run on, waits end at their deadlines, and the I/O thread
\* ends what it has begun to end; no reply need ever come.
FairSpec ==
    /\ Spec /\ WF_vars(Builds) /\ WF_vars(LinkCleared)
    /\ WF_vars(Handshake /\ UNCHANGED <<builder, circ, stub, mds, jobs, faults>>)
    /\ \A c \in Circuits : WF_vars(PumpStep(c))

-----------------------------------------------------------------------------
(* Properties.                                                             *)

Apart(a, b)  == a # b /\ Subnet[a] # Subnet[b]
Mutual(a, b) == a \in Declares[b] /\ b \in Declares[a]

\* No two neighbours on a path are one relay, share a /16 or declare each other as family;
\* nor are the guard and an exit.  Where the end is named by the protocol, a stub is used
\* only if its guard and middle are other relays in other /16s; a path built afresh
\* to a named relay is not checked for its guard.  The choice goes by what was
\* known when each relay was added, of which memory may have lost some since.
PathApart ==
    \A c \in Circuits :
       LET p == circ[c].path
           w == circ[c].way
       IN  /\ Len(p) >= 2 => Apart(p[1], p[2]) /\ ~Mutual(p[1], p[2])
           /\ Len(p) = 3 => /\ Apart(p[2], p[3])
                            /\ w \in {"exit", "fits"}  => Apart(p[1], p[3])
                            /\ w \in {"exit", "named"} => ~Mutual(p[2], p[3])
                            /\ w = "exit" => ~Mutual(p[1], p[3])

\* The hops the client encrypts for are the relays it chose, in that order, each
\* holding the keys of the very handshake the client completed with it: a reply that is
\* forged, repeated, from another relay or out of turn never adds a hop.
HopsAgree ==
    \A c \in Circuits :
       LET k == circ[c] IN
       /\ Len(k.hops) <= Len(k.far)
       /\ \A x \in DOMAIN k.hops : k.hops[x] = <<k.far[x][1], k.far[x][2]>> /\ k.hops[x][1] = k.path[x]

\* A circuit in use runs under one scheme: both ends count windows, or both run
\* congestion control with the same increment.
SchemeAgreed ==
    \A c \in Circuits :
       circ[c].state = "open" /\ c # builder.c => circ[c].flow = circ[c].farflow

\* Whatever is lost, every job comes to its end; and a circuit that is closed, or
\* whose channel is, loses its pump and its place in the channel's table, even one that was
\* registered after that table had been cleared.
Settles ==
    /\ ~At("idle") ~> At("idle")
    /\ \A c \in Circuits :
          (circ[c].state = "closed" \/ link.pc = "down")
             ~> (circ[c].pump = "ended" /\ ~circ[c].registered)
=============================================================================
