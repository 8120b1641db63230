-------------------------------- MODULE Pool --------------------------------
(***************************************************************************)
(* The circuit pool (src/tor/pool.rs) and the threads that use it:         *)
(*                                                                         *)
(*   Requesters  threads inside TorClient::connect: circuit_for, or a      *)
(*               circuit built and inserted, then begin_stream             *)
(*   Builder     the circuit-builder thread, which plans what is missing   *)
(*   Workers     the threads it builds with, up to BUILD_PARALLEL of them  *)
(*   Maintainer  the maintenance thread, which probes circuits on which a  *)
(*               reader waits                                              *)
(*                                                                         *)
(* and, whoever calls them, clear and take_blame.  Each action is one hold *)
(* of the pool's lock or one step without it.  The circuits a thread has   *)
(* taken off the pool are closed after it has let go of the lock, before   *)
(* it does anything else.                                                  *)
(*                                                                         *)
(* A circuit's own state (streams, delivery, closed) changes without the   *)
(* pool's lock.  All requests are for one port; fits says which circuits   *)
(* have an exit that allows it.  Onion circuits share the budget as a      *)
(* number of their own and are left at zero.                               *)
(***************************************************************************)
EXTENDS Integers, Sequences, FiniteSets, SequencesExt

CONSTANTS Circuits, Requesters, Workers, Builder, Maintainer, None,
          MaxCircuits,        \* MAX_CIRCUITS
          StubTarget,         \* STUB_TARGET
          CleanTarget,        \* CLEAN_TARGET
          SpreadCircuits,     \* SPREAD_CIRCUITS
          StreamsPerCircuit,  \* STREAMS_PER_CIRCUIT
          MaxPendingBlame,    \* MAX_PENDING_BLAME
          ConnectAttempts,    \* CONNECT_ATTEMPTS
          MaxEvents           \* bound: failures to build or begin, circuits that die, are
                              \* probed, age, measure well again or otherwise in the middle
                              \* of a sweep, and changes of guard or consensus, together

ASSUME PoolAssumption ==
    /\ {MaxCircuits, StreamsPerCircuit, MaxPendingBlame, ConnectAttempts} \subseteq Nat \ {0}
    /\ {StubTarget, CleanTarget, SpreadCircuits, MaxEvents} \subseteq Nat
    /\ IsFiniteSet(Requesters) /\ IsFiniteSet(Workers) /\ Workers # {}
    /\ Builder \notin Requesters \cup Workers /\ Requesters \cap Workers = {}
    /\ Maintainer \notin Requesters \cup Workers \cup {Builder}
    /\ None \notin Circuits

Threads == Requesters \cup Workers \cup {Builder, Maintainer}

VARIABLES
    circuits,  \* State.circuits, in the order they were put in
    stubs,     \* State.stubs, likewise
    used,      \* circuits with first_used set
    flagged,   \* circuits with Pooled.blamed set
    pending,   \* State.blamed, as the circuits that caused each entry
    born,      \* circuits that have been created and not yet forgotten
    closed,    \* circuits that are closed
    old,       \* stubs and circuits past their age
    slow,      \* circuits that measure below the floor
    fits,      \* circuits whose exit allows the port
    streams,   \* how many streams each carries
    pc, have, tries,  \* where each thread is, its circuit, its attempts
    shut,      \* circuits each thread has yet to close
    first,     \* the builder's first job
    count,     \* how often each circuit has been counted against its guard
    dropped,   \* circuits that clear took off the pool and did not close
    wavered,   \* circuits that measured well again in the middle of a sweep
    events     \* what has been used of MaxEvents

pool    == <<circuits, stubs, flagged, pending>>
health  == <<closed, old, slow, fits, streams, used>>
threads == <<pc, have, tries, shut, first>>
seen    == <<count, dropped, wavered>>
vars    == <<pool, born, health, threads, seen, events>>

Event == events < MaxEvents /\ events' = events + 1

-----------------------------------------------------------------------------
(* Judging and retiring.                                                   *)

SetOf(seq) == {seq[i] : i \in 1..Len(seq)}

\* What is left of a list once the members outside S are taken out (Vec::retain):
\* of its first i members, for each i, and of all of them.
Kept(seq, S) ==
    LET kept[i \in 0..Len(seq)] ==
            IF i = 0 THEN <<>>
            ELSE IF seq[i] \in S THEN Append(kept[i - 1], seq[i]) ELSE kept[i - 1]
    IN  kept
Retain(seq, S) == Kept(seq, S)[Len(seq)]
Without(seq, c) == Retain(seq, Circuits \ {c})

\* Pooled::verdict.
Expired(c) == c \in closed \/ c \in old
Blames(c)  == ~Expired(c) /\ c \in slow

\* A circuit that is not wanted goes once it carries nothing.
Gone(c) == (Expired(c) \/ Blames(c)) /\ streams[c] = 0

\* What State::retire keeps, and what it hands back to be closed.
KeptStubs    == Retain(stubs, {c \in Circuits : ~Expired(c)})
KeptCircuits == Retain(circuits, {c \in Circuits : ~Gone(c)})
Retired == {c \in SetOf(stubs) : Expired(c)} \cup {c \in SetOf(circuits) : Gone(c)}

\* The first n of a list.
AtMost(seq, n) == SubSeq(seq, 1, IF Len(seq) <= n THEN Len(seq) ELSE n)

\* The blame its first pass records, as far as there is room for it.
NewBlame ==
    LET fresh == Retain(circuits, {c \in Circuits \ flagged : Blames(c)})
    IN  AtMost(fresh, MaxPendingBlame - Len(pending))

\* The history counts to two: once, or more than once.
Counted(more) ==
    [c \in Circuits |-> IF c \in SetOf(more) /\ count[c] < 2 THEN count[c] + 1 ELSE count[c]]

\* The measurements of a circuit that carries a stream may change between the
\* two passes.
Judgements ==
    LET busy == {c \in SetOf(circuits) : streams[c] > 0}
    IN  {slow} \cup (IF events < MaxEvents
                     THEN {slow \ {c} : c \in busy} \cup {slow \cup {c} : c \in busy}
                     ELSE {})

\* Mutant: a circuit that stays is not marked as blamed.
RetireUnflagged(judged) ==
    /\ slow' = judged
    /\ pending' = pending \o NewBlame
    /\ count' = Counted(NewBlame)
    /\ wavered' = wavered \cup (slow \ judged)
    /\ IF judged = slow THEN UNCHANGED events ELSE Event
    /\ flagged' = flagged \ Retired

\* retire's accounting: the second pass looks at the verdicts again.  The
\* caller says what becomes of the lists.
Retire(judged) ==
    /\ slow' = judged
    /\ pending' = pending \o NewBlame
    /\ count' = Counted(NewBlame)
    /\ wavered' = wavered \cup (slow \ judged)
    /\ IF judged = slow THEN UNCHANGED events ELSE Event
    /\ flagged' = (flagged \ Retired)
                    \cup {c \in SetOf(KeptCircuits) : ~Expired(c) /\ c \in judged}

Total(cs, ss) == Len(cs) + Len(ss)

StreamLimit(allowing) == IF allowing < SpreadCircuits THEN 1 ELSE StreamsPerCircuit

\* What is left to know of circuits that are closed: a closed circuit is expired,
\* whatever its age, its measurements, its exit and its use.
Shut(cs) ==
    /\ closed' = closed \cup cs
    /\ old' = old \ cs /\ slow' = slow \ cs /\ fits' = fits \ cs /\ used' = used \ cs
    /\ streams' = [c \in Circuits |-> IF c \in cs THEN 0 ELSE streams[c]]

\* Circuit::close, for one circuit: its streams fail.
Close(c) == Shut({c})

Goto(t, where) == pc' = [pc EXCEPT ![t] = where]
Take(t, c)     == have' = [have EXCEPT ![t] = c]
ToClose(t, cs) == shut' = [shut EXCEPT ![t] = cs]
At(t, where)   == pc[t] = where /\ shut[t] = {}

Init ==
    /\ circuits = <<>> /\ stubs = <<>> /\ used = {} /\ flagged = {} /\ pending = <<>>
    /\ born = {} /\ closed = {} /\ old = {} /\ slow = {} /\ fits = {}
    /\ streams = [c \in Circuits |-> 0]
    /\ pc = [t \in Threads |-> "idle"] /\ have = [t \in Threads |-> None]
    /\ tries = [t \in Threads |-> 0] /\ shut = [t \in Threads |-> {}]
    /\ first = "none"
    /\ count = [c \in Circuits |-> 0] /\ dropped = {} /\ wavered = {}
    /\ events = 0

\* close_all, one circuit at a time and without the lock.
CloseAll(t) ==
    \E c \in shut[t] :
        /\ Close(c)
        /\ ToClose(t, shut[t] \ {c})
        /\ UNCHANGED <<pool, born, pc, have, tries, first, count, dropped, wavered, events>>

-----------------------------------------------------------------------------
(* Getting hold of a circuit: TorClient::connect and circuit_for.          *)

Connect(r) ==
    /\ At(r, "idle")
    /\ Goto(r, "pick")
    /\ UNCHANGED <<pool, born, health, have, tries, shut, first, seen, events>>

\* Pool::circuit_for: one of the least loaded, unless a new one would be better.
CircuitFor(r) ==
    /\ At(r, "pick")
    /\ \E judged \in Judgements :
       LET usable == {c \in SetOf(KeptCircuits) : ~Expired(c) /\ c \notin judged /\ c \in fits}
           room   == Total(KeptCircuits, KeptStubs) < MaxCircuits
           least  == {c \in usable : \A d \in usable : streams[c] <= streams[d]}
           full   == \A c \in least : streams[c] >= StreamLimit(Cardinality(usable))
       IN  /\ Retire(judged)
           /\ \/ /\ usable = {} \/ (full /\ room)
                 /\ Goto(r, "stub")
                 /\ UNCHANGED <<used, have>>
              \/ /\ usable # {} /\ ~(full /\ room)
                 /\ Goto(r, "begin")
                 /\ \E c \in least :
                    /\ Take(r, c)
                    /\ used' = used \cup {c}
    /\ circuits' = KeptCircuits /\ stubs' = KeptStubs
    /\ ToClose(r, Retired)
    /\ UNCHANGED <<born, closed, old, fits, streams, tries, first, dropped>>

\* Another round of connect, or its last error.
NextTry(r) ==
    IF tries[r] + 1 = ConnectAttempts
    THEN Goto(r, "idle") /\ tries' = [tries EXCEPT ![r] = 0]
    ELSE Goto(r, "pick") /\ tries' = [tries EXCEPT ![r] = @ + 1]

\* A stream ends; a circuit that is closed has none left.
Fewer(c) == IF c \in closed THEN streams ELSE [streams EXCEPT ![c] = @ - 1]

\* Circuit::begin_stream on the circuit in hand.
BeginStream(r) ==
    /\ At(r, "begin") /\ have[r] \notin closed
    /\ streams' = [streams EXCEPT ![have[r]] = @ + 1]
    /\ Goto(r, "open")
    /\ tries' = [tries EXCEPT ![r] = 0]
    /\ UNCHANGED <<pool, used, born, closed, old, slow, fits, have, shut, first, seen, events>>

\* It fails: Pool::discard, and another attempt.
BeginFails(r) ==
    /\ At(r, "begin")
    /\ IF have[r] \in closed THEN UNCHANGED events ELSE Event
    /\ circuits' = Without(circuits, have[r]) /\ stubs' = Without(stubs, have[r])
    /\ ToClose(r, {have[r]})
    /\ Take(r, None)
    /\ NextTry(r)
    /\ UNCHANGED <<used, flagged, pending, born, health, first, seen>>

\* The stream is done, or its circuit is gone.
EndStream(r) ==
    /\ At(r, "open")
    /\ streams' = Fewer(have[r])
    /\ Take(r, None)
    /\ Goto(r, "idle")
    /\ UNCHANGED <<pool, used, born, closed, old, slow, fits, tries, shut, first, seen, events>>

-----------------------------------------------------------------------------
(* Building: build_exit_circuit and build_stub, insert and add_stub.       *)

\* Mutant: the stub that is handed out stays in the list.
TakeStubShared(t) ==
    /\ At(t, "stub")
    /\ \E judged \in Judgements : Retire(judged)
    /\ circuits' = KeptCircuits /\ stubs' = KeptStubs
    /\ IF KeptStubs # <<>>
       THEN Take(t, Head(KeptStubs)) /\ Goto(t, "extend")
       ELSE UNCHANGED have /\ Goto(t, "create")
    /\ ToClose(t, Retired)
    /\ UNCHANGED <<used, born, closed, old, fits, streams, tries, first, dropped>>

\* Pool::take_stub.
TakeStub(t) ==
    /\ At(t, "stub")
    /\ \E judged \in Judgements : Retire(judged)
    /\ circuits' = KeptCircuits
    /\ IF KeptStubs # <<>>
       THEN stubs' = Tail(KeptStubs) /\ Take(t, Head(KeptStubs)) /\ Goto(t, "extend")
       ELSE stubs' = KeptStubs /\ UNCHANGED have /\ Goto(t, "create")
    /\ ToClose(t, Retired)
    /\ UNCHANGED <<used, born, closed, old, fits, streams, tries, first, dropped>>

\* extend_to_exit: a requester's exit allows the port, a worker's may not.
Extends(t, c) ==
    \/ fits' = fits \cup {c}
    \/ t \in Workers /\ fits' = fits \ {c}

ExtendStub(t) ==
    /\ At(t, "extend") /\ have[t] \notin closed
    /\ Extends(t, have[t])
    /\ Goto(t, "insert")
    /\ UNCHANGED <<pool, used, born, closed, old, slow, streams, have, tries, shut, first, seen, events>>

\* Mutant: a stub that could not be extended is not closed.
ExtendFailsOpen(t) ==
    /\ At(t, "extend")
    /\ IF have[t] \in closed THEN UNCHANGED events ELSE Event
    /\ Take(t, None)
    /\ Goto(t, "create")
    /\ UNCHANGED <<pool, born, health, tries, shut, first, seen>>

ExtendFails(t) ==
    /\ At(t, "extend")
    /\ IF have[t] \in closed THEN UNCHANGED events ELSE Event
    /\ Close(have[t])
    /\ Take(t, None)
    /\ Goto(t, "create")
    /\ UNCHANGED <<pool, born, tries, shut, first, seen>>

\* An identity is free again once its circuit is closed and nobody has it.
Referenced ==
    SetOf(circuits) \cup SetOf(stubs) \cup SetOf(pending)
        \cup {have[t] : t \in Threads} \cup UNION {shut[t] : t \in Threads}
Free == {c \in Circuits : c \notin Referenced /\ (c \in born => c \in closed)}

\* A new circuit: two hops for a stub, three for the rest.
Create(t) ==
    /\ At(t, "create") \/ At(t, "createstub")
    /\ \E c \in Free :
       /\ born' = born \cup {c}
       /\ closed' = closed \ {c} /\ old' = old \ {c} /\ slow' = slow \ {c}
       /\ used' = used \ {c} /\ flagged' = flagged \ {c}
       /\ count' = [count EXCEPT ![c] = 0]
       /\ wavered' = wavered \ {c} /\ dropped' = dropped \ {c}
       /\ Take(t, c)
       /\ IF pc[t] = "create" THEN Extends(t, c) /\ Goto(t, "insert")
          ELSE fits' = fits \ {c} /\ Goto(t, "add")
    /\ UNCHANGED <<circuits, stubs, pending, streams, tries, shut, first, events>>

CreateFails(t) ==
    /\ Event
    /\ At(t, "create") \/ At(t, "createstub")
    /\ IF t \in Requesters THEN NextTry(t) ELSE Goto(t, "idle") /\ UNCHANGED tries
    /\ UNCHANGED <<pool, born, health, have, shut, first, seen>>

\* Subtraction that stops at zero: saturating_sub.
Less(a, b) == IF a >= b THEN a - b ELSE 0

\* Mutant: one fewer is asked to go.
NeedOneShort ==
    Less(Total(KeptCircuits, KeptStubs), MaxCircuits)

\* How many have to go for one more to fit.
Need == Less(Total(KeptCircuits, KeptStubs) + 1, MaxCircuits)

\* What insert hands back to be closed, beside the retired.
Evicted(idle, spare) == SetOf(idle) \cup SetOf(spare)

\* Pool::insert: make room, idle circuits first and then stubs, the oldest
\* first; when everything carries traffic the circuit goes in all the same.
Insert(t) ==
    /\ At(t, "insert")
    /\ \E judged \in Judgements : Retire(judged)
    /\ LET idle == AtMost(Retain(KeptCircuits, {c \in Circuits : streams[c] = 0}), Need)
           spare == AtMost(KeptStubs, Need - Len(idle))
           left == Retain(KeptCircuits, Circuits \ SetOf(idle))
       IN  /\ circuits' = Append(left, have[t])
           /\ stubs' = SubSeq(KeptStubs, Len(spare) + 1, Len(KeptStubs))
           /\ ToClose(t, Retired \cup Evicted(idle, spare))
    /\ IF t \in Requesters
       THEN used' = used \cup {have[t]} /\ Goto(t, "begin") /\ UNCHANGED have
       ELSE used' = used /\ Goto(t, "idle") /\ Take(t, None)
    /\ UNCHANGED <<born, closed, old, fits, streams, tries, first, dropped>>

\* Pool::add_stub closes a stub there is no room for, holding the lock.
AddStub(t) ==
    /\ At(t, "add")
    /\ IF Total(circuits, stubs) >= MaxCircuits
       THEN Close(have[t]) /\ UNCHANGED stubs
       ELSE stubs' = Append(stubs, have[t]) /\ UNCHANGED health
    /\ Take(t, None)
    /\ Goto(t, "idle")
    /\ UNCHANGED <<circuits, flagged, pending, born, tries, shut, first, seen, events>>

-----------------------------------------------------------------------------
(* The builder: predicted_ports, next_job, next_jobs, run.                 *)

Clean == {c \in SetOf(circuits) : ~Expired(c) /\ c \notin slow /\ c \notin used /\ c \in fits}

Fewest(S) == CHOOSE n \in S : \A m \in S : n <= m

\* It plans again once every worker of the last round is done.
Sweep ==
    /\ At(Builder, "idle") /\ \A w \in Workers : At(w, "idle")
    /\ \E judged \in Judgements : Retire(judged)
    /\ circuits' = KeptCircuits /\ stubs' = KeptStubs
    /\ ToClose(Builder, Retired)
    /\ Goto(Builder, "plan")
    /\ UNCHANGED <<used, born, closed, old, fits, streams, have, tries, first, dropped>>

\* next_job: the single most useful thing to build.
Useful ==
    CASE Total(circuits, stubs) >= MaxCircuits -> "none"
      [] OTHER ->
         IF Clean = {} THEN "clean"
         ELSE IF stubs = <<>> THEN "stub"
         ELSE IF Cardinality(Clean) < CleanTarget THEN "clean"
         ELSE IF Len(stubs) < StubTarget THEN "stub" ELSE "none"

NextJob ==
    /\ At(Builder, "plan")
    /\ first' = Useful
    /\ Goto(Builder, IF first' = "none" THEN "idle" ELSE "more")
    /\ UNCHANGED <<pool, born, health, have, tries, shut, seen, events>>

\* How many further jobs next_jobs adds to the first, stubs before circuits.
MoreStubs ==
    Fewest({Less(StubTarget, Len(stubs)),
            Cardinality(Workers) - 1, Less(MaxCircuits, Total(circuits, stubs) + 1)})
MoreClean ==
    Fewest({Less(CleanTarget, Cardinality(Clean) + 1),
            Cardinality(Workers) - 1 - MoreStubs,
            Less(Less(MaxCircuits, Total(circuits, stubs) + 1), MoreStubs)})

\* next_jobs, and a worker started for each job.
NextJobs ==
    /\ At(Builder, "more")
    /\ \E stubbing \in SUBSET Workers : \E cleaning \in SUBSET (Workers \ stubbing) :
       /\ Cardinality(stubbing) = MoreStubs + (IF first = "stub" THEN 1 ELSE 0)
       /\ Cardinality(cleaning) = MoreClean + (IF first = "clean" THEN 1 ELSE 0)
       /\ pc' = [t \in Threads |->
                    IF t = Builder THEN "idle"
                    ELSE IF t \in stubbing THEN "createstub"
                    ELSE IF t \in cleaning THEN "stub" ELSE pc[t]]
    /\ first' = "none"
    /\ UNCHANGED <<pool, born, health, have, tries, shut, seen, events>>

-----------------------------------------------------------------------------
(* Probes, and what happens to circuits by themselves.                     *)

\* Pool::wanting_probe: a circuit whose reader waits.  Circuit::probe begins a stream
\* of its own on it, and ends it when something has answered ...
WantingProbe ==
    /\ Event
    /\ At(Maintainer, "idle")
    /\ \E c \in SetOf(circuits) : streams[c] > 0 /\ Take(Maintainer, c)
    /\ Goto(Maintainer, "begin")
    /\ UNCHANGED <<pool, born, health, tries, shut, first, seen>>

\* ... or when nothing has, and the circuit may be closed by then.
ProbeFails ==
    /\ \/ At(Maintainer, "begin") /\ UNCHANGED streams
       \/ At(Maintainer, "open") /\ streams' = Fewer(have[Maintainer])
    /\ Goto(Maintainer, "condemn")
    /\ UNCHANGED <<pool, used, born, closed, old, slow, fits, have, tries, shut, first, seen, events>>

\* Pool::condemn: it has failed its probe, whatever has become of it meanwhile.
Condemn ==
    /\ At(Maintainer, "condemn")
    /\ LET c == have[Maintainer]
           blame == IF c \in SetOf(circuits) \ flagged /\ Len(pending) < MaxPendingBlame
                    THEN <<c>> ELSE <<>>
       IN  /\ pending' = pending \o blame /\ count' = Counted(blame)
           /\ circuits' = Without(circuits, c)
           /\ ToClose(Maintainer, {c})
    /\ Goto(Maintainer, "idle")
    /\ Take(Maintainer, None)
    /\ UNCHANGED <<stubs, used, flagged, born, health, tries, first, dropped, wavered, events>>

\* Pool::take_blame; what becomes of it is the subject of module Guards.
TakeBlame ==
    /\ pending # <<>>
    /\ pending' = <<>>
    /\ UNCHANGED <<circuits, stubs, used, flagged, born, health, threads, seen, events>>

\* Pool::clear, after a change of guard or of consensus: stubs are closed, and
\* of the circuits those that carry streams are left.
Clear ==
    /\ Event
    /\ LET left == Retain(circuits, {c \in Circuits : streams[c] > 0})
       IN  circuits' = left /\ dropped' = dropped \cup (SetOf(circuits) \ SetOf(left))
    /\ Shut(SetOf(stubs))
    /\ stubs' = <<>>
    /\ UNCHANGED <<flagged, pending, born, threads, count, wavered>>

Alive(c) == c \in born \ closed

\* What a circuit delivers to its streams takes it below the floor, or back.
Slows(c) ==
    /\ Alive(c) /\ streams[c] > 0
    /\ \/ c \notin slow /\ slow' = slow \cup {c} /\ UNCHANGED events
       \/ Event /\ c \in slow /\ slow' = slow \ {c}
    /\ UNCHANGED <<pool, used, born, closed, old, fits, streams, threads, seen>>

Ages(c) ==
    /\ Event
    /\ Alive(c) /\ c \notin old /\ old' = old \cup {c}
    /\ UNCHANGED <<pool, used, born, closed, slow, fits, streams, threads, seen>>

Dies(c) ==
    /\ Event
    /\ Alive(c) /\ Close(c)
    /\ UNCHANGED <<pool, born, threads, seen>>

-----------------------------------------------------------------------------

Build(t) ==
    \/ TakeStub(t) \/ ExtendStub(t) \/ ExtendFails(t)
    \/ Create(t) \/ CreateFails(t) \/ Insert(t)

Requester(r) ==
    CircuitFor(r) \/ BeginStream(r) \/ BeginFails(r) \/ Build(r) \/ CloseAll(r)

Worker(w) == Build(w) \/ AddStub(w) \/ CloseAll(w)

Planner == Sweep \/ NextJob \/ NextJobs \/ CloseAll(Builder)

Prober ==
    \/ WantingProbe \/ BeginStream(Maintainer) \/ EndStream(Maintainer)
    \/ ProbeFails \/ Condemn \/ CloseAll(Maintainer)

Next ==
    \/ \E r \in Requesters : Connect(r) \/ Requester(r) \/ EndStream(r)
    \/ \E w \in Workers : Worker(w)
    \/ Planner
    \/ Prober
    \/ \E c \in Circuits : Slows(c) \/ Ages(c) \/ Dies(c)
    \/ TakeBlame \/ Clear

Spec == Init /\ [][Next]_vars

-----------------------------------------------------------------------------

Places == {"idle", "pick", "begin", "open", "stub", "extend", "create", "createstub",
           "insert", "add", "plan", "more", "condemn"}

TypeOK ==
    /\ circuits \in Seq(Circuits) /\ stubs \in Seq(Circuits) /\ pending \in Seq(Circuits)
    /\ Len(pending) <= MaxPendingBlame
    /\ used \subseteq Circuits /\ flagged \subseteq Circuits /\ born \subseteq Circuits
    /\ closed \subseteq Circuits /\ old \subseteq Circuits /\ slow \subseteq Circuits
    /\ fits \subseteq Circuits /\ dropped \subseteq Circuits /\ wavered \subseteq Circuits
    /\ streams \in [Circuits -> Nat] /\ count \in [Circuits -> 0..2]
    /\ pc \in [Threads -> Places] /\ have \in [Threads -> Circuits \cup {None}]
    /\ tries \in [Threads -> 0..ConnectAttempts - 1]
    /\ shut \in [Threads -> SUBSET Circuits]
    /\ first \in {"none", "stub", "clean"}

\* A circuit is in one place: once in the pool, or once among the stubs, or in
\* the hands of the one thread that is building it.
Building(t) == pc[t] \in {"extend", "insert", "add"}
OnePlace ==
    /\ IsInjective(circuits \o stubs)
    /\ \A t \in Threads : Building(t) =>
           /\ have[t] \notin SetOf(circuits \o stubs)
           /\ \A u \in Threads \ {t} : have[u] # have[t]

\* Whatever is added to the pool, by requesters and workers that each counted
\* the room before the others took it, passes its budget only when there is
\* nothing that could make room: no stub, and no circuit without a stream.
Added == SetOf(circuits' \o stubs') \ SetOf(circuits \o stubs)
BudgetOrBusy ==
    [][Added # {} /\ Total(circuits', stubs') > MaxCircuits
          => stubs' = <<>> /\ \A c \in SetOf(circuits') \ Added : streams[c] > 0]_vars

\* However often a circuit is swept, it is counted against its guard at most
\* once, unless its measurements changed between the two passes of retire.
BlamedOnce == \A c \in Circuits : count[c] > 1 => c \in wavered

\* Nothing but clear leaves a circuit running that nobody will close: any other
\* that is open is in the pool, or a thread is building it or about to close it.
NoneLost ==
    \A c \in (born \ closed) \ dropped :
        \/ c \in SetOf(circuits) \/ c \in SetOf(stubs)
        \/ \E t \in Threads : c \in shut[t] \/ (Building(t) /\ have[t] = c)
=============================================================================
