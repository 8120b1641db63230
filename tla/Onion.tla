------------------------------- MODULE Onion -------------------------------
(***************************************************************************)
(* Connections to onion services (src/tor/hs/; connect_onion,              *)
(* onion_circuit, descriptor and hsdir_ring of src/tor/client.rs): several *)
(* threads ask for a stream to a service at once.  They share the ring of  *)
(* directory nodes, the descriptors and one circuit for each service; a    *)
(* new consensus may turn the time period, and a service may publish a new *)
(* descriptor, under them.                                                 *)
(*                                                                         *)
(* A descriptor is the period it is for and its revision; the keys of an   *)
(* hs-ntor handshake are the introduction they were made for.  What goes   *)
(* wrong of itself (a circuit that fails or cannot be built, an answer     *)
(* that is late) is a fault, and there are at most MaxFaults.              *)
(***************************************************************************)
EXTENDS Integers, Sequences, FiniteSets

CONSTANTS Threads, Services, Circuits,
          Wants,            \* the services each thread may ask for
          Earlier,          \* the circuit each service has from an earlier connection, or None
          ConnectAttempts,  \* CONNECT_ATTEMPTS
          IntroPoints,      \* introduction points tried: INTRO_ATTEMPTS at most
          MaxOpen,          \* MAX_CIRCUITS
          MaxReattaches,    \* MAX_REATTACHES
          Nodes,            \* directory nodes, 1..Nodes by their index on the ring
          Start,            \* hs_index: where each replica starts
          SpreadFetch,      \* hsdir_spread_fetch
          HsdirTries, HsdirParallel,
          PeriodLength,     \* consensuses to a time period
          MaxChanges,       \* bound: new consensuses, descriptors new or expired, streams moved
          MaxFaults

None   == "none"
NoDesc == <<0, 0>>

ASSUME OnionAssumption ==
    /\ {ConnectAttempts, IntroPoints, MaxOpen, HsdirTries, HsdirParallel, SpreadFetch,
        PeriodLength, Nodes} \subseteq Nat \ {0}
    /\ {MaxReattaches, MaxChanges, MaxFaults} \subseteq Nat
    /\ IsFiniteSet(Circuits) /\ None \notin Circuits
    /\ Start \in Seq(Nat) \ {<<>>}
    /\ Earlier \in [Services -> Circuits \cup {None}]

VARIABLES
    th,        \* each thread: pc, svc (the service it wants), snap (the consensus hsdir_ring
               \* works from), ring (the one it returned), cred (the period of its
               \* subcredential), desc (the descriptor in hand), circ (the circuit in hand),
               \* intro (the introduction point), known (a point failed in another way than not
               \* knowing the key), again (the descriptor was fetched twice), tries (attempts,
               \* or moves of the stream), stream (it has its stream)
    consensus, clearing,  \* the consensus in use; install_directory between its two stores
    ring,      \* hsdir_ring: the consensus it is for (0 for None), and see RingOf
    building,  \* hsdir_build: the thread that holds it
    cached,    \* descriptors
    open,      \* onion_circuits
    circuit,   \* each circuit: state, hop (the introduction its virtual hop is keyed for),
               \* meets (introductions the service has taken up), met (the one its end is
               \* keyed for), mail (the RENDEZVOUS2 not yet waited for), aged
    revision,  \* of each service's descriptor
    changes, faults,
    pushed     \* threads whose circuit another thread has closed

vars == <<th, consensus, clearing, ring, building, cached, open, circuit, revision, changes,
          faults, pushed>>

Points   == 1..IntroPoints
NoRing   == [for |-> 0, asked |-> 0, held |-> 0]
AllNodes == 1..Nodes

Unused == [state |-> "unused", hop |-> 0, meets |-> {}, met |-> 0, mail |-> 0, aged |-> FALSE]

Asking(s, n) == [pc |-> "lookup", svc |-> s, snap |-> 0, ring |-> NoRing, cred |-> 0, desc |-> NoDesc,
                 circ |-> None, intro |-> 1, known |-> FALSE, again |-> FALSE, tries |-> n,
                 stream |-> FALSE]

Init ==
    /\ \E want \in [Threads -> Services] : /\ \A t \in Threads : want[t] \in Wants[t]
                                        /\ th = [t \in Threads |-> Asking(want[t], 0)]
    /\ consensus = 1 /\ clearing = FALSE /\ ring = NoRing /\ building = None
    /\ cached = [s \in Services |-> NoDesc] /\ open = Earlier
    /\ circuit = [c \in Circuits |-> IF \E s \in Services : Earlier[s] = c
                                     THEN [Unused EXCEPT !.state = "open", !.hop = 1, !.met = 1]
                                     ELSE Unused]
    /\ revision = [s \in Services |-> 1]
    /\ changes = 0 /\ faults = 0 /\ pushed = {}

Fault == faults < MaxFaults /\ faults' = faults + 1
Fine  == UNCHANGED faults

At(t, where)   == th[t].pc = where
Goto(t, where) == th' = [th EXCEPT ![t].pc = where]

Change == changes < MaxChanges /\ changes' = changes + 1

IsOpen(c) == circuit[c].state = "open"

\* Circuit::close, of some circuits at once.  What came is still there to be read.
Closed(cs) == [c \in Circuits |-> IF c \in cs
                                  THEN [Unused EXCEPT !.state = "closed", !.mail = circuit[c].mail]
                                  ELSE circuit[c]]

\* Threads other than t that hold one of these circuits.
Holders(t, cs) == {u \in Threads \ {t} : th[u].circ \in cs}

directory == <<consensus, clearing, ring, building>>
service   == <<revision, changes>>

-----------------------------------------------------------------------------
(* How an attempt ends.                                                    *)

\* connect_onion tries again; a stream that is being moved fails.
Retried(t) ==
    IF ~th[t].stream /\ th[t].tries + 1 < ConnectAttempts
    THEN Asking(th[t].svc, th[t].tries + 1)
    ELSE [Asking(th[t].svc, 0) EXCEPT !.pc = "failed"]

Retry(t) == th' = [th EXCEPT ![t] = Retried(t)]

\* A service that is not published is not worth another try.
GiveUp(t) == th' = [th EXCEPT ![t] = [Asking(@.svc, 0) EXCEPT !.pc = "failed"]]

-----------------------------------------------------------------------------
(* hsdir_ring and what is done with it: onion_keys, descriptor.            *)

\* TimePeriod::containing.
Period(c) == (c - 1) \div PeriodLength + 1

\* Mutant of OnionKeys: the period of the first call is kept.
OnionKeysKept(r, c) == [r EXCEPT !.pc = "ring", !.cred = 1, !.snap = 0]

\* onion_keys: the subcredential of the period of this ring.
OnionKeys(r, c) == [r EXCEPT !.pc = "ring", !.cred = Period(c), !.snap = 0]

\* With a ring a thread goes on: to its keys if it has none yet,
\* or to the descriptor.
WithRing(t, r) ==
    th' = [th EXCEPT ![t] = IF @.cred = 0 THEN OnionKeys(@, r.for)
                            ELSE [@ EXCEPT !.pc = "desc", !.snap = 0, !.ring = r]]

\* Take the directory; the ring may be there already.
RingLook(t) ==
    /\ At(t, "ring")
    /\ IF ring.for = consensus THEN WithRing(t, ring)
       ELSE th' = [th EXCEPT ![t].snap = consensus, ![t].pc = "build"]
    /\ UNCHANGED <<directory, cached, open, circuit, service, faults, pushed>>

\* One thread builds; those that waited look again.
RingLock(t) ==
    /\ At(t, "build") /\ building = None
    /\ IF ring.for = th[t].snap THEN WithRing(t, ring) /\ UNCHANGED building
       ELSE Goto(t, "fetch") /\ building' = t
    /\ UNCHANGED <<consensus, clearing, ring, cached, open, circuit, service, faults, pushed>>

\* How far a node is after a replica's start, round the ring.
Ahead(start, n) == IF n >= start THEN n - start ELSE Nodes + n

\* One replica: of the nodes that none before it has claimed, the SpreadFetch nearest.
Claim(placed, before, start) ==
    LET free      == placed \ before
        Nearer(n) == {m \in free : Ahead(start, m) < Ahead(start, n)}
    IN  before \cup {n \in free : Cardinality(Nearer(n)) < SpreadFetch}

\* What the first k replicas claim, and the nodes to ask.
Claims(placed) ==
    LET claimed[k \in 0..Len(Start)] ==
            IF k = 0 THEN {} ELSE Claim(placed, claimed[k - 1], Start[k])
    IN  claimed

responsible(placed) == Claims(placed)[Len(Start)]

\* A ring with these nodes: how many of them it will have asked for a service, and how
\* many of those the service, which sees every node, has uploaded to.
RingOf(placed) ==
    LET asked == responsible(placed)
    IN  [asked |-> Cardinality(asked), held |-> Cardinality(asked \cap responsible(AllNodes))]

WholeRing == RingOf(AllNodes)
PartRings == {RingOf(p) : p \in {q \in SUBSET AllNodes : 3 * Cardinality(q) >= 2 * Nodes}}

\* The nodes are placed by their microdescriptors.  Those that did not come are
\* asked for once more, unless none came; most of them must be placed.
RingBuilt(t) ==
    /\ At(t, "fetch") /\ building' = None
    /\ \E r \in PartRings :
          /\ IF r = WholeRing THEN Fine ELSE Fault
          /\ ring' = [for |-> th[t].snap, asked |-> r.asked, held |-> r.held]
    /\ WithRing(t, ring')
    /\ UNCHANGED <<consensus, clearing, cached, open, circuit, service, pushed>>

\* Mutant of RingFails: the lock is not given back.
RingFailsHeld(t) ==
    /\ At(t, "fetch") /\ Fault /\ Retry(t)
    /\ UNCHANGED <<consensus, clearing, ring, building, cached, open, circuit, service, pushed>>

\* No circuit to a directory, or too few nodes to place.
RingFails(t) ==
    /\ At(t, "fetch") /\ Fault /\ building' = None /\ Retry(t)
    /\ UNCHANGED <<consensus, clearing, ring, cached, open, circuit, service, pushed>>

-----------------------------------------------------------------------------
(* descriptor.                                                             *)

\* From memory if it is of the ring's period.
DescHeld(t) ==
    /\ At(t, "desc") /\ cached[th[t].svc][1] = Period(th[t].ring.for)
    /\ th' = [th EXCEPT ![t].desc = cached[th[t].svc], ![t].pc = "establish", ![t].ring = NoRing]
    /\ UNCHANGED <<directory, cached, open, circuit, service, faults, pushed>>

\* Descriptor::parse: a document counts if the key of this period signed it and
\* its layers open with this period's credential; it may say that it wants
\* authorization.  Its revision is not compared with an earlier one.
Document(whole, for, rev, auth) == [whole |-> whole, for |-> for, rev |-> rev, auth |-> auth]
Parsed(doc, period) ==
    IF ~doc.whole \/ doc.for # period THEN "error"
    ELSE IF doc.auth THEN "denied" ELSE "descriptor"

\* What fetch_descriptor makes of the answers, asked for a few at a time: a
\* descriptor ends it; so does one that wants authorization; and the usual
\* budget of nodes is exceeded only as long as they all have no copy.
Asked(ans) ==
    LET Ends(i)    == ans[i] \in {"descriptor", "denied"}
        Group(i)   == (i - 1) \div HsdirParallel
        Before(i)  == {j \in DOMAIN ans : Group(j) < Group(i)}
        Reached(i) == /\ ~ \E j \in Before(i) : Ends(j)
                      /\ Cardinality(Before(i)) >= HsdirTries => \A j \in Before(i) : ans[j] = "absent"
    IN  {i \in DOMAIN ans : Reached(i)}

FetchResult(ans) ==
    LET asked == Asked(ans)
        ends  == {i \in asked : ans[i] \in {"descriptor", "denied"}}
        first == CHOOSE i \in ends : \A j \in ends : i <= j
        last  == CHOOSE i \in asked : \A j \in asked : j <= i
    IN  IF ends # {} THEN ans[first] ELSE ans[last]

\* What n nodes can come to: those in has answer with a document that parses so, those
\* in lost with an error and the others that they have none.
Fetches(n, parsed, has, lost) ==
    FetchResult([i \in 1..n |-> IF i \in lost THEN "error" ELSE IF i \in has THEN parsed ELSE "absent"])

Honest == [n \in AllNodes |-> [held \in 0..Nodes |->
              {Fetches(n, "descriptor", has, {}) : has \in {h \in SUBSET (1..n) : Cardinality(h) = held}}]]
Faulty == [n \in AllNodes |-> [parsed \in {"descriptor", "denied", "error"} |->
              UNION {{Fetches(n, parsed, has, lost) : lost \in SUBSET ((1..n) \ has)} : has \in SUBSET (1..n)}]]

\* The holders answer with the descriptor of the period, the others that they have
\* none.  By a fault any answers otherwise: nothing, a damaged or another period's
\* document, an older revision, a demand for authorization.
DescFetch(t) ==
    LET s      == th[t].svc
        period == Period(th[t].ring.for)
        newest == Document(TRUE, period, revision[s], FALSE)
        others == { newest, Document(FALSE, period, revision[s], FALSE),
                    Document(TRUE, period - 1, revision[s], FALSE),
                    Document(TRUE, period, 1, FALSE), Document(TRUE, period, revision[s], TRUE) }
        Got(doc, result) ==
            \/ /\ result = "descriptor"
               /\ cached' = [cached EXCEPT ![s] = <<period, doc.rev>>]
               /\ th' = [th EXCEPT ![t].desc = <<period, doc.rev>>, ![t].pc = "establish",
                                   ![t].ring = NoRing]
            \/ result \in {"absent", "denied"} /\ GiveUp(t) /\ UNCHANGED cached
            \/ result = "error" /\ Retry(t) /\ UNCHANGED cached
    IN  /\ At(t, "desc") /\ cached[s][1] # period
        /\ \/ Fine /\ \E result \in Honest[th[t].ring.asked][th[t].ring.held] : Got(newest, result)
           \/ Fault /\ \E doc \in others : \E result \in Faulty[th[t].ring.asked][Parsed(doc, period)] :
                          Got(doc, result)
        /\ UNCHANGED <<directory, open, circuit, service, pushed>>

-----------------------------------------------------------------------------
(* rendezvous::establish.                                                  *)

Fresh == {c \in Circuits : circuit[c].state = "unused"
                           \/ /\ circuit[c].state = "closed" /\ \A u \in Threads : th[u].circ # c
                              /\ \A s \in Services : open[s] # c}

\* The rendezvous circuit is built and the cookie left.  (A circuit to the first
\* introduction point is built beside it; if that fails, introduce tries again.)
Established(t) ==
    /\ At(t, "establish") /\ Fresh # {}
    /\ LET c == CHOOSE x \in Fresh : TRUE IN
       /\ circuit' = [circuit EXCEPT ![c] = [Unused EXCEPT !.state = "open"]]
       /\ th' = [th EXCEPT ![t].circ = c, ![t].pc = "introduce"]
    /\ UNCHANGED <<directory, cached, open, service, faults, pushed>>

\* It is not, and the introduction circuit is closed; or the order of the points
\* cannot be drawn (what the other thread builds is then left: not modelled).
EstablishFails(t) ==
    /\ At(t, "establish") /\ Fault /\ Retry(t)
    /\ UNCHANGED <<directory, cached, open, circuit, service, pushed>>

\* One introduction has failed: the next point, or the end of the list.
NextPoint(t, unrecognized) ==
    th' = [th EXCEPT ![t].known = @ \/ ~unrecognized, ![t].intro = @ + 1,
                     ![t].pc = "introduce"]

Recognized(t) == th[t].desc[2] = revision[th[t].svc]

\* The service can read an introduction made with the subcredential of the
\* period its descriptor is for, and will come to the rendezvous point.
Delivered(t) ==
    LET c == th[t].circ IN
    IF Recognized(t) /\ th[t].cred = th[t].desc[1] /\ IsOpen(c) /\ circuit[c].met = 0
    THEN [circuit EXCEPT ![c].meets = @ \cup {th[t].intro}] ELSE circuit

Introducing(t) == At(t, "introduce") /\ th[t].intro \in Points

\* INTRODUCE1 is acknowledged.
IntroduceAcked(t) ==
    /\ Introducing(t) /\ Recognized(t)
    /\ circuit' = Delivered(t) /\ th' = [th EXCEPT ![t].pc = "await"]
    /\ UNCHANGED <<directory, cached, open, service, faults, pushed>>

IntroduceUnknown(t) ==
    /\ Introducing(t) /\ ~Recognized(t) /\ NextPoint(t, TRUE)
    /\ UNCHANGED <<directory, cached, open, circuit, service, faults, pushed>>

\* The point cannot be reached or does not answer, and the message may have gone;
\* or the handshake cannot be started.
IntroduceFails(t) ==
    /\ Introducing(t) /\ Fault /\ NextPoint(t, FALSE)
    /\ circuit' \in {circuit, Delivered(t)}
    /\ UNCHANGED <<directory, cached, open, service, pushed>>

\* The deadline of establish has passed.  Before the first point was tried that says
\* nothing of the descriptor.
OutOfTime(t) ==
    /\ Introducing(t) /\ Fault
    /\ th' = [th EXCEPT ![t].known = @ \/ th[t].intro = 1, ![t].intro = IntroPoints + 1]
    /\ UNCHANGED <<directory, cached, open, circuit, service, pushed>>

\* Mutant of Finishes: a reply is taken whatever handshake it answers.
FinishesAny(reply, intro) == TRUE

\* HsNtorClient::finish: the reply authenticates only for the handshake it answers.
Finishes(reply, intro) == reply = intro

\* A RENDEZVOUS2 that answers this introduction adds the virtual hop; one that
\* answers an earlier one fails the handshake.
Finish(t) ==
    LET r == th[t]  reply == circuit[r.circ].mail IN
    /\ At(t, "await") /\ reply # 0
    /\ IF Finishes(reply, r.intro)
       THEN /\ circuit' = [circuit EXCEPT ![r.circ].hop = r.intro, ![r.circ].mail = 0]
            /\ th' = [th EXCEPT ![t] = [Asking(r.svc, r.tries) EXCEPT
                                          !.pc = "insert", !.circ = r.circ, !.stream = r.stream]]
       ELSE circuit' = [circuit EXCEPT ![r.circ].mail = 0] /\ NextPoint(t, FALSE)
    /\ UNCHANGED <<directory, cached, open, service, faults, pushed>>

\* The wait ends without one: the circuit is gone, or the service does not come,
\* or not in time.
AwaitFails(t) ==
    LET c == circuit[th[t].circ] IN
    /\ At(t, "await") /\ c.mail = 0
    /\ IF c.state = "closed" \/ c.met # 0 \/ c.meets = {} THEN Fine ELSE Fault
    /\ NextPoint(t, FALSE)
    /\ UNCHANGED <<directory, cached, open, circuit, service, pushed>>

\* introduce_until_met has run out of points, and the rendezvous circuit is closed.  If
\* every point disowned the key the descriptor is fetched again, once, and the
\* subcredential kept.
NotMet(t) ==
    /\ At(t, "introduce") /\ th[t].intro \notin Points
    /\ circuit' = Closed({th[t].circ})
    /\ \/ /\ ~th[t].known /\ ~th[t].again
          /\ cached' = [cached EXCEPT ![th[t].svc] = NoDesc]
          /\ th' = [th EXCEPT ![t].again = TRUE, ![t].pc = "ring", ![t].circ = None,
                              ![t].intro = 1, ![t].desc = NoDesc]
       \/ (th[t].known \/ th[t].again) /\ Retry(t) /\ UNCHANGED cached
    /\ UNCHANGED <<directory, open, service, faults, pushed>>

-----------------------------------------------------------------------------
(* onion_circuit, connect_onion.                                           *)

\* retain drops circuits that have ended, and those that have aged without
\* closing them.
Kept == [s \in Services |->
            IF open[s] # None /\ (~IsOpen(open[s]) \/ circuit[open[s]].aged) THEN None ELSE open[s]]

Lookup(t) ==
    /\ At(t, "lookup")
    /\ open' = Kept
    /\ IF Kept[th[t].svc] # None
       THEN th' = [th EXCEPT ![t].circ = Kept[th[t].svc], ![t].pc = "begin"]
       ELSE Goto(t, "ring")
    /\ UNCHANGED <<directory, cached, circuit, service, faults, pushed>>

\* Services whose circuits make room, the oldest first: any may be.
Evictions ==
    LET held == {s \in Services : Kept[s] # None}
    IN  {v \in SUBSET held : Cardinality(v) =
            (IF Cardinality(held) >= MaxOpen THEN Cardinality(held) - MaxOpen + 1 ELSE 0)}

\* Mutant of Displaced: the circuit another thread has just put there runs on.
DisplacedNot(c) == {}

\* The circuit of the same service that this one takes the place of is closed.
Displaced(c) == {c} \ {None}

Insert(t) ==
    /\ At(t, "insert")
    /\ \E out \in Evictions :
          LET left  == [s \in Services |-> IF s \in out THEN None ELSE Kept[s]]
              ended == Displaced(left[th[t].svc]) \cup {Kept[s] : s \in out}
          IN  /\ open' = [left EXCEPT ![th[t].svc] = th[t].circ]
              /\ circuit' = Closed(ended) /\ pushed' = pushed \cup Holders(t, ended)
    /\ Goto(t, "begin")
    /\ UNCHANGED <<directory, cached, service, faults>>

\* begin_stream_onion sends its BEGIN on a circuit that is open; the service may
\* say no, which is its answer.
Begin(t) ==
    /\ At(t, "begin") /\ IsOpen(th[t].circ)
    /\ \/ /\ th' = [th EXCEPT ![t].pc = "open", ![t].stream = TRUE,
                              ![t].tries = IF th[t].stream THEN @ ELSE 0]
          /\ Fine
       \/ GiveUp(t) /\ Fault
    /\ UNCHANGED <<directory, cached, open, circuit, service, pushed>>

\* discard_onion_circuit closes whatever circuit the service now has.
Discard(t) ==
    LET cs == {open[th[t].svc]} \ {None} IN
    /\ open' = [open EXCEPT ![th[t].svc] = None]
    /\ circuit' = Closed(cs) /\ pushed' = pushed \cup Holders(t, cs)

\* The BEGIN comes to nothing: the circuit is closed, or by a fault no answer comes.
BeginFails(t) ==
    /\ At(t, "begin") /\ Discard(t) /\ Retry(t)
    /\ IF IsOpen(th[t].circ) THEN Fault ELSE Fine
    /\ UNCHANGED <<directory, cached, service>>

\* A stream whose circuit has ended is moved (TorStream), or is not.
Move(t) ==
    /\ At(t, "open") /\ ~IsOpen(th[t].circ) /\ th[t].tries < MaxReattaches
    /\ Change /\ Discard(t)
    /\ th' = [th EXCEPT ![t] = [Asking(@.svc, @.tries + 1) EXCEPT !.stream = TRUE]]
    /\ UNCHANGED <<directory, cached, revision, faults>>

Cut(t) ==
    /\ At(t, "open") /\ ~IsOpen(th[t].circ) /\ GiveUp(t)
    /\ UNCHANGED <<directory, cached, open, circuit, service, faults, pushed>>

-----------------------------------------------------------------------------
(* The rest of the client, the network and the services.                   *)

\* install_directory: a new consensus, and then no ring.
Turn ==
    /\ Change /\ ~clearing
    /\ consensus' = consensus + 1 /\ clearing' = TRUE
    /\ UNCHANGED <<th, ring, building, cached, open, circuit, revision, faults, pushed>>

Cleared ==
    /\ clearing /\ clearing' = FALSE /\ ring' = NoRing
    /\ UNCHANGED <<th, consensus, building, cached, open, circuit, service, faults, pushed>>

Republish(s) ==
    /\ Change /\ revision' = [revision EXCEPT ![s] = @ + 1]
    /\ UNCHANGED <<th, directory, cached, open, circuit, faults, pushed>>

\* A descriptor in memory passes its lifetime.
Expire(s) ==
    /\ Change /\ cached[s] # NoDesc /\ cached' = [cached EXCEPT ![s] = NoDesc]
    /\ UNCHANGED <<th, directory, open, circuit, revision, faults, pushed>>

\* The service comes to the rendezvous point with the first introduction it
\* answers; the cookie serves once.
Meet(c) ==
    /\ IsOpen(c) /\ circuit[c].met = 0
    /\ \E i \in circuit[c].meets :
          circuit' = [circuit EXCEPT ![c].met = i, ![c].mail = i, ![c].meets = {}]
    /\ UNCHANGED <<th, directory, cached, open, service, faults, pushed>>

Die(c) ==
    /\ IsOpen(c) /\ Fault /\ circuit' = Closed({c})
    /\ UNCHANGED <<th, directory, cached, open, service, pushed>>

\* A circuit passes MAX_CIRCUIT_AGE.
Age(c) ==
    /\ IsOpen(c) /\ ~circuit[c].aged /\ \E s \in Services : open[s] = c
    /\ Fault /\ circuit' = [circuit EXCEPT ![c].aged = TRUE]
    /\ UNCHANGED <<th, directory, cached, open, service, pushed>>

Step(t) ==
    \/ RingLook(t) \/ RingLock(t) \/ RingBuilt(t) \/ RingFails(t) \/ DescHeld(t) \/ DescFetch(t)
    \/ Established(t) \/ EstablishFails(t) \/ IntroduceAcked(t) \/ IntroduceUnknown(t)
    \/ IntroduceFails(t) \/ OutOfTime(t) \/ Finish(t) \/ AwaitFails(t) \/ NotMet(t)
    \/ Lookup(t) \/ Insert(t) \/ Begin(t) \/ BeginFails(t) \/ Move(t) \/ Cut(t)

Next ==
    \/ \E t \in Threads : Step(t)
    \/ Turn \/ Cleared \/ \E s \in Services : Republish(s) \/ Expire(s)
    \/ \E c \in Circuits : Meet(c) \/ Die(c) \/ Age(c)

Spec == Init /\ [][Next]_vars

(***************************************************************************)
(* Threads run; every wait has a deadline, and a service that was reached  *)
(* comes.                                                                  *)
(***************************************************************************)
FairSpec ==
    /\ Spec /\ WF_vars(Cleared)
    /\ \A t \in Threads : WF_vars(Step(t))
    /\ \A c \in Circuits : WF_vars(Meet(c))

-----------------------------------------------------------------------------

\* The virtual hop of a circuit is keyed for the introduction the service itself
\* answered, however many were made and however late the answer is.
KeysAgree == \A c \in Circuits : IsOpen(c) /\ circuit[c].hop # 0 => circuit[c].met = circuit[c].hop

\* All streams to one service are on one circuit: two threads that raced to
\* build one do not both keep theirs.  (An aged circuit may be left beside it.)
OneCircuit ==
    \A t, u \in Threads :
        LET c == th[t].circ  d == th[u].circ IN
        /\ {th[t].pc, th[u].pc} \subseteq {"begin", "open"} /\ th[t].svc = th[u].svc
        /\ IsOpen(c) /\ IsOpen(d) /\ ~circuit[c].aged /\ ~circuit[d].aged
        => c = d

\* Neither the turn of a period nor a new descriptor, at whatever moment it
\* comes, makes a connection fail of itself: only a fault does, or another
\* thread that closes the circuit, or a change for each of its attempts.
TurnSurvived ==
    \A t \in Threads : At(t, "failed") => faults > 0 \/ t \in pushed \/ changes >= ConnectAttempts

\* Every connection is made or fails: no thread waits for ever for the ring
\* another thread builds, nor for a service.
ConnectEnds == \A t \in Threads : At(t, "lookup") ~> (At(t, "open") \/ At(t, "failed"))
=============================================================================
