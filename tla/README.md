# A TLA+ development of rust-tor-proxy

rust-tor-proxy is a Tor client in one process: it listens for SOCKS
connections and carries each on a stream, on a circuit of three relays, over a
TLS channel to a guard. This directory models the parts of it whose
correctness depends on the order in which threads, cells and failures meet,
checks them with TLC on small instances, and proves the central facts with
TLAPS for all instances.

Paths below are relative to the repository.

## The system

| Component | State | Operations | Hard part |
|---|---|---|---|
| Channel (`src/tor/channel.rs`, `certs.rs`, `cell.rs`) | outbound queue, map of circuits, closed flag | `connect`, `send_cell`, `register_circuit`, `close`; one I/O thread (`run_io`) | a bounded queue that callers block on holding locks; closing under them; a responder that is not who it should be |
| Circuit (`src/tor/circuit.rs`) | hops and running digests, flow control, stream map, handshake slot, closed flag; locks `send_order` and `state` | `create`, `extend_with`, `send_data`, `send_relay`, `close`; one pump thread (`pump`, `handle_relay`) | cells queued in digest order; waiting for a window without blocking the pump; replies out of turn |
| Flow control (`circuit.rs`, `cc.rs`) | package and deliver windows of the circuit and of each stream, XOFF/XON flags; Vegas | `note_sent`, `note_sendme`, `note_received`, `read_stream`, `release_backpressure` | credit conserved over two threads and the network; no stall, no overrun |
| Congestion control (`cc.rs`) | `Vegas`: counters, window, round trips | `on_send`, `on_sendme` | integer arithmetic at its edges, broken clocks, unearned SENDMEs |
| Connection (`TorStream` in `circuit.rs`) | live attempt, bytes kept for replay, attempts | `read`, `write`, `reattach` | reader and writer both find a failure and move the connection |
| Front end (`src/socks5.rs`, `src/relay.rs`, `src/main.rs`) | whether the Tor client is ready; one thread per client, two while it is tunnelled | `handle`, `wait_for_client`, `set_ready`, `bidirectional` | early bytes, half-closed connections, a bootstrap that is not done |
| Guards (`src/tor/client.rs`) | list of guards with failures, strikes and demotions; open channel; file | `guard_channel`, `ensure_guard`, `note_bad_circuits`, `retry_primary_guard`, `reconcile_guards`, `bootstrap` | decisions made before a connection and applied after it; restarts |
| Pool (`src/tor/pool.rs`) | stubs, finished circuits, blame | `circuit_for`, `take_stub`, `insert`, `add_stub`, `condemn`, `clear`, `next_jobs`; builder thread and workers | a budget shared by threads; circuits that change without the pool's lock |
| Builds and paths (`client.rs`, `path.rs`) | microdescriptors in memory | `build_stub`, `build_exit_circuit`, `build_circuit_to`, `choose_rendezvous_point`, `load_microdescs` | constraints carried from hop to hop while memory is emptied; nothing left behind when a step fails |
| Onion services (`src/tor/hs/`, `client.rs`) | ring of directory nodes and its build lock, descriptor cache, map of onion circuits | `connect_onion`, `onion_circuit`, `descriptor`, `hsdir_ring`, `rendezvous::establish` | two threads for one service; a period that turns; a service that answers late |
| Directory (`src/tor/dir/`) | consensus, microdescriptors, cache files | `bootstrap`, `refresh`, `download`, diffs, `certificates_for` | fall-backs, partial failure, stale caches, untrusted servers |
| Maintenance (`src/tor/maintain.rs`) | timers, backoff | calls the guards, the pool and the directory in turn | runs beside everything |
| Status page, primitives (`status.rs`, `ffi/`, `crypto/`) | none | report; bind C libraries | none for a model checker |

A SOCKS thread calls `TorClient::connect` (or `connect_onion`), which asks the
pool for a circuit or builds one over `guard_channel`, begins a stream and hands
it to `relay.rs`, whose two threads read and write the `TorStream`. Each circuit
has a pump thread fed by its channel's I/O thread. The builder thread keeps the
pool stocked; the maintenance thread sweeps quiet circuits, counts bad ones
against their guard, retries the primary guard and refreshes the consensus.

What makes each part correct: cells reach the channel in digest order and every
call returns (circuit); no credit is lost or invented, no stream stalls and a
stopped reader is not buried (flow control); the window stays in its bounds and
yields to queues for every far end and clock (congestion control); the caller
sees one connection (TorStream), and a client's bytes pass through it whole
(front end); the list, its file and the channel in use agree with what was
decided (guards); a circuit is in one place, counted once, and the budget holds
(pool); a circuit's hops are the relays that were chosen, apart from one another
and agreed on keys and scheme (set-up); a service has one circuit, keyed with the
service itself, and a connection to it ends (onion services); only what the
authorities published is used, and it is replaced in time (directory).

## Modules

| Module | Models |
|---|---|
| `CircuitSend` | the sending side of one circuit, its locks and condition variable, the pump, the channel queue and I/O thread |
| `StreamReceive` | receiving: deliver windows, stream buffers, SENDME, XOFF and XON |
| `StreamSend` | sending: stream and circuit credit, SENDME, XOFF, XON and END |
| `SendWindow` | abstract: what flow control promises a circuit's writers |
| `Vegas` | `struct Vegas`; implements `SendWindow` |
| `TorStream` | a connection that may be moved, with its reader and writer |
| `Proxy` | extends `TorStream` with the front end: negotiation, the wait for the Tor client, the reply, and the two threads that copy |
| `Guards` | the guard list, its file, `guard_channel` and maintenance of the list |
| `Pool` | the pool, its requesters, builder, workers and sweeps |
| `Path` | operators: candidates, weights, samples, and the constraints between relays of a path |
| `Link` | extends `Path` with the channel's handshake: versions, certificates, NETINFO, and its end |
| `CircuitSetup` | extends `Link` with builds: a builder thread, the pumps, the stub it may take, microdescriptors, and the network |
| `Onion` | threads that connect to onion services, and what they share |
| `Consensus` | operators: consensus documents, signatures, certificates, diffs as ed scripts |
| `Directory` | uses `Consensus`: bootstrap, refresh, cache files, the schedule of refreshes |
| `*_proof` | theorems about the module of that name, or about the two in it; `Proxy_proof` is about `TorStream` too |
| `MC_*` | model values, tables and symmetry for TLC |

Actions carry the names of the functions they model, and `PROJECT.json` gives
the lines of each. Definitions whose comment begins with "Mutant" are
deliberately wrong variants, used to see that a property can fail; no
specification uses them.

**Atomicity.** An action is one hold of the lock that guards the state it
changes, or one step taken without it. Where a function reads, lets go and comes
back, it is several actions: `send_data` waits under `state` and builds under
`send_order`; `release_backpressure` decides under the buffer's lock and sends
after it; `ensure_guard` chooses and adds in two holds; `circuit_for` hands out a
circuit whose stream begins later, and circuits to be closed are closed after
the lock is gone. In `CircuitSend` the step between a failed check and
`Condvar::wait_timeout` is explicit (`park`, holding `state`), because `close`
notifies without that lock. In `Onion` the turn of a period is two steps, as
`install_directory` stores the consensus and then drops the ring; in `Directory`
every request, the two cache files and the installation are steps of their own,
and the process may end after each.

**Data.** A cell is its kind and its place in the digest chain, bytes are
counted, relays and circuits are model values. A handshake is its number, and a
reply to it names the key, the handshake and the message that were authenticated;
a certificate says which key signed what; a consensus is a short sequence of
lines, of which some are signatures, so that diffs are applied to real text. Time
is abstract except in `Directory`: elsewhere a timeout, an age or a cool-off may
pass whenever the constants allow it. Integer saturation is
kept where it is at zero; the upper limits of `u32` and `u64` are out of reach of
the parameters `CcParams::parse` accepts.

**External.** The far end of a circuit, the relays and the network are modelled
from how this code uses them: an honest far end that keeps its windows in
`StreamReceive` and `StreamSend`, any far end at all in `Vegas`. In
`CircuitSetup` the responder of a link may be another relay with any
certificates it can have: those it signs for anybody, other relays' own, and ones
that name whom it likes as signer but whose signature does not verify. Relays on
the way may end a circuit, repeat, forge or alter replies. In `Onion` directory nodes fail, hold nothing or hold something
old, and a service answers any introduction it could read, at any time. In
`Directory` servers hold any published consensus or a forged one, an authority is
compromised, and signing keys rotate. A server has a key of its own, signs with it
in the name of any authority, and sends certificates for it: of that authority's
identity but not signed by it, or well signed by an identity of the server's. What goes wrong of itself counts as a
fault, and there are `MaxFaults` of them (`MaxOdd` in `Directory`).

## Runs

Passing:

| Run | Shows | Bounds |
|---|---|---|
| `CircuitSend` | `DigestChain`: cells reach the channel in digest order and without a gap; `CallsReturn`; `PumpEnds` | a writer, a sender, a closer and the pump, three calls between them, window 1, a queue of one cell, one DATA cell to answer; DESTROY, channel failure and `close` |
| `StreamReceive_flow` | `NeverOverrun`, `BufferBounded`, `NoStall`, `AllRead`, for both schemes | two streams: one of eight cells over windows of two, so that its SENDME is held back and its buffer filled to the limit, and one of four beside it |
| `StreamSend_flow` | `Credit`, `AllSent`, for both schemes | two streams, of five cells and of two, over windows of two; timeouts and END; a congestion window that moves between two and four |
| `Vegas_small` | `MarksMatch`, `NeverStuck`, `WindowYields`, `IsSendWindow` | 20 cells, three round trips, a stalled clock and one that runs backwards; slow start ends and steady state is reached |
| `Proxy` | `ReplayWhole`, `AnswerSettles`, `NoDuplicates` of the connection; `Verbatim`, `Answered`, `TunnelEnds` of the request | one request in each protocol, granted, refused or garbage, before or after the client is ready; one reattach, so that two attempts can be counted at once, one chunk more than is kept, two answers; connections that cannot be moved beside those that can |
| `Guards` | `NoTwice`, `FileCurrent`, `PrimaryPinned`, `PrimaryResumed` | two callers and the maintenance thread, three relays for two places; two of: outage, lookup failure, sweep, consensus, restart |
| `Pool` | `OnePlace`, `BlamedOnce`, `NoneLost`, `BudgetOrBusy` | two requesters that come again and again, the builder, a worker and the maintenance thread with its probes, on a budget of two; circuits fail, age, slow down and recover, and are cleared |
| `CircuitSetup` | `LinkProven`, `PathApart`, `HopsAgree`, `SchemeAgreed`, `Settles` | five relays with families, a shared /16 and every flag that matters; two circuits, two jobs in a row, memory for two microdescriptors, one fault; six answers about congestion control |
| `Onion` | `KeysAgree`, `OneCircuit`, `TurnSurvived`, `ConnectEnds` | two threads for one service or for two, a third service's circuit already there, room for two circuits, two introduction points, four directory nodes of which replicas share one; one change (period, descriptor, expiry, move) and one fault, at any moment, a stream refused on a circuit that is well among them |
| `Directory` | `Authentic`, `DiffIsEd`, `NeverSleepsThrough`, `CatchesUp` | three authorities of which one is compromised, consensuses at times 2, 4 and 6 that live for 4, keys that rotate at 6, one crash, two faults; honest and damaged diffs, signatures and certificates by a server's own key |

Type correctness is proved for every module, and is not a property of the runs.

Violated, by what the code does against what a comment of it says
(`PROJECT.json`, "findings"):

| Run | Property | What happens |
|---|---|---|
| `TorStream_lost` | `ReplayFaithful` | a chunk sent but not yet recorded is lost when the reader moves the connection |
| `StreamSend_cc_windows` | `StreamNeverStuck` | a stream window is spent, and never refilled, under congestion control |

**Bounds.** The windows of the code (1000/100 and 500/50) are scaled down to a
few increments: what can go wrong happens around an increment, a start value or
zero, and each is crossed. The proofs cover the real values. Calls, chunks,
faults, changes and restarts are bounded by constants named `Max...`; one of each
is enough for a step of one actor to fall between any two of another, and where a
repetition matters (a second increment, a second answer, a second attempt, a
second job that finds what the first left) there are two. Limits of the code that
are lists or sizes (introduction points, directory nodes, memory for
microdescriptors, the pool's budget) are set so that they are reached.

In `Pool` a request has one attempt: another one begins as a new request does, at
`pick` with nothing in hand, and requests are not bounded.

The largest runs: `Pool` 2.2 million states, `Proxy` 1.5 million, `Onion` 0.7
million and `CircuitSetup` 0.4 million, each two to three minutes with two workers;
in the last three liveness takes most of it.

**Two schemes, two kinds of connection.** `congestion`, `movable` and whether a
connection has a front end are chosen in the initial state and never change. A
connection is movable when `set_reattach` was called on it, which `connect` and
`connect_onion` do and nothing else: these are the ones `relay.rs` reads and
writes in two threads at once. Any other, such as a directory request, is read and
written by one thread, and `may_retry` refuses to move it. No property is
restricted to one kind. How an attempt may end before and after CONNECTED is the
constant `Ends`: `handle_relay` takes any END at any time, and so do the proofs;
the run gives it the reasons an exit has at each of the two.

**Deadlock.** Every run turns deadlock checking off: the models stop when their
bounded callers have nothing more to do, and the liveness properties say what
must have happened by then.

**Fairness.** Threads that can step do (weak fairness): the operating system
schedules them, and mutexes are eventually granted. Strong fairness is assumed
of a reader or writer that contends for a lock or a window with others, and of
the far end's sender that does (`StreamReceive`, `StreamSend`), where weak
fairness would let it be passed over for ever; the pump takes `send_order` once
per cell and `notify_all` wakes every writer. The far end acknowledges what it
owes. A deadline is not counted on, so that no property rests on a thread being
saved by its timeout, with one exception: in `CircuitSend` a writer may need it
once the circuit is closed, because `close` and the pump's exit notify without
the lock the writer sleeps under, and the last wake-up can be missed. Nothing is
assumed of new calls, of closing, of outages ending or of who wins a lock.
`Settles` counts on the deadline of `wait_for_handshake` (no reply need ever
come) and on the I/O thread to end what it has begun to end. `ConnectEnds` counts
on the deadlines of the rendezvous and on the thread that has the build lock.
`Answered` counts on a bootstrap that ends, well or badly, and on the two threads of
a request, each fair in itself; the client and the far end need do nothing for
`TunnelEnds`. `CatchesUp` counts on the clock, on the
maintenance thread and on somebody who starts the process again, which `main.rs`
does too; faults are finitely many.

## Proofs

Every safety property of a passing run is a theorem.

* `CircuitSend_Vegas_proof`, of `CircuitSend`: `TypeCorrect`, and `DigestOrder`:
  `Spec => []DigestChain`. The inductive invariant `SendInv` adds that
  `send_order` belongs to exactly the thread inside such a section (`OrderInv`)
  and that the cell built and not yet queued is the newest of the chain, every
  older one being queued already unless the channel is closed (`ChainInv`).
  Without the first two threads could both hold a built cell; without the second a
  failed `send_cell` could be followed by a successful one.
* `StreamReceive_proof`: `CircuitConserved`, `BackpressureHolds`, `NeverStalls`,
  from `ReceiveInv`. What a stream has buffered and what may still come are
  bounded together (`BufferCredit`), a reader with an empty buffer has nothing
  left to release (`ReaderOwes`), and the last word sent to the far end is never
  an XOFF nobody remembers (`XoffMeant`).
* `CircuitSend_Vegas_proof`, of `Vegas`: `MarksAndRtts`, `OwedSendme`,
  `QueueYields`, and `Implements`, the refinement of `SendWindow`. `VegasInv`
  relates the marks to the counters, and the smallest round trip to the smoothed
  one; the rest is arithmetic about clamping, rounding and the quotient that gives
  the bandwidth-delay product.
* `StreamSend_proof`: `TypeCorrect`, `CreditKept`: `Spec => []Credit`, and
  `SendmesDue`, that a SENDME on its way always acknowledges cells in flight, so
  that the check in `note_sendme` never ends the circuit of an honest far end.
  `Credit` is inductive together with the types and `Promised` (a write that has
  begun has a cell left). What is on the two wires is counted by the cardinality
  of the places that hold it; `CountAppend` and `CountTail` say how a count
  changes when a cell joins or leaves.
* `Proxy_proof`: `Refinement`, the front end with its stream implements the
  connection that moves (`ProxySpec => Spec` of `TorStream`), and so
  `TypeCorrect`, `NoneTwice` (`NoDuplicates`), `MovesWhole` (`ReplayWhole`) and
  `AnswersSettle` (`AnswerSettles`) hold of both; and `SentVerbatim` (`Verbatim`) of
  the front end. `Room` keeps the two threads, which each check `may_retry` before
  either counts, from running out of attempts. `NoDuplicates` needs that what a
  thread has still to replay is not on its attempt yet and that two replays never
  share one (`Unsent`), that what it copied is in order (`Copies`), and that an
  attempt has nothing that was not written, or is just being recorded (`Sent`).
  For `ReplayWhole`, `Handed` splits what had been written when a move was counted
  in two, what is on the new attempt already, in order (`Within`), and what is in
  `todo`, whatever the writer sends past it meanwhile. What is written after that
  may be missing, which is what `TorStream_lost` shows. For `AnswerSettles`,
  `Settling` says that an answer called the replay off before the reader goes on
  (`CalledOff`), that of the two threads at most one is then still past
  `may_retry` (`LastMove`), and that no thread goes back to an older attempt
  (`Forward`). `FrontInv` says what each thread of the front end has in its hands.
* `Guards_proof`: `TypeCorrect`, `GuardsDistinct` (`NoTwice`), `FileFollows`
  (`FileCurrent`) and the action property `PrimaryStays` (`PrimaryPinned`). The
  invariant is the types, that a thread past its choice holds a relay, and
  `NoTwice` and `FileCurrent` together: a restart takes its list from the file,
  and the list has no guard twice because the one the file was written from had
  none. `reconcile_guards` saves only if the list got shorter, and what `Retain`
  returns at full length is the same list.
* `CircuitSetup_proof`: `LinkAuthentic` (`LinkProven`), `PathsApart`
  (`PathApart`), `HopsMatch` (`HopsAgree`), `SchemesAgree` (`SchemeAgreed`). The
  slot and the queue of a circuit may hold forged, altered and repeated replies,
  so the invariant says what each may be (`Genuine`): what the relay of that hop
  answered, or by another key, or altered in a way its authenticator shows.
  `HopsOK` says that the far end is at most one hop ahead and agrees on the
  others, `ReqOK` what the request under way asks, `HandOK` that no circuit but
  the one in the builder's hand has one, and that the constraints a path is chosen
  under are those of the hops there are. `LinkInv` is what the channel's handshake
  has proved by when; it rests on both signatures being checked, as the responder
  can name the relay it should be as the signer of a certificate of its own key.
* `Pool_proof`: `TypeCorrect`, `InOnePlace` (`OnePlace`), `CountedOnce`
  (`BlamedOnce`), `AllReachable` (`NoneLost`), `StreamsCounted`, and the action
  property `WithinBudget` (`BudgetOrBusy`). `Apart` and `Hands` say that no
  circuit is in the lists twice, and what a thread has in its hands at each place:
  one that builds has it to itself, one that uses a circuit, or is about to condemn
  it, has no stub. `Carries` counts the streams by the threads that have one, a
  probe's included, and keeps `streams` from going below zero. `Blamed` adds that a pooled circuit that was counted is flagged, and
  one that was never pooled has not been counted. `Planning`, that the workers are
  idle while the builder plans, keeps `NextJobs` from giving a worker another job
  while it has a circuit. For `WithinBudget` the members of the lists are counted:
  a list without repetition is shorter by exactly what is taken out of it, so that
  `insert` either makes room for one or has put out everything it may.
* `Onion_Directory_proof`, of `Directory`: `DirectoryInvariant`, `AuthenticAlways`
  (`Authentic`), `DiffIsEdAlways` (`DiffIsEd`), `NeverSleepsThroughAlways`
  (`NeverSleepsThrough`). `Authentic` is not inductive: a document in use is also
  the base of the next diff, and what is put together from it may carry its
  signatures over another text. `DirectoryInv` says of every document anywhere,
  patched and forged ones included, that its lines are `Good`: no signature by a
  signing key of an authority that is not compromised is over a text that was not
  published. Lines in its name by another key may be over anything; that such a key
  is not counted is what `parse_key_certificates` is for, and the invariant says
  that every certificate held is of a true signing key. What is
  in use, in the cache, in the base or about to be stored passed
  `parse_and_verify` (`Trusted`), so that more authorities than are compromised
  signed it, hence one that is not, and what that one signed was published. A
  published text stays so when the clock moves on (`GoodGrows`). `InJob` keeps a
  refresh from comparing with a directory that is not there and a diff from being
  of another base. `Soon` says how far off the next try is, whether the consensus
  has expired or not: without it the expiry could come after the plan. For
  `DiffIsEd`, `apply` goes through the commands, which are in falling order, and
  keeps a text under construction and how much of the base it has not used yet; ed
  changes the whole text with each command. The proof shows for every number of
  commands that what ed has then is the unused beginning of the base followed by
  the text under construction, and at the end that is `apply`'s result. `$` is the
  base's last line to `apply` and the last line of the moment to ed, and the two
  are one only in the first command, whence the premise `DollarFirst`. That an
  honest diff applies needs that the copies of a consensus differ only after what
  is signed.
* `Onion_Directory_proof`, of `Onion`: `OnionInvariant`, `KeysAgreeAlways`
  (`KeysAgree`), `OneCircuitAlways` (`OneCircuit`), `TurnSurvivedAlways`
  (`TurnSurvived`). In `OnionInv`, `Keyed` adds to `KeysAgree` that a reply nobody
  has read yet is for the introduction the service's end is keyed for: it may come
  while the client is at the next point. `HasCircuit` and `Owned` keep a circuit
  that is being built from being in the map or in another thread's hand, and
  `InMap` puts the circuit of a stream in the map, from which `OneCircuit`
  follows: `Displaced` closes what it replaces, except when aged. For
  `TurnSurvived`, `Surviving` counts: an attempt that nothing has gone wrong with
  has had a change in each attempt before it, and either one in this too or none,
  and then what it has in hand is of the present consensus (`Undisturbed`), a
  descriptor known to be stale has been dropped from memory before it is fetched
  again, and an introduction with a current one is answered at its first point
  (`Met`). `ClosedByOthers` says why a circuit may be found closed. `RingWhole` is
  what the fetch rests on: without a fault every node that is asked has the
  descriptor, and at least one is asked; for that `responsible` is shown to return
  at least one node for any nodes, replicas and spread (`Claims`), and
  `FetchResult` a descriptor when all have it.

The lists of `Guards` and `Pool` are filtered by `Retain`, a recursive function
over the beginnings of a list. What it returns is proved by induction: the numbers
a statement holds for are a set, and a set of numbers that is not empty has a
least element (`Least` and `Induction`, from `WFMin` and
`NatLessThanWellFounded`). The same is done for the replicas of `responsible` and
the commands of a diff, which are recursive functions for that reason (`Claims`,
`Hunks`, `Editions`).

Two modules about which one proof module speaks share no names, which is why the
specification of `Vegas` is `VegasSpec` and that of `Directory` is
`DirectorySpec`.

The assumptions are those the modules name (`SendAssumption`, `ReceiveAssumption`,
`VegasAssumption`, `SendingAssumption`, `TorStreamAssumption`, `GuardsAssumption`,
`LinkAssumption`, `PathAssumption`, `SetupAssumption`, `PoolAssumption`,
`OnionAssumption`, `ConsensusAssumption`, `DirectoryAssumption`,
`EditsAssumption`): windows hold at least an increment, thread sets are disjoint
and, in `Pool`, finite, limits are positive where the code's are, parameters are
in the ranges `CcParams::parse` keeps, fewer authorities than are required are
compromised, as many as are required are not, and a diff inserts no signature by
the signing key of one of those but a published one. The bounds on faults, calls and events are any
numbers. `NeverStuck` carries its own premise, that the window's floor is at least
an increment; the code does not enforce it for every negotiated `sendme_inc`. So
does `NeverSleepsThrough`: `refresh_window` starts as late as 7/4 of the interval
after a consensus became valid, and one that lives for less than that, by more
than the longest retry, would have expired by then. Those the authorities publish
live for three intervals; the code takes both times as they come. `TurnSurvived`
allows a connection to fail when there was a change for each of its attempts: the
run, which has one change, cannot tell, and for any number of changes the proof
needs it.

Only model-checked: liveness under fairness, which is outside the prover's reach
(`CallsReturn`, `PumpEnds`, `AllRead`, `AllSent`, `Answered`, `TunnelEnds`,
`PrimaryResumed`, `Settles`, `ConnectEnds`, `CatchesUp`).

## Not modelled

* The status page reads counters and prints them. `ffi/` and `crypto/` are
  bindings and curve arithmetic; `fallback.rs` and the authorities' keys are
  tables; option parsing and logging have no state the rest depends on.
* The bytes of cells, of SOCKS and HTTP requests, of directory documents and of
  addresses: what a parser accepts is modelled, not how.
* `Pool`: one port is predicted, and the share of onion circuits in the budget is
  zero.
  `CircuitSetup`: after its link has ended, builds fail; reconnecting is in
  `Guards`. `congestion_from` and the stream map of a circuit (`open_stream`
  after `fail_all`, where a reader depends on its one-second look at the closed
  flag) are left out.
* The composition of `Guards` with `Pool` and `CircuitSetup`, in which circuits
  of two channels are open at once, is larger than TLC can explore in minutes.
* `Guards`: a write of the file that fails, which the code logs and goes on from,
  and one that a crash cuts short. After either the file lags behind the list until
  the next save, and `FileCurrent` is about saves that succeed.
* `Directory`: `refresh_window` for times that make no sense, which `ConsensusAssumption`
  excludes. `Onion`: a descriptor is fetched and put into the cache in one step;
  nobody else changes that entry for the better in between.
* `Onion`: an introduction circuit built beside the rendezvous circuit is not
  followed, and so neither are two places that leave one unclosed (below).

## Known limits of the code

The models contain the following behaviours; the properties above are stated so
that they hold in spite of them, and each says where it makes the exception.

* `send_blocked` is set by XOFF and read by nobody (`StreamSend`).
* An XON decided before a newer XOFF may be sent after it, and undoes it
  (`StreamReceive`). `xoff_sent` stays set, so that no other XOFF follows before the
  reader has drained the buffer and sent the next XON.
* `may_retry` checks and `reattach` counts in two holds of a lock, so that a
  reader and a writer together may restart a connection once too often. The
  connection a reader has had bytes from may still be moved, by a writer that
  `may_retry` let through before the reader took note: answers then come from two
  attempts, and since the replay was called off and its bytes dropped, nothing of
  what was written is on the second. A writer may send on a moved connection before
  the replay is through (`TorStream`).
* Two callers that find the guard list short each add to it. A failed lookup, or
  an outage that ends before the probe, is blamed on the guard. A channel opened
  before its guard was demoted is stored all the same, and a restart may open one
  to a guard the file says is demoted (`Guards`).
* `clear` forgets idle circuits and nobody closes them; those that carry a stream
  stay in the pool and take new ones. The budget is passed by as many as insert
  at once. A circuit chosen for eviction can be handed out before it is closed.
  `retire` reads its measurements twice, and a circuit whose verdict changed in
  between is counted twice, if it was slow and is well, or never, if it was well and
  is slow (`Pool`).
* A reply is put into the one handshake slot whichever hop sent it; only `finish`
  tells it from the right one. A circuit may be registered on a channel whose
  table was just cleared; its first send fails and closes it. A path built afresh
  to a named relay is not compared with its guard, which `path.rs` says of every
  pair of relays on a path (`CircuitSetup`).
* A client's EOF ends one direction only, and the tunnel lives until the Tor side
  ends; a client that is gone, with a far end that says nothing, keeps both.
  The final join may wait for a writer that waits for a window (`Proxy`).
* A period may turn between the lookup of the subcredential and of the
  descriptor; the attempt then fails at the service and the next succeeds. A
  thread whose circuit failed discards whatever circuit the service has by then,
  another thread's included, so that two can push each other aside; `pushed`
  records it. Circuits past their age are dropped from the map and not closed. A
  descriptor's revision is not compared with one seen before, and a fetch fails as
  not found when the last node asked said so, whatever the others did (`Onion`).
* A consensus that a refresh then refuses as no newer has been stored in the cache
  by that time, and if one of the two stores fails the files do not match; the
  next start downloads afresh. A `$` after the first command of a diff is the
  base's last line, which differs from ed once lines were appended at the end. `download` is documented to fall back to the whole
  document when a patched one fails verification, and returns the error instead;
  the retry makes up for it (`Directory`).

Seen while reading, and outside the models: `decrypt_inbound` is documented to
leave every hop's state untouched when nobody recognises a cell, and has by then
advanced the ciphers of every hop; `add_stub` and `clear` close circuits while
holding the pool's lock, which the comment on `retire` says is never done;
`rendezvous::establish` and `introduce` leave an introduction circuit open when
the order of the points or the handshake cannot be drawn; `Circuit::new_on` leaves
its ID registered when the pump's thread cannot be started.
