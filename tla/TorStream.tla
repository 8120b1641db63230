----------------------------- MODULE TorStream -----------------------------
(***************************************************************************)
(* A connection that may be moved (src/tor/circuit.rs, struct TorStream):  *)
(* what is written before the far end answers is kept, and when the        *)
(* attempt fails the connection is opened again on another circuit and the *)
(* kept bytes are sent there first.  The reader and the writer of a        *)
(* connection are two threads that share its state, and either may find    *)
(* the failure and move it.                                                *)
(*                                                                         *)
(* An attempt is one stream on one circuit; attempts are numbered in the   *)
(* order they are opened.  Chunks are numbered as they are written.  Flow  *)
(* control is the subject of StreamSend and StreamReceive.                 *)
(***************************************************************************)
EXTENDS Integers, Sequences, FiniteSets

CONSTANTS MaxReattaches,  \* MAX_REATTACHES
          MaxReplay,      \* MAX_REPLAY_BYTES, in chunks
          MaxChunks,      \* bound: chunks the caller writes
          MaxReads,       \* bound: answers that come
          Ends            \* how an attempt may end, before CONNECTED (Ends[FALSE]) and after

Fates == {"ended", "refused", "final", "dead"}

ASSUME TorStreamAssumption ==
    /\ MaxReattaches \in Nat /\ MaxReplay \in Nat
    /\ MaxChunks \in Nat /\ MaxReads \in Nat
    /\ Ends \in [BOOLEAN -> SUBSET Fates]

Threads  == {"reader", "writer"}

\* Both threads may each pass may_retry's check before either counts.
Attempts == 0..MaxReattaches + 1

VARIABLES
    movable,     \* whether reattach is set, as it is for what connect and connect_onion
                 \* open: relay.rs reads and writes these at once.  A directory request
                 \* cannot be moved, and is written and then read
    live,        \* StreamState.live: the attempt that carries the connection
    buffered,    \* Replay.buffered, as chunk numbers
    allowed,     \* Replay.allowed
    attempts,    \* Replay.attempts
    pc,          \* where each thread is
    on,          \* the attempt each thread cloned from live, or has opened
    todo,        \* chunks a thread in reattach has still to replay
    written,     \* chunks the caller has been told are written
    opened,      \* attempts opened so far
    fate,        \* of each attempt: open, or one of Fates: ended (a clean close), refused (by
                 \* the exit), final (by the destination) or dead (its circuit is)
    connected,   \* StreamBuf.connected
    answer,      \* attempts with data in StreamBuf.data
    carried,     \* chunks that reached the far end of each attempt
    heard,       \* attempts each read so far took its bytes from
    owed,        \* history: chunks written when a thread counted the move it makes, 0 if
                 \* replay had been called off by then
    late         \* history: attempts opened after replay was called off

replay  == <<buffered, allowed, attempts>>
history == <<owed, late>>
caller  == <<written, heard, history>>
net     == <<opened, fate, connected, answer, carried>>
vars    == <<movable, live, replay, pc, on, todo, caller, net>>

Init ==
    /\ movable \in BOOLEAN
    /\ live = 0
    /\ buffered = <<>> /\ allowed = TRUE /\ attempts = 0
    /\ pc = [t \in Threads |-> "idle"]
    /\ on = [t \in Threads |-> 0]
    /\ todo = [t \in Threads |-> <<>>]
    /\ written = 0 /\ heard = <<>>
    /\ owed = [t \in Threads |-> 0] /\ late = 0
    /\ opened = 1
    /\ fate = [k \in Attempts |-> "open"]
    /\ connected = [k \in Attempts |-> FALSE]
    /\ answer = {}
    /\ carried = [k \in Attempts |-> <<>>]

Goto(t, where) == pc' = [pc EXCEPT ![t] = where]

\* What is not relayed has one caller, which is in one call at a time.
Alone(t) == movable \/ \A u \in Threads \ {t} : pc[u] \in {"idle", "error"}

\* Mutant of NoteEstablished: the answer is not taken note of.
NoteEstablishedNot == UNCHANGED replay

\* note_established: the far end has answered, so nothing is kept any more.
NoteEstablished ==
    /\ allowed' = FALSE
    /\ buffered' = IF allowed THEN <<>> ELSE buffered
    /\ UNCHANGED attempts

-----------------------------------------------------------------------------
(* Write::write.                                                           *)

\* Mutant of WriterCloned: the chunk is kept before it is sent.
WriterClonedAndKept ==
    /\ on' = [on EXCEPT !["writer"] = live]
    /\ buffered' = IF allowed THEN Append(buffered, written + 1) ELSE buffered
    /\ Goto("writer", "send")
    /\ UNCHANGED <<movable, live, allowed, attempts, todo, caller, net>>

\* Clone live; a stream that is connected needs no replay any more.
WriterCloned ==
    /\ on' = [on EXCEPT !["writer"] = live]
    /\ IF connected[live] THEN NoteEstablished ELSE UNCHANGED replay
    /\ Goto("writer", "send")
    /\ UNCHANGED <<movable, live, todo, caller, net>>

Write ==
    /\ pc["writer"] = "idle" /\ Alone("writer") /\ written < MaxChunks
    /\ WriterCloned

WriterClones == pc["writer"] = "clone" /\ WriterCloned

\* send_stream_data succeeds.  On a circuit that has died its cell is still
\* taken by a channel that is up, and goes nowhere.
Accepts(k) == fate[k] \in {"open", "dead"}
Carry(k, chunk) ==
    carried' = IF fate[k] = "open" THEN [carried EXCEPT ![k] = Append(@, chunk)] ELSE carried

WriterSends ==
    /\ pc["writer"] = "send" /\ Accepts(on["writer"])
    /\ Carry(on["writer"], written + 1)
    /\ Goto("writer", "record")
    /\ UNCHANGED <<movable, live, replay, on, todo, caller, opened, fate, connected, answer>>

\* It fails: the far end closed the stream, or the circuit is gone.
WriterFails ==
    /\ pc["writer"] = "send" /\ fate[on["writer"]] # "open"
    /\ Goto("writer", "failed")
    /\ UNCHANGED <<movable, live, replay, on, todo, caller, net>>

\* record_written, in its own hold of the replay lock; then write returns.
WriterRecords ==
    /\ pc["writer"] = "record"
    /\ written' = written + 1
    /\ IF ~allowed THEN UNCHANGED replay
       ELSE /\ allowed' = (Len(buffered) + 1 <= MaxReplay)
            /\ buffered' = IF allowed' THEN Append(buffered, written + 1) ELSE <<>>
            /\ UNCHANGED attempts
    /\ Goto("writer", "idle")
    /\ UNCHANGED <<movable, live, on, todo, heard, history, net>>

-----------------------------------------------------------------------------
(* Read::read.                                                             *)

ReaderCloned ==
    /\ on' = [on EXCEPT !["reader"] = live]
    /\ Goto("reader", "read")
    /\ UNCHANGED <<movable, live, replay, todo, caller, net>>

Read         == pc["reader"] = "idle" /\ Alone("reader") /\ ReaderCloned
ReaderClones == pc["reader"] = "clone" /\ ReaderCloned

\* read_stream returns bytes: buffered data comes before any failure.
ReaderReads ==
    /\ pc["reader"] = "read" /\ on["reader"] \in answer
    /\ answer' = answer \ {on["reader"]}
    /\ heard' = Append(heard, on["reader"])
    /\ Goto("reader", "established")
    /\ UNCHANGED <<movable, live, replay, on, todo, written, history, opened, fate, connected, carried>>

\* note_established, and then release_backpressure, which fails if its cell is refused.
ReaderEstablishes ==
    /\ pc["reader"] = "established"
    /\ NoteEstablished
    /\ \/ Goto("reader", "idle")
       \/ fate[on["reader"]] = "dead" /\ Goto("reader", "error")
    /\ UNCHANGED <<movable, live, on, todo, caller, net>>

\* A clean close reads as end of file, which is an answer too.
ReaderEof ==
    /\ pc["reader"] = "read" /\ on["reader"] \notin answer /\ fate[on["reader"]] = "ended"
    /\ Goto("reader", "established")
    /\ UNCHANGED <<movable, live, replay, on, todo, caller, net>>

ReaderFails ==
    /\ pc["reader"] = "read" /\ on["reader"] \notin answer
    /\ fate[on["reader"]] \notin {"open", "ended"}
    /\ Goto("reader", "failed")
    /\ UNCHANGED <<movable, live, replay, on, todo, caller, net>>

-----------------------------------------------------------------------------
(* may_retry and reattach, by either thread.                               *)

\* A refusal that would be the same from anywhere is final; so is any failure of a
\* stream that nobody said how to open again.
WorthIt(t) == fate[on[t]] \in {"refused", "dead"} /\ movable

MayRetry(t) ==
    /\ pc[t] = "failed" /\ WorthIt(t)
    /\ allowed /\ attempts < MaxReattaches
    /\ Goto(t, "count")
    /\ UNCHANGED <<movable, live, replay, on, todo, caller, net>>

GiveUp(t) ==
    /\ pc[t] = "failed"
    /\ ~(WorthIt(t) /\ allowed /\ attempts < MaxReattaches)
    /\ Goto(t, "error")
    /\ UNCHANGED <<movable, live, replay, on, todo, caller, net>>

\* Mutant of Count: the attempt is counted and nothing is copied.
CountOnly(t) ==
    /\ pc[t] = "count"
    /\ attempts' = attempts + 1
    /\ owed' = [owed EXCEPT ![t] = IF allowed THEN written ELSE 0]
    /\ Goto(t, "open")
    /\ UNCHANGED <<movable, live, buffered, allowed, on, todo, written, heard, late, net>>

\* reattach counts the attempt and copies what is kept.
Count(t) ==
    /\ pc[t] = "count"
    /\ attempts' = attempts + 1
    /\ todo' = [todo EXCEPT ![t] = buffered]
    /\ owed' = [owed EXCEPT ![t] = IF allowed THEN written ELSE 0]
    /\ Goto(t, "open")
    /\ UNCHANGED <<movable, live, buffered, allowed, on, written, heard, late, net>>

\* It opens the connection elsewhere and makes the new attempt the live one; nobody else
\* knows of it before that.  Then it sends the copy on it.
Open(t) ==
    /\ pc[t] = "open"
    /\ opened' = opened + 1
    /\ on' = [on EXCEPT ![t] = opened]
    /\ live' = opened
    /\ late' = IF allowed THEN late ELSE late + 1
    /\ Goto(t, "replay")
    /\ UNCHANGED <<movable, replay, todo, written, heard, owed, fate, connected, answer, carried>>

\* Or it fails to.
OpenFails(t) ==
    /\ pc[t] = "open"
    /\ Goto(t, "error")
    /\ UNCHANGED <<movable, live, replay, on, todo, caller, net>>

Replay(t) ==
    /\ pc[t] = "replay" /\ todo[t] # <<>> /\ Accepts(on[t])
    /\ Carry(on[t], Head(todo[t]))
    /\ todo' = [todo EXCEPT ![t] = Tail(@)]
    /\ UNCHANGED <<movable, live, replay, pc, on, caller, opened, fate, connected, answer>>

ReplayFails(t) ==
    /\ pc[t] = "replay" /\ todo[t] # <<>> /\ fate[on[t]] # "open"
    /\ Goto(t, "error")
    /\ UNCHANGED <<movable, live, replay, on, todo, caller, net>>

\* Back to the loop of read or write.
Again(t) ==
    /\ pc[t] = "replay" /\ todo[t] = <<>>
    /\ owed' = [owed EXCEPT ![t] = 0]
    /\ Goto(t, "clone")
    /\ UNCHANGED <<movable, live, replay, on, todo, written, heard, late, net>>

Reattach(t) ==
    \/ MayRetry(t) \/ GiveUp(t) \/ Count(t) \/ Open(t) \/ OpenFails(t)
    \/ Replay(t) \/ ReplayFails(t) \/ Again(t)

-----------------------------------------------------------------------------
(* The far end and the circuit of an attempt.                              *)

\* What happens to an attempt that is not live and that no call is about is of no account:
\* the next call takes the live one.
Held == {live} \cup {on[t] : t \in {u \in Threads : pc[u] \notin {"idle", "clone", "error"}}}

FarConnected(k) ==
    /\ fate[k] = "open" /\ ~connected[k]
    /\ connected' = [connected EXCEPT ![k] = TRUE]
    /\ UNCHANGED <<movable, live, replay, pc, on, todo, caller, opened, fate, answer, carried>>

FarData(k) ==
    /\ fate[k] = "open" /\ connected[k] /\ k \notin answer
    /\ Len(heard) + Cardinality(answer) < MaxReads
    /\ answer' = answer \cup {k}
    /\ UNCHANGED <<movable, live, replay, pc, on, todo, caller, opened, fate, connected, carried>>

FarFails(k) ==
    /\ fate[k] = "open"
    /\ \E f \in Ends[connected[k]] : fate' = [fate EXCEPT ![k] = f]
    /\ UNCHANGED <<movable, live, replay, pc, on, todo, caller, opened, connected, answer, carried>>

Far(k) == FarConnected(k) \/ FarData(k) \/ FarFails(k)

-----------------------------------------------------------------------------

Writes == WriterClones \/ WriterSends \/ WriterFails \/ WriterRecords \/ Reattach("writer")
Reads  == \/ ReaderClones \/ ReaderReads \/ ReaderEstablishes \/ ReaderFails
          \/ Reattach("reader")

Writer == Write \/ Writes
Reader == Read \/ Reads \/ ReaderEof

Next == Writer \/ Reader \/ \E k \in Held : Far(k)

Spec == Init /\ [][Next]_vars

-----------------------------------------------------------------------------

Places ==
    {"idle", "clone", "send", "record", "read", "established", "failed", "count", "open",
     "replay", "error"}

TypeOK ==
    /\ movable \in BOOLEAN /\ live \in Attempts
    /\ buffered \in Seq(1..MaxChunks) /\ Len(buffered) <= MaxReplay
    /\ allowed \in BOOLEAN /\ attempts \in Attempts
    /\ pc \in [Threads -> Places] /\ on \in [Threads -> Attempts]
    /\ todo \in [Threads -> Seq(1..MaxChunks)]
    /\ written \in 0..MaxChunks /\ heard \in Seq(Attempts)
    /\ owed \in [Threads -> 0..MaxChunks] /\ late \in Nat
    /\ opened \in 1..MaxReattaches + 2
    /\ fate \in [Attempts -> Fates \cup {"open"}]
    /\ connected \in [Attempts -> BOOLEAN] /\ answer \subseteq Attempts
    /\ carried \in [Attempts -> Seq(1..MaxChunks)]

Quiet == pc["writer"] = "idle" /\ pc["reader"] \in {"idle", "clone", "read", "established"}

\* While no call is sending or moving the connection, an attempt that is still
\* open has been sent exactly what the caller wrote, in order: the replay makes
\* the move invisible.
ReplayFaithful ==
    Quiet /\ fate[live] = "open" => carried[live] = [i \in 1..written |-> i]

\* By the end of a move everything that had been written when reattach counted it is on
\* the new attempt, in order, whatever the other thread writes or moves meanwhile.  Only
\* what is written later may be missing (see ReplayFaithful), or everything if the
\* replay was called off between may_retry and reattach.
ReplayWhole ==
    \A t \in Threads :
        pc[t] = "replay" /\ todo[t] = <<>> /\ fate[on[t]] = "open" =>
            LET sent == carried[on[t]] IN
            /\ \A i \in 1..owed[t] : \E p \in 1..Len(sent) : sent[p] = i
            /\ \A p, q \in 1..Len(sent) : sent[p] < sent[q] /\ sent[q] <= owed[t] => p < q

\* An answer settles where the connection is: a reader that has had one does not move it
\* any more and never goes back to an earlier attempt, and once the replay is called off
\* there is at most one more move, by the thread that may_retry had let through before.
AnswerSettles ==
    /\ pc["reader"] \in {"count", "open", "replay"} => heard = <<>>
    /\ late <= 1
    /\ \A i, j \in 1..Len(heard) : i <= j => heard[i] <= heard[j]

\* However the two threads meet, no chunk reaches the same attempt twice.
NoDuplicates ==
    \A k \in Attempts : \A i, j \in 1..Len(carried[k]) :
        carried[k][i] = carried[k][j] => i = j
=============================================================================
