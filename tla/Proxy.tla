------------------------------- MODULE Proxy -------------------------------
(***************************************************************************)
(* The front end (src/socks5.rs, src/relay.rs, src/main.rs) on top of a    *)
(* connection that may move (TorStream): a local client's request is read, *)
(* waits for the Tor client to be ready, is connected and answered, and    *)
(* then two threads carry bytes both ways: c2t from the client to Tor, and *)
(* the connection's own thread back.  A connection without a front end is  *)
(* a directory request's, which is not moved.                              *)
(*                                                                         *)
(* A request is its protocol and what is in it; the bytes that follow are  *)
(* chunks, numbered as the client sends them.                              *)
(***************************************************************************)
EXTENDS TorStream

CONSTANTS Protocols,  \* Protocol
          Errors,     \* what connect may fail with, see reply_code
          MaxEarly    \* bound: chunks sent before the answer

VARIABLES
    ready,  \* Front.client: whether the Tor client is there
    front   \* the connection: pc, protocol, asked (what is in the request), input (the
            \* client's bytes not yet read), sent (chunks it has sent), shut (its socket is),
            \* replies, c2t (whether it runs), hand (the chunk it took last), closed (the stream is)

pvars == <<vars, ready, front>>

Requests == {"host", "onion", "bad onion", "not supported", "status", "garbage"}

\* The answer to a request, and the codes of send_reply: a protocol that has only granted
\* and rejected says no more.
Succeeded == 0
send_reply(protocol, code) ==
    IF protocol = "Socks4" THEN (IF code = Succeeded THEN 90 ELSE 91)
    ELSE IF protocol = "Http" THEN (CASE code = Succeeded -> 200 [] code = 2 -> 403 [] code = 4 -> 404
                                      [] code = 6 -> 504 [] OTHER -> 502)
    ELSE code
\* What the client makes of it.
Says(protocol, code) == IF send_reply(protocol, code) \in {0, 90, 200} THEN "granted" ELSE "refused"

reply_code(e) ==
    CASE e \in {"exit policy", "denied"} -> 2
      [] e \in {"resolve failed", "no route", "not found"} -> 4
      [] e = "refused" -> 5
      [] e = "timeout" -> 6
      [] OTHER -> 1

NoFront == [pc |-> "none", protocol |-> "none", asked |-> "none", input |-> <<>>, sent |-> 0, shut |-> FALSE,
            replies |-> <<>>, c2t |-> "none", hand |-> 0, closed |-> FALSE]

ProxyInit ==
    /\ Init
    /\ \/ ~movable /\ ready = TRUE /\ front = NoFront
       \/ /\ movable /\ ready = FALSE
          /\ \E p \in Protocols, r \in Requests :
                front = [NoFront EXCEPT !.pc = "negotiate", !.protocol = p, !.asked = r, !.input = <<0>>]

OnlyFront == UNCHANGED <<vars, ready>>

-----------------------------------------------------------------------------
(* The client.                                                             *)

HasFront == front.pc # "none"

\* It may send before it is answered.  What it sends later is read as it comes, see
\* C2TReads.
ClientSends ==
    /\ HasFront /\ front.pc \notin {"tunnel", "over", "join", "done", "exited"} /\ front.sent < MaxEarly
    /\ front' = [front EXCEPT !.input = Append(@, front.sent + 1), !.sent = @ + 1]
    /\ OnlyFront

-----------------------------------------------------------------------------
(* handle.                                                                 *)

Stage(from, to) == front.pc = from /\ front' = [front EXCEPT !.pc = to]

\* Mutant of Taken: a reader with a buffer, which takes what comes after the request too.
TakenBuffered(input) == <<>>

\* The request is read byte by byte, and nothing after it.
Taken(input) == Tail(input)

\* negotiate: a request, the status page, or the end, answered where the protocol
\* has an answer; or the client does not finish in time.
Negotiate ==
    /\ front.pc = "negotiate"
    /\ LET read == [front EXCEPT !.input = Taken(@)] IN
       \/ /\ front.asked \in {"host", "onion", "bad onion"}
          /\ front' = [read EXCEPT !.pc = "wait"]
       \/ /\ front.asked = "not supported"
          /\ \E code \in {1, 7, 8} :
                front' = [read EXCEPT !.pc = "done", !.replies = <<Says(front.protocol, code)>>]
       \/ /\ front.asked = "status" /\ front.protocol = "Http"
          /\ front' = [read EXCEPT !.pc = "done", !.replies = <<"page">>]
       \/ front' = [front EXCEPT !.pc = "done"]
    /\ OnlyFront

\* wait_for_client: under its lock, look and otherwise sleep.
WaitForClient ==
    /\ Stage("wait", IF ready THEN "connect" ELSE "asleep")
    /\ OnlyFront

\* Mutant of set_ready: nobody is woken.
set_readyQuietly ==
    /\ ~ready /\ ready' = TRUE
    /\ UNCHANGED <<vars, front>>

\* set_ready, when the bootstrap is done: all who wait are woken.
set_ready ==
    /\ ~ready /\ ready' = TRUE
    /\ front' = IF front.pc = "asleep" THEN [front EXCEPT !.pc = "wait"] ELSE front
    /\ UNCHANGED vars

\* The bootstrap fails, and the process ends.
BootstrapFails ==
    /\ ~ready /\ front.pc \in {"wait", "asleep"} /\ front' = [front EXCEPT !.pc = "exited"]
    /\ OnlyFront

\* connect: an address that is no onion address is not found; anything else is a stream
\* or an error, which is the reply.
Connects ==
    /\ front.asked # "bad onion" /\ Stage("connect", "reply")
    /\ OnlyFront

ConnectFails ==
    /\ front.pc = "connect"
    /\ \E e \in IF front.asked = "bad onion" THEN {"not found"} ELSE Errors :
          front' = [front EXCEPT !.pc = "done", !.replies = Append(@, Says(front.protocol, reply_code(e)))]
    /\ OnlyFront

\* The reply is sent and the two directions start; or it cannot be, and the stream is
\* closed.
Replies ==
    /\ front.pc = "reply"
    /\ \/ front' = [front EXCEPT !.pc = "close"]
       \/ front' = [front EXCEPT !.pc = "tunnel", !.c2t = "runs", !.protocol = "none", !.asked = "none",
                                   !.replies = Append(@, Says(front.protocol, Succeeded))]
    /\ OnlyFront

-----------------------------------------------------------------------------
(* bidirectional.                                                          *)

\* c2t: io::copy reads a chunk and writes it to Tor, until the client's end of file or an
\* error of either.
C2TReads ==
    /\ front.c2t = "runs" /\ ~front.shut /\ Write
    /\ LET queued == Len(front.input) > 0
           next   == IF queued THEN front ELSE [front EXCEPT !.input = <<front.sent + 1>>, !.sent = @ + 1]
       IN  front' = [next EXCEPT !.hand = Head(next.input), !.input = Tail(@)]
    /\ UNCHANGED ready

C2TEnds ==
    /\ front.c2t = "runs"
    /\ pc["writer"] = "error" \/ (pc["writer"] = "idle" /\ front.shut)
    /\ front' = [front EXCEPT !.c2t = "ended"]
    /\ OnlyFront

\* The client sends no more, or has left.
C2TEof ==
    /\ front.c2t = "runs" /\ pc["writer"] = "idle" /\ front' = [front EXCEPT !.c2t = "ended"]
    /\ OnlyFront

\* The other direction, on the connection's own thread: what was read from Tor is written
\* to the client, and read again.
T2CReads == front.pc = "tunnel" /\ Read /\ UNCHANGED <<ready, front>>

\* The end of file.
T2CEof == front.pc = "tunnel" /\ ReaderEof /\ front' = [front EXCEPT !.pc = "over"] /\ UNCHANGED ready

\* An error of either, for the client may have left when it is written to: as at the end
\* of file, its socket is shut, for c2t to end too.
T2CFails ==
    /\ front.pc = "tunnel"
    /\ pc["reader"] = "error" \/ (pc["reader"] = "idle" /\ heard # <<>>)
    /\ front' = [front EXCEPT !.pc = "join", !.shut = TRUE]
    /\ OnlyFront

\* Mutant of Shutdown: the client's socket is left open.
ShutdownNot ==
    /\ front.pc = "over" /\ pc["reader"] \in {"idle", "error"}
    /\ front' = [front EXCEPT !.pc = "join"]
    /\ OnlyFront

\* Its end shuts the client's socket, for c2t to end too.
Shutdown ==
    /\ front.pc = "over" /\ pc["reader"] \in {"idle", "error"}
    /\ front' = [front EXCEPT !.pc = "join", !.shut = TRUE]
    /\ OnlyFront

\* handle closes the stream at its end, once c2t is joined.
Close ==
    /\ front.pc = "close" \/ (front.pc = "join" /\ front.c2t = "ended")
    /\ front' = [front EXCEPT !.pc = "done", !.closed = TRUE]
    /\ OnlyFront

-----------------------------------------------------------------------------

Handle == \/ Negotiate \/ WaitForClient \/ Connects \/ ConnectFails \/ Replies
          \/ T2CReads \/ T2CEof \/ T2CFails \/ Shutdown \/ Close
C2T    == C2TReads \/ C2TEnds
Client == ClientSends \/ C2TEof

\* There is a stream: begun, and not yet closed.
Up == front.pc \in {"none", "reply", "tunnel", "over", "join", "close"}

\* The connection underneath.
StreamSteps(A) == A /\ UNCHANGED <<ready, front>>

ProxyNext ==
    \/ Handle \/ C2T \/ Client \/ set_ready \/ BootstrapFails
    \/ StreamSteps(Writes) \/ StreamSteps(Reads)
    \/ ~HasFront /\ StreamSteps(Write \/ Read \/ ReaderEof)
    \/ Up /\ \E k \in Held : StreamSteps(Far(k))

(***************************************************************************)
(* Both threads run on, in handle or bidirectional and in the calls of     *)
(* read and write these make, and the bootstrap ends one way or the other; *)
(* the client and the far end need do nothing.                             *)
(***************************************************************************)
ProxySpec ==
    /\ ProxyInit /\ [][ProxyNext]_pvars
    /\ WF_pvars(Handle \/ StreamSteps(Reads)) /\ WF_pvars(C2T \/ StreamSteps(Writes))
    /\ WF_pvars(set_ready)

-----------------------------------------------------------------------------
(* Properties.                                                             *)

\* A client gets at most one answer, and granted only for a stream it has; what it sent,
\* be it before the answer, goes into the stream from its first byte on with nothing
\* left out; and it gets nothing from the stream before the answer.
Verbatim ==
    HasFront =>
        /\ Len(front.replies) <= 1
        /\ front.replies = <<"granted">> <=> front.c2t # "none"
        /\ front.hand \in {written, written + 1}
        /\ front.pc # "negotiate" /\ front.replies # <<>> => front.sent = front.hand + Len(front.input)
        /\ heard # <<>> => front.replies = <<"granted">>

\* A request that arrives before the Tor client is ready is not forgotten: it waits and
\* is then answered, unless its client leaves or the program ends.
Answered ==
    front.pc = "wait" ~> front.pc \in {"exited", "close"} \/ front.replies # <<>>

\* Once the stream has given its last byte, or an error no move could mend, everything
\* comes to an end: the other direction, the client's socket and the stream, even if
\* the client goes on sending or says nothing.
TunnelEnds ==
    HasFront /\ (front.pc \in {"over", "join", "close"} \/ pc["reader"] = "error") ~>
        front.closed /\ front.c2t \in {"none", "ended"}
=============================================================================
