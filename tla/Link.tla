-------------------------------- MODULE Link --------------------------------
(***************************************************************************)
(* The link handshake of a channel (Channel::connect of                    *)
(* src/tor/channel.rs, validate_responder of src/tor/certs.rs): over a TLS *)
(* connection whose other end may be anybody, the client settles the link  *)
(* version and takes the responder's CERTS and NETINFO, and so learns      *)
(* which relay it is talking to.                                           *)
(*                                                                         *)
(* A relay is its identity key, its signing key and its TLS certificate,   *)
(* all named by the relay; a certificate says which key signed what.       *)
(***************************************************************************)
EXTENDS Path

CONSTANTS Impostors,          \* relays that may answer at another's address
          SupportedVersions,  \* SUPPORTED_VERSIONS
          OtherVersions,      \* versions only a responder may offer
          MaxCells            \* the cells of a handshake (16 in the code)

ASSUME LinkAssumption == SupportedVersions \subseteq Nat /\ MaxCells \in Nat

VARIABLE link
\* pc: none, versions, cells, up, ended (closed is stored), down (and the circuits
\* dropped); guard: the relay that was asked for; want: its identity, if the directory gave
\* one; peer: the relay at the other end; id: the identity it has proved; read: cells

Nobody == "nobody"

NoLink == [pc |-> "none", guard |-> Nobody, want |-> Nobody, peer |-> Nobody,
           id |-> Nobody, read |-> 0]

LinkInit == link = NoLink

LinkGoto(where) == link' = [link EXCEPT !.pc = where]

\* TCP and TLS: whoever answers at that address has a TLS certificate of its own.
Connect(guard, want) ==
    /\ link.pc = "none"
    /\ \E peer \in {guard} \cup Impostors :
          link' = [NoLink EXCEPT !.pc = "versions", !.guard = guard, !.want = want, !.peer = peer]

\* negotiate_versions: some version both sides offer (the highest of them, which only
\* settles how wide a circuit ID is written); an answer that is no VERSIONS cell, or
\* has none in common, ends the connection.
Versions ==
    /\ link.pc = "versions"
    /\ \/ \E offered \in SUBSET (SupportedVersions \cup OtherVersions) :
             LinkGoto(IF offered \cap SupportedVersions = {} THEN "down" ELSE "cells")
       \/ LinkGoto("down")

-----------------------------------------------------------------------------
(* CERTS.                                                                  *)

\* kind 4: identity key `by` certifies signing key `of`; kind 5: signing key `by`
\* certifies TLS certificate `of`.  sound: it parses, has the types it should
\* have, and the signature is that of `by`.
Cert(kind, by, of, sound, late) == [kind |-> kind, by |-> by, of |-> of, sound |-> sound, late |-> late]

\* What a responder can put into a CERTS cell: what it signs itself, what any
\* relay has published, some of it long ago, and, not properly signed, its own keys in any
\* relay's name.
Offerable(peer) ==
    {Cert(k, by, of, TRUE, FALSE) : k \in {4, 5}, by \in {peer}, of \in Relays}
    \cup {Cert(k, r, r, TRUE, late) : k \in {4, 5}, r \in Relays, late \in BOOLEAN}
    \cup {Cert(k, by, of, FALSE, FALSE) : k \in {4, 5}, by \in Relays, of \in {peer}}

\* Mutant of validate_responder: the signature of the identity key is not checked.
validate_responder_unsigned(certs, tls) ==
    LET of(kind) == {c \in certs : c.kind = kind}
        good == {p \in of(4) \X of(5) : /\ ~p[1].late
                                        /\ p[2].sound /\ p[2].by = p[1].of /\ ~p[2].late
                                        /\ p[2].of = tls}
    IN  IF Cardinality(of(4)) # 1 \/ Cardinality(of(5)) # 1 \/ good = {} THEN Nobody
        ELSE (CHOOSE p \in good : TRUE)[1].by

\* validate_responder: exactly one certificate of each kind; the identity key
\* certifies a signing key, which certifies the TLS certificate we saw; neither
\* is expired.  The identity, or nobody.
validate_responder(certs, tls) ==
    LET of(kind) == {c \in certs : c.kind = kind}
        good == {p \in of(4) \X of(5) : /\ p[1].sound /\ ~p[1].late
                                        /\ p[2].sound /\ p[2].by = p[1].of /\ ~p[2].late
                                        /\ p[2].of = tls}
    IN  IF Cardinality(of(4)) # 1 \/ Cardinality(of(5)) # 1 \/ good = {} THEN Nobody
        ELSE (CHOOSE p \in good : TRUE)[1].by

\* read_responder_handshake, one cell at a time: CERTS is checked, padding and
\* the challenge are passed over, NETINFO ends it, anything else is an error; so
\* are too many cells.
Reads == link.pc = "cells" /\ link.read < MaxCells

Certs ==
    /\ Reads
    /\ \E a, b, c \in Offerable(link.peer) :
          LET id == validate_responder({a, b, c}, link.peer) IN
          link' = IF id = Nobody THEN [link EXCEPT !.pc = "down"]
                  ELSE [link EXCEPT !.id = id, !.read = @ + 1]

Passed == Reads /\ link' = [link EXCEPT !.read = @ + 1]

\* NETINFO, and the identity is compared with the one that is wanted; the
\* client's own NETINFO ends the handshake and the I/O thread takes over.
Netinfo ==
    /\ Reads
    /\ link' = IF link.id = Nobody \/ (link.want # Nobody /\ link.id # link.want)
               THEN [link EXCEPT !.pc = "down"] ELSE [link EXCEPT !.pc = "up", !.read = 0]

\* An unexpected cell, the limit of cells, or the connection breaks.
HandshakeFails == link.pc = "cells" /\ LinkGoto("down")

\* io_loop ends: the peer hangs up, a read or a write fails, or Channel::close
\* was called.  closed is stored first.
LinkEnds == link.pc = "up" /\ LinkGoto("ended")

Handshake == Versions \/ Certs \/ Passed \/ Netinfo \/ HandshakeFails

-----------------------------------------------------------------------------
(* Property.                                                               *)

\* A channel that is up leads to the relay whose identity it says it has proved, and
\* to the relay that was asked for if its identity was known: no choice of
\* certificates, its own, others' or broken, lets another relay stand in for it.
LinkProven ==
    link.pc \in {"up", "ended"} =>
        /\ link.id = link.peer
        /\ link.want # Nobody => link.peer = link.want
=============================================================================
