----------------------------- MODULE Consensus -----------------------------
(***************************************************************************)
(* Directory documents: consensuses with their signatures, the key         *)
(* certificates that make the signatures count, and consensus diffs        *)
(* (src/tor/dir/consensus.rs, authority.rs, diff.rs).                      *)
(*                                                                         *)
(* A document is a sequence of lines.  A digest is modelled by what it     *)
(* covers, so two digests are equal only if the texts are; a signature     *)
(* names the text it was made over.  What the body of a consensus says is  *)
(* its valid-after time and which relays it lists.                         *)
(***************************************************************************)
EXTENDS Integers, Sequences, FiniteSets, SequencesExt

CONSTANTS Authorities,   \* AUTHORITIES: the identities embedded in the program
          Life,          \* valid-until less valid-after
          Interval       \* fresh-until less valid-after

ASSUME ConsensusAssumption ==
    /\ IsFiniteSet(Authorities) /\ Authorities # {} /\ "stranger" \notin Authorities
    /\ Interval \in Nat \ {0} /\ Life \in Nat /\ Life > Interval

\* Lines: the header up to valid-after, the relays, a directory-signature.
After(e)              == [kind |-> "after", time |-> e]
Relays(r)             == [kind |-> "relays", list |-> r]
Signature(a, k, part) == [kind |-> "signature", id |-> a, key |-> k, over |-> part]

AfterLines     == [kind : {"after"}, time : Nat]
RelaysLines    == [kind : {"relays"}, list : Int]
SignatureLines == [kind : {"signature"}, id : Authorities \cup {"stranger"}, key : Nat,
                   over : AfterLines \X RelaysLines]
Lines          == AfterLines \cup RelaysLines \cup SignatureLines

-----------------------------------------------------------------------------
(* Signatures and certificates.                                            *)

SignatureAt(text) == {i \in 1..Len(text) : text[i].kind = "signature"}

\* signed_length: what the signatures cover ends where the first one starts.
HasSignature(text) == SignatureAt(text) # {}
SignedPart(text)   ==
    IF HasSignature(text) THEN SubSeq(text, 1, Min(SignatureAt(text)) - 1) ELSE text

Signatures(text) == {text[i] : i \in SignatureAt(text)}

required_certificates(text) ==
    {<<s.id, s.key>> : s \in {t \in Signatures(text) : t.id \in Authorities}}

required_signatures == Cardinality(Authorities) \div 2 + 1

\* A certificate: the authority it names, a signing key, when it ends, whose
\* identity key it carries and whether that key signed it.
Certificate(a, k, until, identity, signed) ==
    [id |-> a, key |-> k, until |-> until, identity |-> identity, signed |-> signed]

\* Mutant of parse_key_certificates: the identity key need not be the named one's.
parse_key_certificates_anyKey(certs, now) ==
    {c \in certs : c.signed /\ now < c.until /\ c.id \in Authorities}

\* parse_key_certificates: those that carry the identity key of the authority
\* they name, are signed by it, are not over and are trusted.
parse_key_certificates(certs, now) ==
    {c \in certs : c.identity = c.id /\ c.signed /\ now < c.until /\ c.id \in Authorities}

\* The authorities with a signature over this text by a key we hold a
\* certificate of.
Signers(text, certs) ==
    {s.id : s \in {t \in Signatures(text) :
        /\ t.over = SignedPart(text) /\ t.id \in Authorities
        /\ \E c \in certs : c.id = t.id /\ c.key = t.key}}

valid_after(text) == text[1].time
valid_until(text) == valid_after(text) + Life

is_live(text, now) == now < valid_until(text)

\* A consensus, as against a diff or an error page: a header and relays.
WellFormed(text) ==
    /\ Len(text) >= 2 /\ text[1].kind = "after"
    /\ \E i \in 1..Len(SignedPart(text)) : text[i].kind = "relays"

parse_and_verify(text, certs, now) ==
    /\ WellFormed(text) /\ HasSignature(text)
    /\ Cardinality(Signers(text, certs)) >= required_signatures
    /\ is_live(text, now)

-----------------------------------------------------------------------------
(* diff.rs: a script of commands on the lines of a base document, between  *)
(* the digest it starts from and the one it promises.                      *)

Dollar == -1      \* the address "$"

Command(act, start, end, insert) ==
    [act |-> act, start |-> start, end |-> end, insert |-> insert]

Commands ==
    [act : {"append", "change", "delete"}, start : Nat \cup {Dollar}, end : Nat \cup {Dollar},
     insert : Seq(Lines)]

Script(from, to, commands) == [from |-> from, to |-> to, commands |-> commands]

\* parse_address.
Address(field, last) == IF field = Dollar THEN last ELSE field

\* What parse_command refuses: an inverted range, line 0 for anything but an
\* append, an append to a range.
Accepted(c, last) ==
    LET s == Address(c.start, last)  e == Address(c.end, last)
    IN  /\ s <= e
        /\ s = 0 => c.act = "append"
        /\ c.act = "append" => s = e

\* Mutant of Hunk: a change leaves the first line of its range in place.
HunkShort(acc, c, lines) ==
    LET last == Len(lines)
        s == Address(c.start, last)  e == Address(c.end, last)
    IN  IF ~acc.ok \/ ~Accepted(c, last) \/ e > last \/ e > acc.j
        THEN [acc EXCEPT !.ok = FALSE]
        ELSE [ok |-> TRUE, j |-> IF c.act = "delete" THEN s - 1 ELSE s,
              kept |-> c.insert \o SubSeq(lines, e + 1, acc.j) \o acc.kept]

\* One command.  The result is put together from the back: j is how much of
\* the base is untouched and kept is what follows it.
Hunk(acc, c, lines) ==
    LET last == Len(lines)
        s == Address(c.start, last)  e == Address(c.end, last)
    IN  IF ~acc.ok \/ ~Accepted(c, last) \/ e > last \/ e > acc.j
        THEN [acc EXCEPT !.ok = FALSE]
        ELSE [ok |-> TRUE, j |-> IF c.act = "append" THEN s ELSE s - 1,
              kept |-> c.insert \o SubSeq(lines, e + 1, acc.j) \o acc.kept]

\* What each number of commands comes to.
Hunks(lines, commands) ==
    LET acc[i \in 0..Len(commands)] ==
            IF i = 0 THEN [ok |-> TRUE, j |-> Len(lines), kept |-> <<>>]
            ELSE Hunk(acc[i - 1], commands[i], lines)
    IN  acc

Patch(lines, commands) ==
    LET end == Hunks(lines, commands)[Len(commands)]
    IN  [ok |-> end.ok, text |-> SubSeq(lines, 1, end.j) \o end.kept]

\* apply: from our signed part, whatever signatures our copy carries, to the
\* whole of the document promised.
Applies(base, script) ==
    LET p == Patch(base, script.commands)
    IN  script.from = SignedPart(base) /\ p.ok /\ p.text = script.to

-----------------------------------------------------------------------------
(* What ed does with the same commands: each edits the document as the     *)
(* commands before it left it, and "$" is the last line of that document.  *)

Edited(text, c, last) ==
    LET s == Address(c.start, last)  e == Address(c.end, last)
    IN  IF c.act = "append"
        THEN SubSeq(text, 1, s) \o c.insert \o SubSeq(text, s + 1, Len(text))
        ELSE SubSeq(text, 1, s - 1) \o c.insert \o SubSeq(text, e + 1, Len(text))

Editions(base, commands) ==
    LET text[i \in 0..Len(commands)] ==
            IF i = 0 THEN base ELSE Edited(text[i - 1], commands[i], Len(text[i - 1]))
    IN  text

Ed(base, commands) == Editions(base, commands)[Len(commands)]

\* "$" in the first command alone: apply takes it for the last line of the base,
\* and after an append there ed's last line is another.
DollarFirst(commands) ==
    \A i \in 2..Len(commands) : Dollar \notin {commands[i].start, commands[i].end}
=============================================================================
