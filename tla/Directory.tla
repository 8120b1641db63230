----------------------------- MODULE Directory -----------------------------
(***************************************************************************)
(* The client's view of the network (src/tor/dir/mod.rs, fetch.rs,         *)
(* cache.rs; bootstrap and refresh_consensus of client.rs; maintain.rs):   *)
(* it is loaded from the cache or downloaded when the process starts, and  *)
(* refreshed by the maintenance thread as it ages.  One thread at a time   *)
(* does either, so there is one program counter; what is concurrent are    *)
(* the clock, the directory servers and the crash of the process.          *)
(*                                                                         *)
(* Directory servers answer what they like: an up-to-date or an old        *)
(* consensus, a diff, a forgery signed by the authorities in Compromised   *)
(* and by the server itself in the names of the others, certificates of    *)
(* its own making, or nothing, until the clock reaches MaxClock; from then *)
(* on they are honest and answer, and a wait that would end after MaxClock *)
(* ends there.                                                             *)
(***************************************************************************)
EXTENDS Consensus

CONSTANTS Compromised,    \* authorities that sign anything
          Rotation,       \* valid-after from which the second signing keys are used
          Retired,        \* when the certificates of the first signing keys end
          RetryMin, RetryMax, ExpiredRetry, NotModifiedRetry,
          MaxClock,       \* bound: the clock stops
          MaxCrashes,     \* bound: crashes of the process
          MaxOdd,         \* bound: answers that are not the newest document, or its
                          \* certificates, and stores that fail
          Edits           \* the commands of scripts an odd server sends

ASSUME DirectoryAssumption ==
    /\ Compromised \subseteq Authorities
    /\ Cardinality(Compromised) < required_signatures
    /\ required_signatures <= Cardinality(Authorities \ Compromised)
    /\ {Rotation, Retired, MaxClock, MaxCrashes, MaxOdd} \subseteq Nat
    /\ {RetryMin, RetryMax, ExpiredRetry, NotModifiedRetry} \subseteq Nat \ {0}
    /\ RetryMin <= RetryMax /\ ExpiredRetry <= RetryMax /\ NotModifiedRetry <= RetryMax

NoText  == <<>>    \* no document
Foreign == -1      \* a list of relays that no authority published

\* A consensus without its signatures.
Body(t) == <<After(t), Relays((t \div Interval) \div 2)>>

SigningKeys == {1, 2}   \* the authorities' own; any other is of a server's making
OwnKey      == 3

\* What an odd server inserts it has not signed with a key of an authority that
\* is not compromised: it may use a key of its own in that authority's name, and
\* it may repeat a signature that was there from the start.
ASSUME EditsAssumption ==
    /\ Edits \subseteq Commands
    /\ \A c \in Edits : \A i \in 1..Len(c.insert) :
          /\ c.insert[i] \in SignatureLines /\ c.insert[i].id \in Authorities \ Compromised
          /\ c.insert[i].key \in SigningKeys
          => c.insert[i].over = Body(Interval)

VARIABLES
    clock,
    dir,         \* Directory in use: its consensus and its certificates
    files,       \* the cache: CONSENSUS_FILE and CERTS_FILE
    pc,          \* where the thread is: in download, or up (running), or down
    job,         \* boot or refresh
    via,         \* what boot asks: its saved guard, or a mirror
    full,        \* whether boot has gone back to ask for the whole document
    now,         \* the time the job took at its start
    base,        \* the document a diff is asked against
    text,        \* the document downloaded
    certs,       \* the certificates known, then those of text
    script,      \* a diff to apply
    next,        \* next_refresh
    backoff,
    crashes, odd

job_vars == <<job, via, full, now, base, text, certs, script>>
bounds   == <<crashes, odd>>
directory_vars == <<clock, dir, files, pc, job_vars, next, backoff, bounds>>

NoDir    == [text |-> NoText, certs |-> {}]
NoScript == Script(NoText, NoText, <<>>)

DirectoryInit ==
    /\ clock = Interval /\ dir = NoDir /\ files = [consensus |-> NoText, certs |-> {}]
    /\ pc = "down" /\ job = "boot" /\ via = "guard" /\ full = FALSE /\ now = 0
    /\ base = NoText /\ text = NoText /\ certs = {} /\ script = NoScript
    /\ next = 0 /\ backoff = RetryMin /\ crashes = 0 /\ odd = 0

-----------------------------------------------------------------------------
(* Directory servers.  A consensus is published every Interval.            *)

KeyAt(t)     == IF t < Rotation THEN 1 ELSE 2
CertOf(a, k) == Certificate(a, k, IF k = 1 THEN Retired ELSE MaxClock + 1, a, TRUE)

Signed(body, S, k) == [i \in 1..Cardinality(S) |-> Signature(SetToSeq(S)[i], k, body)]
Doc(t, S)  == Body(t) \o Signed(Body(t), S, KeyAt(t))

Times      == {t \in 1..clock : t % Interval = 0}
Newest     == clock - (clock % Interval)

\* Copies differ in the signatures they carry.
Copies(t)  == {Doc(t, Authorities), Doc(t, Authorities \ Compromised)}

\* As fresh as the newest, and signed: by the compromised with every key they
\* ever had, by a stranger, by the server itself in everybody's name, and with
\* signatures taken from the true one.
Forgery ==
    LET body == <<After(Newest), Relays(Foreign)>>
    IN  body \o Signed(body, Compromised, 1) \o Signed(body, Compromised, 2)
             \o <<Signature("stranger", 1, body)>> \o Signed(body, Authorities, OwnKey)
             \o Signed(Body(Newest), Authorities, KeyAt(Newest))

\* The diff an honest server makes from its own copy of a document it knows.
Diff(t, to) ==
    Script(Body(t), to,
           << Command("delete", 3, Dollar, <<>>),
              Command("append", 2, 2, SubSeq(to, 3, Len(to))),
              Command("change", 2, 2, <<to[2]>>),
              Command("change", 1, 1, <<to[1]>>) >>)

Healed == clock = MaxClock
Odd    == ~Healed /\ odd < MaxOdd /\ odd' = odd + 1
Usual  == UNCHANGED odd

-----------------------------------------------------------------------------
(* Directory::bootstrap.                                                   *)

from_cache ==
    LET ks == parse_key_certificates(files.certs, clock)
    IN  /\ files.certs # {} /\ files.consensus # NoText
        /\ parse_and_verify(files.consensus, ks, clock)
        /\ is_live(files.consensus, clock)

\* Mutant of refresh_window: the time that is left is not taken from start.
refresh_window_late(t) ==
    LET start == t + Interval + (Interval * 3) \div 4
    IN  start..(start + ((t + Life) * 7) \div 8)

refresh_window(t) ==
    LET start == t + Interval + (Interval * 3) \div 4
    IN  IF start >= t + Life THEN start..start
        ELSE start..(start + ((t + Life - start) * 7) \div 8)

\* plan_refresh: somewhere in the window, its end excluded if it is not empty.
plan_refresh(t) ==
    LET w == refresh_window(t)
    IN  \E at \in w : (at < Max(w) \/ w = {at}) /\ next' = at

Clear ==
    /\ via' = "guard" /\ full' = FALSE /\ now' = 0 /\ base' = NoText /\ text' = NoText
    /\ certs' = {} /\ script' = NoScript

\* The process starts, with a saved guard that answers or with a mirror.
StartUp ==
    /\ pc = "down"
    /\ pc' = "load" /\ job' = "boot" /\ via' \in {"guard", "mirror"} /\ dir' = NoDir
    /\ full' = FALSE /\ now' = clock
    /\ UNCHANGED <<clock, files, base, text, certs, script, next, backoff, bounds>>

\* A consensus in the cache that verifies and is live is used as it is.
LoadCached ==
    /\ pc = "load" /\ from_cache
    /\ dir' = [text |-> files.consensus, certs |-> parse_key_certificates(files.certs, clock)]
    /\ plan_refresh(valid_after(files.consensus)) /\ backoff' = RetryMin
    /\ pc' = "up" /\ Clear
    /\ UNCHANGED <<clock, files, job, bounds>>

\* Otherwise it is what a diff is asked against, and its certificates are kept.
LoadStale ==
    /\ pc = "load" /\ ~from_cache
    /\ base' = files.consensus /\ certs' = parse_key_certificates(files.certs, clock)
    /\ now' = clock /\ pc' = "open"
    /\ UNCHANGED <<clock, dir, files, job, via, full, text, script, next, backoff, bounds>>

\* to_random_fallback, on, dir_circuit: a circuit to some server.
OpenCircuit ==
    /\ pc = "open"
    /\ pc' = IF base = NoText THEN "whole" ELSE "diff"
    /\ UNCHANGED <<clock, dir, files, job_vars, next, backoff, bounds>>

\* Directory::refresh: the base is the cache's, the certificates our own.
Refresh ==
    /\ pc = "up" /\ (clock >= next \/ Healed)
    /\ job' = "refresh" /\ now' = clock
    /\ base' = files.consensus /\ certs' = dir.certs /\ pc' = "open"
    /\ UNCHANGED <<clock, dir, files, via, full, text, script, next, backoff, bounds>>

-----------------------------------------------------------------------------
(* How a job ends.                                                         *)

\* run of maintain.rs: the delay after an error.
RetryLater ==
    /\ next' = clock + (IF is_live(dir.text, clock) THEN backoff ELSE ExpiredRetry)
    /\ backoff' = Min({backoff * 2, RetryMax})

\* An error: boot through the guard goes on to a mirror, from the start; boot
\* through a mirror ends the process; a refresh is tried again later.
Fail ==
    /\ \/ /\ job = "boot" /\ via = "guard"
          /\ pc' = "load" /\ via' = "mirror" /\ UNCHANGED <<next, backoff>>
       \/ /\ job = "boot" /\ via = "mirror"
          /\ pc' = "down" /\ via' = "guard" /\ UNCHANGED <<next, backoff>>
       \/ /\ job = "refresh"
          /\ RetryLater /\ pc' = "up" /\ UNCHANGED via
    /\ full' = FALSE /\ now' = 0 /\ base' = NoText /\ text' = NoText /\ certs' = {}
    /\ script' = NoScript
    /\ UNCHANGED <<clock, dir, files, job, crashes>>

\* Mutant of NotModified: boot takes it for an error.
NotModifiedFails ==
    IF job = "boot" THEN Fail
    ELSE /\ next' = clock + NotModifiedRetry /\ pc' = "up" /\ Clear
         /\ UNCHANGED <<clock, dir, files, job, backoff, crashes>>

\* "Not modified": nothing to do for a refresh; boot, whose copy is no use to
\* it, asks once for the whole document.
NotModified ==
    \/ /\ job = "refresh"
       /\ next' = clock + NotModifiedRetry /\ pc' = "up" /\ Clear
       /\ UNCHANGED <<clock, dir, files, job, backoff, crashes>>
    \/ /\ job = "boot" /\ ~full
       /\ full' = TRUE /\ base' = NoText /\ pc' = "whole"
       /\ certs' = parse_key_certificates(files.certs, now)
       /\ UNCHANGED <<clock, dir, files, job, via, now, text, script, next, backoff, crashes>>
    \/ /\ job = "boot" /\ full /\ Fail

OpenFails == pc = "open" /\ Odd /\ Fail

-----------------------------------------------------------------------------
(* download.                                                               *)

Got(t, where) ==
    /\ text' = t /\ pc' = where /\ base' = NoText /\ script' = NoScript
    /\ UNCHANGED <<clock, dir, files, job, via, full, now, certs, next, backoff, crashes>>

\* download_diffed.  The server knows the base by its signed part.
Served(t) == \/ t = Newest /\ Usual
             \/ t # Newest /\ Odd

DiffNotModified ==
    /\ pc = "diff"
    /\ \E t \in Times : Served(t) /\ SignedPart(base) = Body(t)
    /\ NotModified

DiffSent ==
    /\ pc = "diff"
    /\ \/ \E t, u \in Times : /\ t # u /\ Served(u) /\ SignedPart(base) = Body(t)
                              /\ \E to \in Copies(u) : script' = Diff(t, to)
       \/ \E c, d \in Edits : /\ Odd
                              /\ LET p == Patch(base, <<c, d>>).text
                                 IN  script' = Script(SignedPart(base), p, <<c, d>>)
    /\ pc' = "patch"
    /\ UNCHANGED <<clock, dir, files, job, via, full, now, base, text, certs, next, backoff,
                   crashes>>

DiffWhole ==
    /\ pc = "diff"
    /\ \/ \E t \in Times : /\ Served(t) /\ SignedPart(base) # Body(t)
                           /\ \E d \in Copies(t) : Got(d, "certs")
       \/ Odd /\ Got(Forgery, "certs")

\* diff::apply; a diff that is no use is an error like any other here, and the
\* document is asked for whole.
Patched ==
    /\ pc = "patch" /\ Applies(base, script)
    /\ Got(script.to, "certs") /\ Usual

PatchFails ==
    /\ pc = "patch" /\ ~Applies(base, script)
    /\ Got(NoText, "whole") /\ Usual

DiffFails == pc = "diff" /\ Odd /\ Got(NoText, "whole")

\* download_full.
Whole ==
    /\ pc = "whole"
    /\ \/ \E t \in Times : Served(t) /\ \E d \in Copies(t) : Got(d, "certs")
       \/ Odd /\ Got(Forgery, "certs")

WholeFails       == pc = "whole" /\ Odd /\ Fail
WholeNotModified == pc = "whole" /\ Odd /\ NotModified

\* certificates_for: what is missing is fetched.  Sent is what the server sends.
Missing == {w \in required_certificates(text) : ~ \E c \in certs : <<c.id, c.key>> = w}

CertsHeld ==
    /\ pc = "certs" /\ required_certificates(text) # {} /\ Missing = {}
    /\ certs' = parse_key_certificates(certs, now) /\ pc' = "verify"
    /\ UNCHANGED <<clock, dir, files, job, via, full, now, base, text, script, next, backoff,
                   bounds>>

\* The certificates there are; or ones a server makes, for any key: it can sign
\* them with an identity key of its own, or carry an authority's and not sign.
TrueCerts == {CertOf(w[1], w[2]) : w \in {v \in Missing : v[2] \in SigningKeys}}
MadeCerts(ok) ==
    {Certificate(w[1], w[2], MaxClock + 1, IF ok THEN "stranger" ELSE w[1], ok) : w \in Missing}

CertsSent ==
    /\ pc = "certs" /\ Missing # {}
    /\ \E sent \in {TrueCerts} \cup {MadeCerts(ok) : ok \in BOOLEAN} :
           /\ IF sent = TrueCerts THEN Usual ELSE Odd
           /\ certs' = parse_key_certificates(certs \cup sent, now)
    /\ pc' = "verify"
    /\ UNCHANGED <<clock, dir, files, job, via, full, now, base, text, script, next, backoff,
                   crashes>>

CertsFail ==
    /\ pc = "certs" /\ Fail
    /\ \/ required_certificates(text) = {} /\ Usual
       \/ Missing # {} /\ Odd

Verify ==
    /\ pc = "verify" /\ parse_and_verify(text, certs, now)
    /\ pc' = "store certs"
    /\ UNCHANGED <<clock, dir, files, job_vars, next, backoff, bounds>>

VerifyFails == pc = "verify" /\ ~parse_and_verify(text, certs, now) /\ Fail /\ Usual

\* Cache::store writes beside the file and renames; an error is only logged.
StoreCerts ==
    /\ pc = "store certs"
    /\ \/ files' = [files EXCEPT !.certs = certs] /\ Usual
       \/ UNCHANGED files /\ Odd
    /\ pc' = "store consensus"
    /\ UNCHANGED <<clock, dir, job_vars, next, backoff, crashes>>

StoreConsensus ==
    /\ pc = "store consensus"
    /\ \/ files' = [files EXCEPT !.consensus = text] /\ Usual
       \/ UNCHANGED files /\ Odd
    /\ pc' = "got"
    /\ UNCHANGED <<clock, dir, job_vars, next, backoff, crashes>>

\* What refresh does not take.
NoNewer == job = "refresh" /\ valid_after(text) <= valid_after(dir.text)

\* install_directory, or the end of bootstrap; then the next refresh is planned.
Install ==
    /\ pc = "got" /\ ~NoNewer
    /\ dir' = [text |-> text, certs |-> certs]
    /\ plan_refresh(valid_after(text)) /\ backoff' = RetryMin
    /\ pc' = "up" /\ Clear
    /\ UNCHANGED <<clock, files, job, bounds>>

Refuse == pc = "got" /\ NoNewer /\ Fail /\ Usual

-----------------------------------------------------------------------------

Tick ==
    /\ clock < MaxClock /\ clock' = clock + 1
    /\ UNCHANGED <<dir, files, pc, job_vars, next, backoff, bounds>>

Crash ==
    /\ pc # "down" /\ crashes < MaxCrashes /\ crashes' = crashes + 1
    /\ pc' = "down" /\ dir' = NoDir /\ job' = "boot" /\ Clear
    /\ UNCHANGED <<clock, files, next, backoff, odd>>

Download ==
    \/ OpenCircuit \/ OpenFails \/ DiffNotModified \/ DiffSent \/ DiffWhole \/ DiffFails
    \/ Patched \/ PatchFails \/ Whole \/ WholeFails \/ WholeNotModified
    \/ CertsHeld \/ CertsSent \/ CertsFail \/ Verify \/ VerifyFails
    \/ StoreCerts \/ StoreConsensus \/ Install \/ Refuse

Client == StartUp \/ LoadCached \/ LoadStale \/ Refresh \/ Download

DirectoryNext == Client \/ Tick \/ Crash

DirectorySpec == DirectoryInit /\ [][DirectoryNext]_directory_vars

(***************************************************************************)
(* Time passes, the thread runs, and a supervisor starts the process again *)
(* when it has ended (main.rs counts on one).                              *)
(***************************************************************************)
DirectoryFairSpec == DirectorySpec /\ WF_directory_vars(Client) /\ WF_directory_vars(Tick)

-----------------------------------------------------------------------------

Genuine(t) == t # NoText => \E e \in Times : SignedPart(t) = Body(e)

\* Whatever servers and diffs deliver, the consensus in use and the one in the
\* cache are ones the authorities published: a majority of distinct embedded
\* authorities signed exactly that text.
Authentic == Genuine(dir.text) /\ Genuine(files.consensus)

\* diff::apply, which assembles its result from the back, does what ed does with
\* a script that says "$" in its first command alone; and an honest server's diff
\* applies to any copy of the document it is from.
DiffIsEd ==
    pc = "patch" =>
        LET p == Patch(base, script.commands)
        IN  /\ p.ok /\ DollarFirst(script.commands) => p.text = Ed(base, script.commands)
            /\ (\E t, u \in Times : \E to \in Copies(u) : script = Diff(t, to)) => Applies(base, script)

\* While the consensus in use has expired, the next try to replace it is no
\* further off than the longest retry, however the last plan, the backoff and
\* the expiry fell; provided that a consensus does not live for less than the
\* 7/4 of its interval after which refresh_window starts.
NeverSleepsThrough ==
    Interval + (Interval * 3) \div 4 <= Life + RetryMax =>
        (pc = "up" /\ ~is_live(dir.text, clock) => next <= clock + RetryMax)

\* Once the servers are honest a client that had any trouble, with its cache or
\* with a server, comes to use the newest consensus.
CatchesUp == <>[](dir.text # NoText /\ valid_after(dir.text) = Newest)
=============================================================================
