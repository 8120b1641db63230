------------------------------- MODULE Guards -------------------------------
(***************************************************************************)
(* The guard list of the client (src/tor/client.rs): which relay every     *)
(* circuit starts at, which to fall back to, and what of it survives a     *)
(* restart.                                                                *)
(*                                                                         *)
(*   Callers   threads inside guard_channel, on behalf of a request or of  *)
(*             the circuit builder                                         *)
(*   Maintain  the maintenance thread (src/tor/maintain.rs), which retries *)
(*             the primary guard, counts bad circuits against their guard  *)
(*             and reconciles the list with a new consensus, one at a time *)
(*                                                                         *)
(* The list is behind one lock; each action is one hold of it, or one step *)
(* taken without it (choosing, resolving, connecting, probing).  Time is   *)
(* abstract: a failure cools off, a demotion expires and a strike leaves   *)
(* its window whenever the clock pleases.                                  *)
(***************************************************************************)
EXTENDS Integers, Sequences, FiniteSets, SequencesExt

CONSTANTS Relays, Callers, Maintain, None,
          MaxGuards,        \* MAX_GUARDS
          GuardAttempts,    \* GUARD_ATTEMPTS
          GuardStrikes,     \* GUARD_STRIKES
          MaxSlowChanges,   \* MAX_SLOW_GUARD_CHANGES
          LookupsFail,      \* whether a guard's keys may fail to be fetched
          MaxEvents         \* bound: outages, lookups that fail, sweeps that find bad
                            \* circuits, new consensuses, restarts and calls that begin
                            \* while another is under way, together

ASSUME GuardsAssumption ==
    /\ MaxGuards \in Nat \ {0} /\ GuardAttempts \in Nat \ {0} /\ GuardStrikes \in Nat \ {0}
    /\ MaxSlowChanges \in Nat /\ LookupsFail \in BOOLEAN
    /\ MaxEvents \in Nat
    /\ None \notin Relays /\ Maintain \notin Callers

Threads == Callers \cup {Maintain}

VARIABLES
    entries,   \* Guards.entries, as identities in priority order
    failing,   \* entries whose failed_at is set, least recent first
    cooled,    \* how many of them GUARD_RETRY_INTERVAL has passed for
    strikes,   \* number of GuardEntry.strikes of each relay
    demoted,   \* relays whose entry is_demoted
    contact,   \* relays whose entry has a contact
    open,      \* Guards.open: the guard, whether its keys are known, and whether
               \* the channel is up
    changes,   \* slow_guard_changes
    file,      \* the lines of the guards file
    pc, guard, tries,   \* where each thread is, the guard it has in hand, and
                        \* how often guard_channel has gone round
    listed,    \* relays of the consensus
    down,      \* relays that refuse connections
    net,       \* whether the network is reachable from here
    served,    \* relays circuits have been built on
    events     \* what has been used of MaxEvents

list    == <<entries, failing, cooled, strikes, demoted, contact, open, changes, file>>
threads == <<pc, guard, tries>>
world   == <<listed, down, net>>
vars    == <<list, threads, world, served, events>>

NotOpen == [guard |-> None, known |-> FALSE, up |-> FALSE]
Fresh(g) == [guard |-> g, known |-> TRUE, up |-> TRUE]

Event == events < MaxEvents /\ events' = events + 1

Goto(t, where) == pc' = [pc EXCEPT ![t] = where]

Answers(g) == net /\ g \notin down

-----------------------------------------------------------------------------
(* The operations of struct Guards.                                        *)

IsFailing(g) == Contains(failing, g)
Cooled(g)    == \E i \in 1..cooled : failing[i] = g

\* What is left of the first i members of a list once those outside S are taken out
\* (Vec::retain), for each i; of all of them; and the first member in S.
Kept(seq, S) ==
    LET kept[i \in 0..Len(seq)] ==
            IF i = 0 THEN <<>>
            ELSE IF seq[i] \in S THEN Append(kept[i - 1], seq[i]) ELSE kept[i - 1]
    IN  kept
Retain(seq, S) == Kept(seq, S)[Len(seq)]
First(seq, S)  == Head(Retain(seq, S))

\* next_candidate, as the set of none or one relay.
NextCandidate ==
    LET good  == {g \in Range(entries) \ demoted : ~IsFailing(g)}
        again == {g \in Range(entries) \ demoted : Cooled(g)}
    IN  IF good # {} THEN {First(entries, good)}
        ELSE IF again # {} THEN {First(entries, again)} ELSE {}

\* ensure_guard's last resort: the entry with the least failed_at, where none
\* at all comes first.
Soonest ==
    LET unfailed == {g \in Range(entries) : ~IsFailing(g)}
    IN  IF unfailed # {} THEN First(entries, unfailed) ELSE First(failing, Range(entries))

\* A guard's failed_at is cleared, and how many of those left have cooled.
Without(seq, g) == Retain(seq, Relays \ {g})
Unfail(g) ==
    /\ failing' = Without(failing, g)
    /\ cooled' = Len(Kept(failing, Relays \ {g})[cooled])

\* failed_at = now, for a guard that is on the list.
Fail(g) ==
    IF Contains(entries, g)
    THEN /\ failing' = Append(Without(failing, g), g)
         /\ cooled' = Len(Kept(failing, Relays \ {g})[cooled])
    ELSE UNCHANGED <<failing, cooled>>

\* Mutant of MarkFailed: a guard that failed goes to the back of the list.
MarkFailedLast(g) ==
    /\ Fail(g)
    /\ entries' = IF Contains(entries, g) THEN Append(Without(entries, g), g) ELSE entries
    /\ open' = IF open.guard = g THEN NotOpen ELSE open
    /\ UNCHANGED <<strikes, demoted, contact, changes>>

\* mark_failed: stop_using, and close the channel if it is this guard's.
MarkFailed(g) ==
    /\ Fail(g)
    /\ open' = IF open.guard = g THEN NotOpen ELSE open
    /\ UNCHANGED <<entries, strikes, demoted, contact, changes>>

\* serialize_guards: a demotion is only written alongside a contact.
Line(g, c, d) == [id |-> g, contact |-> g \in c, demoted |-> g \in c /\ g \in d]
Serialize(es, c, d) ==
    LET kept == IF Len(es) <= MaxGuards THEN Len(es) ELSE MaxGuards
    IN  [i \in 1..kept |-> Line(es[i], c, d)]

SaveGuards == file' = Serialize(entries', contact', demoted')

\* record_contact for the guard whose channel is now open, and save_guards.
RecordContact(g) ==
    /\ contact' = IF open'.guard = g /\ Contains(entries, g) THEN contact \cup {g} ELSE contact
    /\ UNCHANGED <<entries, strikes, demoted, changes>>
    /\ SaveGuards

Init ==
    /\ entries = <<>> /\ failing = <<>> /\ cooled = 0
    /\ strikes = [g \in Relays |-> 0]
    /\ demoted = {} /\ contact = {}
    /\ open = NotOpen /\ changes = 0 /\ file = <<>>
    /\ pc = [t \in Threads |-> "idle"]
    /\ guard = [t \in Threads |-> None]
    /\ tries = [t \in Threads |-> 0]
    /\ listed = Relays /\ down = {} /\ net = TRUE
    /\ served = {}
    /\ events = 0

-----------------------------------------------------------------------------
(* guard_channel.                                                          *)

Return(c, g) ==
    /\ Goto(c, "idle")
    /\ guard' = [guard EXCEPT ![c] = None]
    /\ served' = served \cup {g}
    /\ tries' = [tries EXCEPT ![c] = 0]

Error(c) ==
    /\ Goto(c, "idle")
    /\ guard' = [guard EXCEPT ![c] = None]
    /\ tries' = [tries EXCEPT ![c] = 0]
    /\ UNCHANGED served

\* The loop goes round again, or has gone round GUARD_ATTEMPTS times.
NextTry(c) ==
    IF tries[c] + 1 = GuardAttempts THEN Error(c)
    ELSE /\ Goto(c, "check")
         /\ tries' = [tries EXCEPT ![c] = @ + 1]
         /\ guard' = [guard EXCEPT ![c] = None]
         /\ UNCHANGED served

\* open_guard_channel: use the open channel if it is up and its keys are known.
UseOpen(c) ==
    /\ open.up /\ open.known
    /\ Return(c, open.guard)
    /\ UNCHANGED <<list, world>>

LookAtOpen(c) ==
    /\ ~(open.up /\ open.known)
    /\ Goto(c, IF open.up THEN "fill" ELSE "ensure")
    /\ guard' = [guard EXCEPT ![c] = IF open.up THEN open.guard ELSE None]
    /\ UNCHANGED <<list, tries, world, served>>

\* A call begins, or goes round.
Call(c) ==
    /\ pc[c] = "idle" /\ (UseOpen(c) \/ LookAtOpen(c))
    /\ IF \A d \in Callers : pc[d] = "idle" THEN UNCHANGED events ELSE Event

Round(c) ==
    /\ pc[c] = "check" /\ (UseOpen(c) \/ LookAtOpen(c))
    /\ UNCHANGED events

\* Its keys were not known: find them, then note them under the lock.
FillOpen(c) ==
    /\ pc[c] = "fill" /\ guard[c] \in listed
    /\ open' = IF open.guard = guard[c] THEN [open EXCEPT !.known = TRUE] ELSE open
    /\ RecordContact(guard[c])
    /\ Return(c, guard[c])
    /\ UNCHANGED <<failing, cooled, world, events>>

FillFails(c) ==
    /\ pc[c] = "fill"
    /\ \/ guard[c] \notin listed /\ UNCHANGED events
       \/ LookupsFail /\ Event
    /\ Goto(c, "ensure")
    /\ UNCHANGED <<list, guard, tries, world, served>>

Full == Len(entries) >= MaxGuards

\* ensure_guard.  It looks for a candidate, and looks again when it takes the lock to
\* choose a guard, so what counts is the second look, under one hold with the choice.
Choose(c) ==
    /\ pc[c] = "ensure"
    /\ \/ /\ NextCandidate # {}
          /\ \E g \in NextCandidate : guard' = [guard EXCEPT ![c] = g]
          /\ Goto(c, "resolve")
          /\ UNCHANGED tries
       \/ /\ NextCandidate = {} /\ Full
          /\ guard' = [guard EXCEPT ![c] = Soonest]
          /\ Goto(c, "resolve")
          /\ UNCHANGED tries
       \/ /\ NextCandidate = {} /\ ~Full
          /\ \E g \in listed \ Range(entries) : guard' = [guard EXCEPT ![c] = g]
          /\ Goto(c, "push")
          /\ UNCHANGED tries
       \/ /\ NextCandidate = {} /\ ~Full /\ listed \subseteq Range(entries)
          /\ Goto(c, "idle")
          /\ guard' = [guard EXCEPT ![c] = None] /\ tries' = [tries EXCEPT ![c] = 0]
    /\ UNCHANGED <<list, world, served, events>>

\* Mutants of Push: the choice is added without looking again; it is not saved.
PushBlind(c) ==
    /\ pc[c] = "push"
    /\ entries' = Append(entries, guard[c])
    /\ contact' = contact \ {guard[c]} /\ demoted' = demoted \ {guard[c]}
    /\ strikes' = [strikes EXCEPT ![guard[c]] = 0]
    /\ SaveGuards
    /\ Goto(c, "resolve")
    /\ UNCHANGED <<failing, cooled, open, changes, guard, tries, world, served, events>>

PushUnsaved(c) ==
    /\ pc[c] = "push"
    /\ entries' = IF Contains(entries, guard[c]) THEN entries ELSE Append(entries, guard[c])
    /\ Goto(c, "resolve")
    /\ UNCHANGED <<failing, cooled, strikes, demoted, contact, open, changes, file, guard, tries,
                   world, served, events>>

\* The lock is taken again to add the choice.
Push(c) ==
    /\ pc[c] = "push"
    /\ LET new == ~Contains(entries, guard[c]) IN
       /\ entries' = IF new THEN Append(entries, guard[c]) ELSE entries
       /\ contact' = IF new THEN contact \ {guard[c]} ELSE contact
       /\ demoted' = IF new THEN demoted \ {guard[c]} ELSE demoted
       /\ strikes' = IF new THEN [strikes EXCEPT ![guard[c]] = 0] ELSE strikes
    /\ SaveGuards
    /\ Goto(c, "resolve")
    /\ UNCHANGED <<failing, cooled, open, changes, guard, tries, world, served, events>>

\* guard_relay: the keys are in the consensus and can be fetched.
Resolve(c) ==
    /\ pc[c] = "resolve" /\ guard[c] \in listed
    /\ Goto(c, "connect")
    /\ UNCHANGED <<list, guard, tries, world, served, events>>

ResolveFails(c) ==
    /\ pc[c] = "resolve"
    /\ \/ guard[c] \notin listed /\ UNCHANGED events
       \/ LookupsFail /\ Event
    /\ MarkFailed(guard[c])
    /\ NextTry(c)
    /\ UNCHANGED <<file, world>>

\* Channel::connect, without the lock.
Connect(c) ==
    /\ pc[c] = "connect"
    /\ Goto(c, IF Answers(guard[c]) THEN "store" ELSE "probe")
    /\ UNCHANGED <<list, guard, tries, world, served, events>>

\* store_guard_channel defers to a channel another thread has stored.
Store(c) ==
    /\ pc[c] = "store"
    /\ Unfail(guard[c])
    /\ IF open.up /\ open.known
       THEN /\ Return(c, open.guard)
            /\ UNCHANGED <<entries, strikes, demoted, contact, open, changes, file>>
       ELSE /\ open' = Fresh(guard[c])
            /\ RecordContact(guard[c])
            /\ Return(c, guard[c])
    /\ UNCHANGED <<world, events>>

\* network_reachable decides who is to blame.
ProbeBlamesGuard(c) ==
    /\ pc[c] = "probe" /\ net
    /\ MarkFailed(guard[c])
    /\ SaveGuards
    /\ NextTry(c)
    /\ UNCHANGED <<world, events>>

ProbeBlamesNetwork(c) ==
    /\ pc[c] = "probe" /\ ~net
    /\ Error(c)
    /\ UNCHANGED <<list, world, events>>

Step(c) ==
    \/ Round(c) \/ FillOpen(c) \/ FillFails(c) \/ Choose(c) \/ Push(c) \/ Resolve(c) \/ ResolveFails(c)
    \/ Connect(c) \/ Store(c) \/ ProbeBlamesGuard(c) \/ ProbeBlamesNetwork(c)

-----------------------------------------------------------------------------
(* The maintenance thread.                                                 *)

\* retry_primary_guard: what makes the primary worth a connection.
RetryPrimary ==
    /\ pc[Maintain] = "idle"
    /\ entries # <<>>
    /\ LET g == Head(entries) IN
       /\ g \notin demoted
       /\ IsFailing(g) \/ open.guard # g
       /\ IsFailing(g) => Cooled(g)
       /\ g \in listed
       /\ guard' = [guard EXCEPT ![Maintain] = g]
    /\ Goto(Maintain, "connect")
    /\ UNCHANGED <<list, tries, world, served, events>>

\* The connection, made without the lock, and what follows if it succeeds.
RetryConnects ==
    /\ pc[Maintain] = "connect"
    /\ Goto(Maintain, IF Answers(guard[Maintain]) THEN "replace" ELSE "idle")
    /\ UNCHANGED <<list, guard, tries, world, served, events>>

\* Mutant of RetryReplaces: defers to a channel that is open, as Store does.
RetryDefers ==
    /\ pc[Maintain] = "replace"
    /\ Unfail(guard[Maintain])
    /\ open' = IF open.up /\ open.known THEN open ELSE Fresh(guard[Maintain])
    /\ RecordContact(guard[Maintain])
    /\ Goto(Maintain, "idle")
    /\ UNCHANGED <<guard, tries, world, served, events>>

RetryReplaces ==
    /\ pc[Maintain] = "replace"
    /\ Unfail(guard[Maintain])
    /\ open' = Fresh(guard[Maintain])
    /\ RecordContact(guard[Maintain])
    /\ Goto(Maintain, "idle")
    /\ UNCHANGED <<guard, tries, world, served, events>>

Capped(n) == IF n <= GuardStrikes THEN n ELSE GuardStrikes

\* note_bad_circuits: one strike for each guard blamed since the last sweep, as
\* many of its old ones as are still in their window, and at most one guard
\* given up.  The pool is cleared at the end (module Pool).
NoteBadCircuits(blamed) ==
    /\ pc[Maintain] = "idle"
    /\ Event
    /\ \E kept \in [Relays -> 0..GuardStrikes] :
       /\ \A g \in Relays : kept[g] <= strikes[g]
       /\ LET hit == blamed \cap Range(entries)
              struck == [g \in Relays |-> IF g \in hit THEN Capped(kept[g] + 1) ELSE strikes[g]]
              enough == {g \in hit : struck[g] >= GuardStrikes}
          IN  IF enough = {} \/ changes >= MaxSlowChanges
              THEN /\ strikes' = struck
                   /\ UNCHANGED <<entries, failing, cooled, demoted, contact, open, changes, file>>
              ELSE \E g \in enough :
                   /\ changes' = changes + 1
                   /\ strikes' = [struck EXCEPT ![g] = 0]
                   /\ demoted' = demoted \cup {g}
                   /\ Fail(g)
                   /\ open' = IF open.guard = g THEN NotOpen ELSE open
                   /\ entries' = Append(Without(entries, g), g)
                   /\ UNCHANGED contact
                   /\ SaveGuards
    /\ UNCHANGED <<threads, world, served>>

\* A new consensus is installed; reconcile_guards follows in a step of its own.
Refresh ==
    /\ pc[Maintain] = "idle"
    /\ Event
    /\ listed' \in SUBSET Relays
    /\ Goto(Maintain, "reconcile")
    /\ UNCHANGED <<list, guard, tries, down, net, served>>

ReconcileGuards ==
    /\ pc[Maintain] = "reconcile"
    /\ entries' = Retain(entries, listed)
    /\ failing' = Retain(failing, listed)
    /\ cooled' = Len(Kept(failing, listed)[cooled])
    /\ strikes' = [g \in Relays |-> IF g \in listed THEN strikes[g] ELSE 0]
    /\ demoted' = demoted \cap listed /\ contact' = contact \cap listed
    /\ IF Len(entries') # Len(entries) THEN SaveGuards ELSE UNCHANGED file
    /\ Goto(Maintain, "idle")
    /\ UNCHANGED <<open, changes, guard, tries, world, served, events>>

MaintainStep ==
    \/ RetryPrimary \/ RetryConnects \/ RetryReplaces
    \/ \E blamed \in SUBSET served : blamed # {} /\ NoteBadCircuits(blamed)
    \/ Refresh \/ ReconcileGuards

-----------------------------------------------------------------------------
(* Time, the network, and the process itself.                              *)

\* GUARD_RETRY_INTERVAL passes for the least recent failure.
CoolOff ==
    /\ cooled < Len(failing)
    /\ cooled' = cooled + 1
    /\ UNCHANGED <<entries, failing, strikes, demoted, contact, open, changes, file,
                   threads, world, served, events>>

\* A demotion runs out, on the list and in the file alike.
DemotionEnds(g) ==
    /\ g \in demoted
    /\ demoted' = demoted \ {g}
    /\ file' = [i \in 1..Len(file) |->
                   IF file[i].id = g THEN [file[i] EXCEPT !.demoted = FALSE] ELSE file[i]]
    /\ UNCHANGED <<entries, failing, cooled, strikes, contact, open, changes,
                   threads, world, served, events>>

RelayDown(g) == Event /\ g \notin down /\ down' = down \cup {g} /\ UNCHANGED <<listed, net>>
RelayUp(g)   == g \in down /\ down' = down \ {g} /\ UNCHANGED <<listed, net, events>>
NetDown      == Event /\ net /\ net' = FALSE /\ UNCHANGED <<listed, down>>
NetUp        == ~net /\ net' = TRUE /\ UNCHANGED <<listed, down, events>>

Weather ==
    /\ NetDown \/ NetUp \/ \E g \in Relays : RelayDown(g) \/ RelayUp(g)
    /\ UNCHANGED <<list, threads, served>>

\* The open channel ends with its guard or the network.
ChannelEnds ==
    /\ open.up /\ ~Answers(open.guard)
    /\ open' = [open EXCEPT !.up = FALSE]
    /\ UNCHANGED <<entries, failing, cooled, strikes, demoted, contact, changes, file,
                   threads, world, served, events>>

\* load_guards.
LoadGuards ==
    /\ entries' = [i \in 1..Len(file) |-> file[i].id]
    /\ contact' = {file[i].id : i \in {j \in 1..Len(file) : file[j].contact}}
    /\ demoted' = {file[i].id : i \in {j \in 1..Len(file) : file[j].demoted}}
    /\ failing' = <<>> /\ cooled' = 0
    /\ strikes' = [g \in Relays |-> 0]

\* GuardEntry::reconnect, for each entry until one answers.
Reconnect ==
    LET saved == {l \in Range(file) : l.contact /\ Answers(l.id)}
    IN  open' = IF saved = {} THEN NotOpen
                ELSE [guard |-> First(file, saved).id, known |-> FALSE, up |-> TRUE]

\* The process ends at any moment; bootstrap starts from the file.
Restart ==
    /\ Event
    /\ LoadGuards
    /\ Reconnect
    /\ changes' = 0
    /\ pc' = [t \in Threads |-> "idle"]
    /\ guard' = [t \in Threads |-> None]
    /\ tries' = [t \in Threads |-> 0]
    /\ served' = {}
    /\ UNCHANGED <<file, world>>

Next ==
    \/ \E c \in Callers : Call(c) \/ Step(c)
    \/ MaintainStep
    \/ CoolOff \/ \E g \in Relays : DemotionEnds(g)
    \/ Weather \/ ChannelEnds \/ Restart

Spec == Init /\ [][Next]_vars

(***************************************************************************)
(* Calls that have begun go on, the maintenance thread comes back to the   *)
(* primary on each tick and finishes what it starts, and time passes.      *)
(* Nothing makes a call begin, a demotion end or an outage pass.           *)
(***************************************************************************)
Fairness ==
    /\ \A c \in Callers : WF_vars(Step(c))
    /\ WF_vars(RetryPrimary \/ RetryConnects \/ RetryReplaces \/ ReconcileGuards)
    /\ WF_vars(CoolOff)

FairSpec == Spec /\ Fairness

-----------------------------------------------------------------------------

Places == {"idle", "check", "fill", "ensure", "push", "resolve", "connect",
           "store", "probe", "replace", "reconcile"}

ListOK ==
    /\ entries \in Seq(Relays) /\ failing \in Seq(Relays) /\ cooled \in 0..Len(failing)
    /\ strikes \in [Relays -> 0..GuardStrikes]
    /\ demoted \subseteq Relays /\ contact \subseteq Relays
    /\ open \in [guard : Relays \cup {None}, known : BOOLEAN, up : BOOLEAN]
    /\ changes \in 0..MaxSlowChanges
    /\ file \in Seq([id : Relays, contact : BOOLEAN, demoted : BOOLEAN])

TypeOK ==
    /\ ListOK
    /\ pc \in [Threads -> Places] /\ guard \in [Threads -> Relays \cup {None}]
    /\ tries \in [Threads -> 0..GuardAttempts - 1]
    /\ listed \subseteq Relays /\ down \subseteq Relays /\ net \in BOOLEAN
    /\ served \subseteq Relays

\* However many threads add guards at once, none is on the list twice.
NoTwice == \A i, j \in 1..Len(entries) : entries[i] = entries[j] => i = j

\* No step leaves the file behind the list: a process that stops between any two
\* of them finds the same guards, in the same order, when it starts again.
FileCurrent == file = Serialize(entries, contact, demoted)

\* Nothing but a demotion, or leaving the consensus, costs the primary guard its
\* place: no outage, no failed lookup, no restart.
PrimaryPinned ==
    [][entries # <<>> =>
          \/ entries' # <<>> /\ Head(entries') = Head(entries)
          \/ Head(entries) \in demoted' \/ Head(entries) \notin listed]_vars

\* Once the primary answers for good, the client goes back to it for good.
PrimaryResumed ==
    \A g \in Relays :
        <>[](/\ entries # <<>> /\ Head(entries) = g
             /\ g \in listed \ demoted /\ Answers(g))
        => <>[](open.guard = g)
=============================================================================
