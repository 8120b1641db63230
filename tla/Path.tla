-------------------------------- MODULE Path --------------------------------
(***************************************************************************)
(* Path selection (src/tor/path.rs, constrain and choose_middle of         *)
(* src/tor/client.rs) as operators on sets of relays.  What a relay says   *)
(* of its family is known only from its microdescriptor.                   *)
(***************************************************************************)
EXTENDS Integers, FiniteSets, FiniteSetsExt

CONSTANTS Relays,
          Flags,       \* of each relay in the consensus
          Subnet,      \* its /16
          Declares,    \* the family its microdescriptor declares
          Bandwidth,
          Weights,     \* bandwidth-weights: per position, by the flags Guard and Exit
          WeightScale

ASSUME PathAssumption ==
    /\ WeightScale \in Nat \ {0}
    /\ \A r \in Relays : Bandwidth[r] \in Nat /\ Declares[r] \subseteq Relays

\* PathConstraints: the relays on the path (their /16s are theirs) and the
\* relays that those of them whose microdescriptor was to hand declare.
NoConstraints == [identities |-> {}, families |-> {}]

\* The relays a relay declares as family, if its microdescriptor is to hand: mds are
\* the relays whose microdescriptors are cached.
family(r, mds) == IF r \in mds THEN Declares[r] ELSE {}

\* constrain: add a relay.
constrain(cs, r, mds) ==
    [identities |-> cs.identities \cup {r},
     families   |-> cs.families \cup family(r, mds)]

\* Mutant of accepts_relay: the family is looked at from one side only, the path's.
accepts_relay_oneSide(cs, r, declared) ==
    /\ r \notin cs.identities
    /\ \A i \in cs.identities : Subnet[i] # Subnet[r]
    /\ r \notin cs.families

accepts_relay(cs, r, declared) ==
    /\ r \notin cs.identities
    /\ \A i \in cs.identities : Subnet[i] # Subnet[r]
    /\ r \notin cs.families
    /\ declared \cap cs.identities = {}

\* accepts with a microdescriptor, and without one.
accepts(cs, r)       == accepts_relay(cs, r, Declares[r])
acceptsSoFar(cs, r)  == accepts_relay(cs, r, {})

Has(r, flags) == flags \subseteq Flags[r]

Usable == {"Running", "Valid"}

guard_candidates ==
    {r \in Relays : Has(r, Usable \cup {"Guard", "Stable", "Fast"}) /\ ~Has(r, {"MiddleOnly"})}

exit_candidates(cs) ==
    {r \in Relays : /\ Has(r, Usable \cup {"Exit", "Fast"})
                    /\ ~Has(r, {"BadExit"}) /\ ~Has(r, {"MiddleOnly"})
                    /\ acceptsSoFar(cs, r)}

middle_candidates(cs) == {r \in Relays : Has(r, Usable \cup {"Fast"}) /\ acceptsSoFar(cs, r)}

rendezvous_candidates(cs) ==
    {r \in Relays : Has(r, Usable \cup {"Fast", "Stable"}) /\ acceptsSoFar(cs, r)}

\* The weight of a relay in a position goes by its Guard and Exit flags; as a guard,
\* one that is not flagged Guard is weighted like a relay with neither.
weight(r, position) ==
    Weights[position][IF position = "Guard" /\ ~Has(r, {"Guard"}) THEN {}
                      ELSE Flags[r] \cap {"Guard", "Exit"}]

\* A relay's share of a draw for a position: never nothing, however the weights
\* push it down.
weighted_bandwidth(r, position) ==
    Max({1, (Max({1, Bandwidth[r]}) * weight(r, position)) \div WeightScale})

\* choose: the relays a draw can give; and what a sample of at most count distinct
\* relays can be.
Drawn(candidates, position) == {r \in candidates : weighted_bandwidth(r, position) > 0}

Samples(candidates, count, position) ==
    LET pool == Drawn(candidates, position)
    IN  kSubset(Min({count, Cardinality(pool)}), pool)
=============================================================================
