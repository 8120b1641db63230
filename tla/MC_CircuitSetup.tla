--------------------------- MODULE MC_CircuitSetup ---------------------------
EXTENDS CircuitSetup

\* Two guards in one /16, one of them an exit too, which declares a relay that does not
\* declare it; two middles, one of them an exit that may only be a middle; and an exit that
\* is family with the other middle.
MCFlags == [g |-> Usable \cup {"Guard", "Stable", "Fast"},
            h |-> Usable \cup {"Guard", "Stable", "Fast", "Exit"},
            m |-> Usable \cup {"Fast"}, n |-> Usable \cup {"Fast", "Stable", "MiddleOnly", "Exit"},
            e |-> Usable \cup {"Fast", "Exit"}]
MCSubnet    == [g |-> 1, h |-> 1, m |-> 2, n |-> 3, e |-> 4]
MCDeclares  == [g |-> {}, h |-> {"n"}, m |-> {"e"}, n |-> {}, e |-> {"m", "g"}]
MCBandwidth == [g |-> 2, h |-> 2, m |-> 1, n |-> 0, e |-> 1]
MCWeights   == [p \in {"Guard", "Middle", "Exit"} |-> [f \in SUBSET {"Guard", "Exit"} |->
                   IF p # "Middle" \/ f = {} THEN 2 ELSE 0]]
MCCcAnswers == {Declined, Malformed, 0, 1, 2, 9}
MCPolicy    == [g |-> {}, h |-> {80}, m |-> {}, n |-> {}, e |-> {80, 443}]
=============================================================================
