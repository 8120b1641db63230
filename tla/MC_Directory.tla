---------------------------- MODULE MC_Directory ----------------------------
(* Directory with three authorities, one of them compromised.             *)
EXTENDS Directory

MCEdits ==
    { Command("delete", 3, Dollar, <<>>), Command("change", 1, 2, <<Relays(Foreign)>>),
      Command("append", 0, 0, <<After(1)>>), Command("delete", 9, 9, <<>>),
      Command("append", Dollar, Dollar, <<Signature("a", OwnKey, Body(1))>>) }
=============================================================================
