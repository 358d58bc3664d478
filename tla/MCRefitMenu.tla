------------------------------ MODULE MCRefitMenu ------------------------------
(* A main menu of four entries with two screens behind it, a long one that    *)
(* scrolls in text mode with an odd and an even number of lines.              *)
EXTENDS RefitMenu

E(tag, sub, shortcuts) == [tag |-> tag, sub |-> sub, shortcuts |-> shortcuts]
Program == E("program", NULL, {})

MCEntries ==
    [main  |-> [i \in 0 .. 7 |-> CASE i = 0 -> E("program", "odd", {"1"})
                                   [] i = 1 -> E("program", "even", {"2", "M"})
                                   [] i = 6 -> E("about", NULL, {"M"})
                                   [] i = 7 -> E("reset", NULL, {"R"})
                                   [] OTHER -> Program],
     odd   |-> [i \in 0 .. 9 |-> IF i = 9 THEN E("return", NULL, {}) ELSE Program],
     even  |-> [i \in 0 .. 12 |-> IF i = 12 THEN E("return", NULL, {}) ELSE Program],
     about |-> [i \in 0 .. 0 |-> E("return", NULL, {})]]

MCCount == [main |-> 8, odd |-> 10, even |-> 13, about |-> 1]
MCSpace == [main |-> 5, odd |-> 5, even |-> 6, about |-> 0]
================================================================================
