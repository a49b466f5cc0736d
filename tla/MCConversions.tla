----------------------------- MODULE MCConversions -----------------------------
(***************************************************************************)
(* Inputs of the conversions for TLC.                                      *)
(***************************************************************************)
EXTENDS Conversions

\* Six bytes that differ, so that no two can be exchanged unnoticed.
MCAddrs == {[i \in 0 .. 5 |-> ((16 * i) + k) % 256] : k \in {0, 1, 10, 175, 255}}
           \cup {BDADDR_ANY}

\* The texts of these addresses, in either case, those with one character
\* replaced, and those that are too short or too long.
MCTexts ==
    LET good == {ba2str(ba) : ba \in MCAddrs}
        chars == {0, 15, 15 + Lower, Colon, Dash, Blank, 9 + Lower}
        lower(str) == [k \in DOMAIN str |->
                          IF str[k] \in 10 .. 15 THEN str[k] + Lower ELSE str[k]]
    IN  good
        \cup {lower(str) : str \in good}
        \cup {[str EXCEPT ![k] = ch] : str \in good, k \in 1 .. 17, ch \in chars}
        \cup {SubSeq(str, 1, k) : str \in good, k \in 0 .. 16}
        \cup {Append(str, ch) : str \in good, ch \in {0, Colon}}

MCMemory == [1 .. 2 -> {0, 1, 255}] \cup [1 .. 4 -> {0, 1, 255}]
            \cup {[k \in 1 .. 8 |-> k], [k \in 1 .. 8 |-> 255 - (k * k)],
                  [k \in 1 .. 16 |-> k], [k \in 1 .. 16 |-> (k * k) % 256]}

\* Names of one to four characters.
MCNameLength == [n \in 0 .. 231 |-> 1 + (n % 4)]
================================================================================
