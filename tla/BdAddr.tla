-------------------------------- MODULE BdAddr --------------------------------
(***************************************************************************)
(* Bluetooth addresses and their text (bluetooth.c).                       *)
(*                                                                         *)
(* An address is the six bytes bdaddr_t.b, numbered from 0 and lowest      *)
(* first.  A text is a sequence of characters; a character is the value of *)
(* a hexadecimal digit, that value + Lower for one of a .. f, or a code of *)
(* its own for any other.                                                  *)
(***************************************************************************)
EXTENDS Integers, Sequences

Byte == 0 .. 255
bdaddr_t == [0 .. 5 -> Byte]
BDADDR_ANY == [i \in 0 .. 5 |-> 0]

Lower == 32
Colon == 16
Dash == 17
Blank == 18

isxdigit(ch) == ch \in 0 .. 15 \/ ch \in 10 + Lower .. 15 + Lower
Upper(ch) == IF isxdigit(ch) /\ ch > 15 THEN ch - Lower ELSE ch

\* The two digits of "%2.2X".
Digits(byte) == <<byte \div 16, byte % 16>>

\* What "%2.2X:%2.2X: ..." prints of a sequence of bytes.
HexText(bytes, separator) ==
    [k \in 1 .. 3 * Len(bytes) - 1 |->
        IF k % 3 = 0 THEN separator
        ELSE Digits(bytes[(k + 2) \div 3])[k % 3]]

ba2str(ba) == HexText([k \in 1 .. 6 |-> ba[6 - k]], Colon)
ba2oui(ba) == HexText([k \in 1 .. 3 |-> ba[6 - k]], Dash)
batostr(ba) == HexText([k \in 1 .. 6 |-> ba[k - 1]], Colon)

\* 0 for the text of an address, else -1: six times two digits, and a colon
\* between them.
bachk(str) ==
    IF /\ Len(str) = 17
       /\ \A i \in 0 .. 5 : isxdigit(str[3 * i + 1]) /\ isxdigit(str[3 * i + 2])
       /\ \A i \in 1 .. 5 : str[3 * i] = Colon
    THEN 0 ELSE -1

\* strtol reads two digits, up to the colon or the end.
ByteAt(str, k) == 16 * Upper(str[k]) + Upper(str[k + 1])

\* Mutated: the bytes are stored in the order of the text.
str2baForward(str) ==
    IF bachk(str) < 0 THEN [ret |-> -1, ba |-> BDADDR_ANY]
    ELSE [ret |-> 0, ba |-> [i \in 0 .. 5 |-> ByteAt(str, 3 * i + 1)]]

\* The text begins with the highest byte; a malformed one is the zero address.
str2ba(str) ==
    IF bachk(str) < 0 THEN [ret |-> -1, ba |-> BDADDR_ANY]
    ELSE [ret |-> 0, ba |-> [i \in 0 .. 5 |-> ByteAt(str, 3 * (5 - i) + 1)]]

baswap(src) == [i \in 0 .. 5 |-> src[5 - i]]
strtoba(str) == baswap(str2ba(str).ba)
===============================================================================
