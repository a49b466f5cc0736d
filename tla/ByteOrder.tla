------------------------------- MODULE ByteOrder -------------------------------
(***************************************************************************)
(* Byte order conversions and unaligned access (bluetooth.h), compiled for *)
(* a machine of either byte order.                                         *)
(*                                                                         *)
(* Memory is a sequence of bytes by rising address, and a number of 16, 32 *)
(* or 64 bits the sequence of its bytes from the most significant one, so  *)
(* that each operator here stands for one function of every width.         *)
(***************************************************************************)
EXTENDS Integers, Sequences, SequencesExt

Orders == {"little", "big"}

\* The number at bytes m of memory, and the memory that holds number v.
bt_get_unaligned(order, m) == IF order = "little" THEN Reverse(m) ELSE m
bt_put_unaligned(order, v) == IF order = "little" THEN Reverse(v) ELSE v

bswap(v) == Reverse(v)
If(swapped, v) == IF swapped THEN bswap(v) ELSE v

\* htobs, btohs and the like: to and from the little-endian order of HCI.
htob(order, v) == If(order = "big", v)
btoh(order, v) == If(order = "big", v)

bt_get_le(order, m) == If(order = "big", bt_get_unaligned(order, m))
bt_get_be(order, m) == If(order = "little", bt_get_unaligned(order, m))
bt_put_le(order, v) == bt_put_unaligned(order, If(order = "big", v))
bt_put_be(order, v) == bt_put_unaligned(order, If(order = "little", v))

\* Mutated: the halves are swapped within, and left where they are.
ntoh64InPlace(order, n) ==
    IF order = "big" THEN n
    ELSE bswap(SubSeq(n, 1, 4)) \o bswap(SubSeq(n, 5, 8))

\* Made of ntohl of the low half, which becomes the high one, and of the high.
ntoh64(order, n) ==
    IF order = "big" THEN n
    ELSE bswap(SubSeq(n, 5, 8)) \o bswap(SubSeq(n, 1, 4))

\* These take and return memory.
bswap_128(m) == [i \in 1 .. 16 |-> m[17 - i]]
ntoh128(order, m) == IF order = "big" THEN m ELSE bswap_128(m)
btoh128(order, m) == IF order = "big" THEN bswap_128(m) ELSE m
================================================================================
