-------------------------- MODULE ConversionsProofs --------------------------
(***************************************************************************)
(* Proofs about Conversions: for any texts, addresses, memory, packet      *)
(* types, event codes and opcodes, addresses are read back as they were    *)
(* printed, numbers in memory do not depend on the machine, and the words  *)
(* of a filter are the sets that module HciPacket describes.               *)
(***************************************************************************)
EXTENDS Conversions, SequenceTheorems, TLAPS

-----------------------------------------------------------------------------
(* Byte order                                                              *)

\* What Reverse returns, and that it undoes itself.
LEMMA ReverseIs ==
    ASSUME NEW S, NEW s \in Seq(S)
    PROVE  /\ Reverse(s) \in Seq(S) /\ Len(Reverse(s)) = Len(s)
           /\ \A k \in 1 .. Len(s) : Reverse(s)[k] = s[Len(s) - k + 1]
           /\ Reverse(Reverse(s)) = s
  <1>1. /\ Len(s) \in Nat /\ DOMAIN s = 1 .. Len(s)
        /\ \A k \in 1 .. Len(s) : s[k] \in S
    OBVIOUS
  <1>2. \A k \in 1 .. Len(s) : (Len(s) - k) + 1 \in 1 .. Len(s)
    BY <1>1
  <1>3. Reverse(s) \in [1 .. Len(s) -> S]
    BY <1>1, <1>2 DEF Reverse
  <1>4. Reverse(s) \in Seq(S) /\ Len(Reverse(s)) = Len(s)
    BY <1>1, <1>3
  <1>5. \A k \in 1 .. Len(s) : Reverse(s)[k] = s[(Len(s) - k) + 1]
    BY <1>1 DEF Reverse
  <1>6. Reverse(Reverse(s)) = s
    <2> DEFINE r == Reverse(s)
    <2>1. Reverse(r) = [k \in 1 .. Len(s) |-> r[(Len(s) - k) + 1]]
      BY <1>4 DEF Reverse
    <2>2. \A k \in 1 .. Len(s) : r[(Len(s) - k) + 1] = s[k]
      <3> SUFFICES ASSUME NEW k \in 1 .. Len(s)
                   PROVE  r[(Len(s) - k) + 1] = s[k]
        OBVIOUS
      <3>1. (Len(s) - k) + 1 \in 1 .. Len(s)
        BY <1>2
      <3>2. (Len(s) - ((Len(s) - k) + 1)) + 1 = k
        BY <1>1
      <3> QED
        BY <1>5, <3>1, <3>2
    <2> HIDE DEF r
    <2>3. s = [k \in 1 .. Len(s) |-> s[k]]
      BY <1>1
    <2>4. Reverse(r) = s
      BY <2>1, <2>2, <2>3
    <2> QED
      BY <2>4 DEF r
  <1> QED
    BY <1>4, <1>5, <1>6

\* What the functions on unaligned memory do on either machine.
LEMMA AccessIs ==
    ASSUME NEW m \in Seq(Byte), NEW order \in Orders
    PROVE  /\ bt_get_be(order, m) = m
           /\ bt_get_le(order, m) = Reverse(m)
           /\ bt_put_le(order, Reverse(m)) = m
           /\ bt_put_be(order, m) = m
           /\ bt_put_unaligned(order, htob(order, Reverse(m))) = m
           /\ btoh(order, bt_get_unaligned(order, m)) = Reverse(m)
  <1>1. Reverse(Reverse(m)) = m
    BY ReverseIs
  <1>2. order = "little" \/ order = "big"
    BY DEF Orders
  <1> QED
    BY <1>1, <1>2 DEF bt_get_be, bt_get_le, bt_put_le, bt_put_be,
       bt_put_unaligned, bt_get_unaligned, htob, btoh, If, bswap

\* The halves of a number of 64 bits.
LEMMA Halves ==
    ASSUME NEW v \in Seq(Byte), Len(v) = 8
    PROVE  Reverse(SubSeq(v, 5, 8)) \o Reverse(SubSeq(v, 1, 4)) = Reverse(v)
  <1> DEFINE low == SubSeq(v, 5, 8)
             high == SubSeq(v, 1, 4)
  <1>0. \A k \in 1 .. 8 : v[k] \in Byte
    <2>1. v \in [1 .. Len(v) -> Byte]
      OBVIOUS
    <2> QED
      BY <2>1
  <1>1. /\ low \in Seq(Byte) /\ Len(low) = 4
        /\ \A k \in 1 .. 4 : low[k] = v[k + 4]
    <2>1. \A k \in 5 .. 8 : v[k] \in Byte
      BY <1>0
    <2>2. /\ low \in Seq(Byte) /\ Len(low) = IF 5 <= 8 THEN 8 - 5 + 1 ELSE 0
          /\ \A k \in 1 .. 8 - 5 + 1 : low[k] = v[5 + k - 1]
      BY <2>1, SubSeqProperties
    <2>3. Len(low) = 4
      BY <2>2
    <2>4. \A k \in 1 .. 4 : k \in 1 .. 8 - 5 + 1 /\ 5 + k - 1 = k + 4
      OBVIOUS
    <2> QED
      BY <2>2, <2>3, <2>4
  <1>2. /\ high \in Seq(Byte) /\ Len(high) = 4
        /\ \A k \in 1 .. 4 : high[k] = v[k]
    <2>1. \A k \in 1 .. 4 : v[k] \in Byte
      BY <1>0
    <2>2. /\ high \in Seq(Byte) /\ Len(high) = IF 1 <= 4 THEN 4 - 1 + 1 ELSE 0
          /\ \A k \in 1 .. 4 - 1 + 1 : high[k] = v[1 + k - 1]
      BY <2>1, SubSeqProperties
    <2>3. Len(high) = 4
      BY <2>2
    <2>4. \A k \in 1 .. 4 : k \in 1 .. 4 - 1 + 1 /\ 1 + k - 1 = k
      OBVIOUS
    <2> QED
      BY <2>2, <2>3, <2>4
  <1> HIDE DEF low, high
  <1>3. /\ Reverse(low) \in Seq(Byte) /\ Len(Reverse(low)) = 4
        /\ \A k \in 1 .. 4 : Reverse(low)[k] = low[4 - k + 1]
    <2>1. /\ Reverse(low) \in Seq(Byte) /\ Len(Reverse(low)) = Len(low)
          /\ \A k \in 1 .. Len(low) :
                Reverse(low)[k] = low[Len(low) - k + 1]
      BY <1>1, ReverseIs
    <2> QED
      BY <1>1, <2>1
  <1>4. /\ Reverse(high) \in Seq(Byte) /\ Len(Reverse(high)) = 4
        /\ \A k \in 1 .. 4 : Reverse(high)[k] = high[4 - k + 1]
    <2>1. /\ Reverse(high) \in Seq(Byte) /\ Len(Reverse(high)) = Len(high)
          /\ \A k \in 1 .. Len(high) :
                Reverse(high)[k] = high[Len(high) - k + 1]
      BY <1>2, ReverseIs
    <2> QED
      BY <1>2, <2>1
  <1>5. /\ Reverse(v) \in Seq(Byte) /\ Len(Reverse(v)) = 8
        /\ \A k \in 1 .. 8 : Reverse(v)[k] = v[8 - k + 1]
    <2>1. /\ Reverse(v) \in Seq(Byte) /\ Len(Reverse(v)) = Len(v)
          /\ \A k \in 1 .. Len(v) : Reverse(v)[k] = v[Len(v) - k + 1]
      BY ReverseIs
    <2> QED
      BY <2>1
  <1> DEFINE w == Reverse(low) \o Reverse(high)
  <1>6. /\ w \in Seq(Byte) /\ Len(w) = 8
        /\ \A k \in 1 .. 4 : w[k] = Reverse(low)[k]
        /\ \A k \in 5 .. 8 : w[k] = Reverse(high)[k - 4]
    <2> DEFINE a == Reverse(low)
               b == Reverse(high)
    <2>1. /\ a \in Seq(Byte) /\ Len(a) = 4 /\ b \in Seq(Byte) /\ Len(b) = 4
      BY <1>3, <1>4
    <2> HIDE DEF a, b
    <2>2. /\ a \o b \in Seq(Byte) /\ Len(a \o b) = Len(a) + Len(b)
          /\ \A k \in 1 .. Len(a) + Len(b) :
                (a \o b)[k] = IF k <= Len(a) THEN a[k] ELSE b[k - Len(a)]
      BY <2>1, ConcatProperties
    <2>3. /\ a \o b \in Seq(Byte) /\ Len(a \o b) = 8
          /\ \A k \in 1 .. 4 : (a \o b)[k] = a[k]
          /\ \A k \in 5 .. 8 : (a \o b)[k] = b[k - 4]
      BY <2>1, <2>2
    <2> QED
      BY <2>3 DEF a, b
  <1> HIDE DEF w
  <1>7. ASSUME NEW k \in 1 .. 8
        PROVE  w[k] = Reverse(v)[k]
    <2>1. CASE k \in 1 .. 4
      <3>1. w[k] = low[4 - k + 1]
        BY <1>3, <1>6, <2>1
      <3>2. 4 - k + 1 \in 1 .. 4 /\ (4 - k + 1) + 4 = 8 - k + 1
        BY <2>1
      <3> QED
        BY <1>1, <1>5, <3>1, <3>2
    <2>2. CASE k \in 5 .. 8
      <3>1. k - 4 \in 1 .. 4 /\ 4 - (k - 4) + 1 \in 1 .. 4
            /\ 4 - (k - 4) + 1 = 8 - k + 1
        BY <2>2
      <3>2. w[k] = high[4 - (k - 4) + 1]
        BY <1>4, <1>6, <2>2, <3>1
      <3> QED
        BY <1>2, <1>5, <3>1, <3>2
    <2> QED
      BY <2>1, <2>2
  <1>8. w = Reverse(v)
    BY <1>5, <1>6, <1>7
  <1> QED
    BY <1>8 DEF w, low, high

\* A number of 64 bits in network order is what the memory shows.
LEMMA NetworkIs ==
    ASSUME NEW m \in Seq(Byte), Len(m) = 8, NEW order \in Orders
    PROVE  ntoh64(order, bt_get_unaligned(order, m)) = m
  <1>1. CASE order = "big"
    BY <1>1 DEF ntoh64, bt_get_unaligned
  <1>2. CASE order = "little"
    <2>1. Reverse(m) \in Seq(Byte) /\ Len(Reverse(m)) = 8
          /\ Reverse(Reverse(m)) = m
      BY ReverseIs
    <2>2. bt_get_unaligned(order, m) = Reverse(m)
      BY <1>2 DEF bt_get_unaligned
    <2>3. ntoh64(order, Reverse(m)) = Reverse(Reverse(m))
      BY <1>2, <2>1, Halves DEF ntoh64, bswap
    <2> QED
      BY <2>1, <2>2, <2>3
  <1> QED
    BY <1>1, <1>2 DEF Orders

\* A number of 128 bits, in network order and in that of Bluetooth.
LEMMA WideIs ==
    ASSUME NEW m \in Seq(Byte), Len(m) = 16, NEW order \in Orders
    PROVE  /\ bt_get_unaligned(order, ntoh128(order, m)) = m
           /\ bt_get_unaligned(order, btoh128(order, m)) = Reverse(m)
  <1>1. bswap_128(m) = Reverse(m)
    <2>1. Reverse(m) = [k \in 1 .. 16 |-> m[(16 - k) + 1]]
      BY DEF Reverse
    <2>2. \A k \in 1 .. 16 : (16 - k) + 1 = 17 - k
      OBVIOUS
    <2> QED
      BY <2>1, <2>2 DEF bswap_128
  <1>2. Reverse(Reverse(m)) = m
    BY ReverseIs
  <1> QED
    BY <1>1, <1>2 DEF Orders, bt_get_unaligned, ntoh128, btoh128

-----------------------------------------------------------------------------
(* Addresses                                                               *)

\* The text of six bytes: the place of each digit and of each colon.
LEMMA HexTextIs ==
    ASSUME NEW b \in Seq(Byte), Len(b) = 6, NEW sep \in Nat
    PROVE  /\ DOMAIN HexText(b, sep) = 1 .. 17
           /\ \A i \in 0 .. 5 :
                /\ HexText(b, sep)[3 * i + 1] = b[i + 1] \div 16
                /\ HexText(b, sep)[3 * i + 2] = b[i + 1] % 16
           /\ \A i \in 1 .. 5 : HexText(b, sep)[3 * i] = sep
  <1>1. HexText(b, sep) = [k \in 1 .. 17 |->
            IF k % 3 = 0 THEN sep
            ELSE Digits(b[(k + 2) \div 3])[k % 3]]
    <2>1. 3 * Len(b) - 1 = 17
      OBVIOUS
    <2> QED
      BY <2>1 DEF HexText
  <1>2. ASSUME NEW i \in 0 .. 5
        PROVE  /\ HexText(b, sep)[3 * i + 1] = b[i + 1] \div 16
               /\ HexText(b, sep)[3 * i + 2] = b[i + 1] % 16
    <2>1. /\ 3 * i + 1 \in 1 .. 17 /\ (3 * i + 1) % 3 = 1
          /\ ((3 * i + 1) + 2) \div 3 = i + 1
          /\ 3 * i + 2 \in 1 .. 17 /\ (3 * i + 2) % 3 = 2
          /\ ((3 * i + 2) + 2) \div 3 = i + 1
      OBVIOUS
    <2>2. /\ HexText(b, sep)[3 * i + 1] = Digits(b[i + 1])[1]
          /\ HexText(b, sep)[3 * i + 2] = Digits(b[i + 1])[2]
      BY <1>1, <2>1
    <2> QED
      BY <2>2 DEF Digits
  <1>3. ASSUME NEW i \in 1 .. 5
        PROVE  HexText(b, sep)[3 * i] = sep
    <2>1. 3 * i \in 1 .. 17 /\ (3 * i) % 3 = 0
      OBVIOUS
    <2> QED
      BY <1>1, <2>1
  <1> QED
    BY <1>1, <1>2, <1>3

\* Every place of such a text is one of these.
LEMMA Places ==
    ASSUME NEW k \in 1 .. 17
    PROVE  \/ \E i \in 0 .. 5 : k = 3 * i + 1 \/ k = 3 * i + 2
           \/ \E i \in 1 .. 5 : k = 3 * i
  <1> DEFINE i == k \div 3
  <1>1. i \in 0 .. 5 /\ (k = 3 * i \/ k = 3 * i + 1 \/ k = 3 * i + 2)
    OBVIOUS
  <1>2. k = 3 * i => i \in 1 .. 5
    BY <1>1
  <1> QED
    BY <1>1, <1>2

\* The text of an address.
LEMMA TextIs ==
    ASSUME NEW ba \in bdaddr_t
    PROVE  /\ DOMAIN ba2str(ba) = 1 .. 17
           /\ \A i \in 0 .. 5 : /\ ba2str(ba)[3 * i + 1] = ba[5 - i] \div 16
                                /\ ba2str(ba)[3 * i + 2] = ba[5 - i] % 16
           /\ \A i \in 1 .. 5 : ba2str(ba)[3 * i] = Colon
  <1> DEFINE b == [k \in 1 .. 6 |-> ba[6 - k]]
  <1>1. \A k \in 1 .. 6 : 6 - k \in 0 .. 5
    OBVIOUS
  <1>2. b \in [1 .. 6 -> Byte]
    BY <1>1 DEF bdaddr_t
  <1>3. b \in Seq(Byte) /\ Len(b) = 6
    BY <1>2
  <1>4. \A i \in 0 .. 5 : b[i + 1] = ba[5 - i]
    <2>1. \A i \in 0 .. 5 : i + 1 \in 1 .. 6 /\ 6 - (i + 1) = 5 - i
      OBVIOUS
    <2> QED
      BY <2>1
  <1>5. Colon \in Nat
    BY DEF Colon
  <1> HIDE DEF b
  <1>6. /\ DOMAIN HexText(b, Colon) = 1 .. 17
        /\ \A i \in 0 .. 5 :
             /\ HexText(b, Colon)[3 * i + 1] = b[i + 1] \div 16
             /\ HexText(b, Colon)[3 * i + 2] = b[i + 1] % 16
        /\ \A i \in 1 .. 5 : HexText(b, Colon)[3 * i] = Colon
    BY <1>3, <1>5, HexTextIs
  <1>7. ba2str(ba) = HexText(b, Colon)
    BY DEF ba2str, b
  <1> QED
    BY <1>4, <1>6, <1>7

\* The bytes of an address, and its swapped form.
LEMMA SwapIs ==
    ASSUME NEW ba \in bdaddr_t
    PROVE  /\ baswap(ba) \in bdaddr_t
           /\ baswap(baswap(ba)) = ba
           /\ batostr(ba) = ba2str(baswap(ba))
           /\ \A i \in 0 .. 5 : ba[i] \in Byte
  <1>1. \A i \in 0 .. 5 : 5 - i \in 0 .. 5 /\ 5 - (5 - i) = i
    OBVIOUS
  <1>2. /\ ba \in [0 .. 5 -> Byte]
        /\ \A i \in 0 .. 5 : ba[i] \in Byte
    BY DEF bdaddr_t
  <1>3. baswap(ba) \in bdaddr_t
    BY <1>1, <1>2 DEF baswap, bdaddr_t
  <1>4. baswap(baswap(ba)) = ba
    <2>1. baswap(baswap(ba)) = [i \in 0 .. 5 |-> ba[i]]
      BY <1>1 DEF baswap
    <2> QED
      BY <1>2, <2>1
  <1>5. batostr(ba) = ba2str(baswap(ba))
    <2>1. \A k \in 1 .. 6 : baswap(ba)[6 - k] = ba[k - 1]
      <3>1. \A k \in 1 .. 6 : 6 - k \in 0 .. 5 /\ 5 - (6 - k) = k - 1
        OBVIOUS
      <3> QED
        BY <3>1 DEF baswap
    <2>2. [k \in 1 .. 6 |-> baswap(ba)[6 - k]] = [k \in 1 .. 6 |-> ba[k - 1]]
      BY <2>1
    <2> QED
      BY <2>2 DEF ba2str, batostr
  <1> QED
    BY <1>2, <1>3, <1>4, <1>5

\* A byte is its two hexadecimal digits, and two digits are a byte.
LEMMA ByteDigits ==
    /\ \A b \in Byte : /\ b \div 16 \in 0 .. 15 /\ b % 16 \in 0 .. 15
                       /\ 16 * (b \div 16) + (b % 16) = b
    /\ \A h, l \in 0 .. 15 : /\ 16 * h + l \in Byte
                             /\ (16 * h + l) \div 16 = h
                             /\ (16 * h + l) % 16 = l
  BY DEF Byte

\* Digits are the characters whose upper case is a value below 16.
LEMMA UpperIs ==
    /\ \A ch \in 0 .. 15 : isxdigit(ch) /\ Upper(ch) = ch
    /\ \A ch \in Nat : isxdigit(ch) => Upper(ch) \in 0 .. 15
    /\ \A ch \in Nat : Upper(ch) \in 0 .. 15 => isxdigit(ch)
    /\ \A ch \in Nat : Upper(ch) = Colon <=> ch = Colon
  BY DEF isxdigit, Upper, Lower, Colon

\* A well-formed text, place by place.
WellFormedText(str) ==
    /\ Len(str) = 17
    /\ \A i \in 0 .. 5 : isxdigit(str[3 * i + 1]) /\ isxdigit(str[3 * i + 2])
    /\ \A i \in 1 .. 5 : str[3 * i] = Colon

\* What str2ba makes of a text, well-formed or not.
LEMMA CheckIs ==
    ASSUME NEW str
    PROVE  /\ WellFormedText(str) =>
                str2ba(str) = [ret |-> 0, ba |->
                    [i \in 0 .. 5 |-> ByteAt(str, 3 * (5 - i) + 1)]]
           /\ ~WellFormedText(str) =>
                str2ba(str) = [ret |-> -1, ba |-> BDADDR_ANY]
  BY DEF WellFormedText, bachk, str2ba

\* The text of an address is well-formed, and is read as that address.
LEMMA PrintedIsRead ==
    ASSUME NEW ba \in bdaddr_t
    PROVE  str2ba(ba2str(ba)) = [ret |-> 0, ba |-> ba]
  <1> DEFINE t == ba2str(ba)
  <1>1. /\ DOMAIN t = 1 .. 17
        /\ \A i \in 0 .. 5 : /\ t[3 * i + 1] = ba[5 - i] \div 16
                             /\ t[3 * i + 2] = ba[5 - i] % 16
        /\ \A i \in 1 .. 5 : t[3 * i] = Colon
    BY TextIs
  <1>2. \A i \in 0 .. 5 : 5 - i \in 0 .. 5 /\ 5 - (5 - i) = i
    OBVIOUS
  <1>3. \A i \in 0 .. 5 : ba[i] \in Byte
    BY SwapIs
  <1>4. Len(t) = 17
    <2>1. t = [k \in 1 .. 3 * Len([k \in 1 .. 6 |-> ba[6 - k]]) - 1 |-> t[k]]
      BY DEF ba2str, HexText
    <2> HIDE DEF t
    <2>2. t = [k \in 1 .. 17 |-> t[k]]
      BY <1>1, <2>1
    <2> QED
      BY <2>2
  <1> HIDE DEF t
  <1>5. ASSUME NEW i \in 0 .. 5
        PROVE  /\ t[3 * i + 1] \in 0 .. 15 /\ t[3 * i + 2] \in 0 .. 15
               /\ ByteAt(t, 3 * i + 1) = ba[5 - i]
    <2>1. ba[5 - i] \in Byte
      BY <1>2, <1>3
    <2>2. /\ t[3 * i + 1] = ba[5 - i] \div 16 /\ t[3 * i + 2] = ba[5 - i] % 16
      BY <1>1
    <2>3. t[3 * i + 1] \in 0 .. 15 /\ t[3 * i + 2] \in 0 .. 15
          /\ 16 * t[3 * i + 1] + t[3 * i + 2] = ba[5 - i]
      BY <2>1, <2>2, ByteDigits
    <2>4. /\ Upper(t[3 * i + 1]) = t[3 * i + 1]
          /\ Upper(t[3 * i + 2]) = t[3 * i + 2]
      BY <2>3, UpperIs
    <2>5. (3 * i + 1) + 1 = 3 * i + 2
      OBVIOUS
    <2> QED
      BY <2>3, <2>4, <2>5 DEF ByteAt
  <1>6. WellFormedText(t)
    BY <1>1, <1>4, <1>5, UpperIs DEF WellFormedText
  <1>7. [i \in 0 .. 5 |-> ByteAt(t, 3 * (5 - i) + 1)] = ba
    <2>1. \A i \in 0 .. 5 : ByteAt(t, 3 * (5 - i) + 1) = ba[i]
      BY <1>2, <1>5
    <2>2. ba = [i \in 0 .. 5 |-> ba[i]]
      BY DEF bdaddr_t
    <2> QED
      BY <2>1, <2>2
  <1>8. str2ba(t) = [ret |-> 0, ba |-> ba]
    BY <1>6, <1>7, CheckIs
  <1> QED
    BY <1>8 DEF t

\* A well-formed text, in upper case, is that of the address it is read as.
LEMMA ReadIsPrinted ==
    ASSUME NEW str \in Seq(Nat), WellFormedText(str)
    PROVE  /\ str2ba(str).ret = 0 /\ str2ba(str).ba \in bdaddr_t
           /\ ba2str(str2ba(str).ba) = UpperText(str)
  <1> DEFINE ba == str2ba(str).ba
  <1>1. /\ str2ba(str).ret = 0
        /\ ba = [i \in 0 .. 5 |-> ByteAt(str, 3 * (5 - i) + 1)]
    BY CheckIs
  <1> HIDE DEF ba
  <1>2. Len(str) = 17 /\ \A k \in 1 .. 17 : str[k] \in Nat
    <2>1. Len(str) = 17
      BY DEF WellFormedText
    <2>2. str \in [1 .. Len(str) -> Nat]
      OBVIOUS
    <2> QED
      BY <2>1, <2>2
  <1>3. ASSUME NEW i \in 0 .. 5
        PROVE  LET h == Upper(str[3 * i + 1])
                   l == Upper(str[3 * i + 2])
                   b == ByteAt(str, 3 * i + 1)
               IN  b \in Byte /\ b \div 16 = h /\ b % 16 = l
    <2>1. 3 * i + 1 \in 1 .. 17 /\ 3 * i + 2 \in 1 .. 17
          /\ (3 * i + 1) + 1 = 3 * i + 2
      OBVIOUS
    <2>2. str[3 * i + 1] \in Nat /\ str[3 * i + 2] \in Nat
      BY <1>2, <2>1
    <2>3. isxdigit(str[3 * i + 1]) /\ isxdigit(str[3 * i + 2])
      BY DEF WellFormedText
    <2>4. /\ Upper(str[3 * i + 1]) \in 0 .. 15
          /\ Upper(str[3 * i + 2]) \in 0 .. 15
      BY <2>2, <2>3, UpperIs
    <2>5. ByteAt(str, 3 * i + 1) =
             16 * Upper(str[3 * i + 1]) + Upper(str[3 * i + 2])
      BY <2>1 DEF ByteAt
    <2> DEFINE h == Upper(str[3 * i + 1])
               l == Upper(str[3 * i + 2])
    <2>6. h \in 0 .. 15 /\ l \in 0 .. 15 /\ ByteAt(str, 3 * i + 1) = 16 * h + l
      BY <2>4, <2>5
    <2> HIDE DEF h, l
    <2>7. /\ 16 * h + l \in Byte
          /\ (16 * h + l) \div 16 = h /\ (16 * h + l) % 16 = l
      BY <2>6, ByteDigits
    <2> QED
      BY <2>6, <2>7 DEF h, l
  <1>4. \A i \in 0 .. 5 : 5 - i \in 0 .. 5 /\ 5 - (5 - i) = i
    OBVIOUS
  <1>5. \A i \in 0 .. 5 : ByteAt(str, 3 * i + 1) \in Byte
    BY <1>3
  <1>6. ba \in bdaddr_t /\ \A i \in 0 .. 5 : ba[5 - i] = ByteAt(str, 3 * i + 1)
    <2>1. \A i \in 0 .. 5 : ByteAt(str, 3 * (5 - i) + 1) \in Byte
      BY <1>4, <1>5
    <2>2. \A i \in 0 .. 5 : ba[i] = ByteAt(str, 3 * (5 - i) + 1)
      BY <1>1
    <2>3. \A i \in 0 .. 5 : ba[5 - i] = ByteAt(str, 3 * i + 1)
      BY <1>4, <2>2
    <2> QED
      BY <1>1, <2>1, <2>3 DEF bdaddr_t
  <1>7. /\ DOMAIN ba2str(ba) = 1 .. 17
        /\ \A i \in 0 .. 5 : /\ ba2str(ba)[3 * i + 1] = ba[5 - i] \div 16
                             /\ ba2str(ba)[3 * i + 2] = ba[5 - i] % 16
        /\ \A i \in 1 .. 5 : ba2str(ba)[3 * i] = Colon
    BY <1>6, TextIs
  <1>8. ASSUME NEW k \in 1 .. 17
        PROVE  ba2str(ba)[k] = Upper(str[k])
    <2>1. ASSUME NEW i \in 0 .. 5, k = 3 * i + 1
          PROVE  ba2str(ba)[k] = Upper(str[k])
      <3>1. ba2str(ba)[k] = ba[5 - i] \div 16
        BY <1>7, <2>1
      <3>2. ba[5 - i] = ByteAt(str, 3 * i + 1)
        BY <1>6
      <3>3. ByteAt(str, 3 * i + 1) \div 16 = Upper(str[k])
        BY <1>3, <2>1
      <3> QED
        BY <3>1, <3>2, <3>3
    <2>2. ASSUME NEW i \in 0 .. 5, k = 3 * i + 2
          PROVE  ba2str(ba)[k] = Upper(str[k])
      <3>1. ba2str(ba)[k] = ba[5 - i] % 16
        BY <1>7, <2>2
      <3>2. ba[5 - i] = ByteAt(str, 3 * i + 1)
        BY <1>6
      <3>3. ByteAt(str, 3 * i + 1) % 16 = Upper(str[k])
        BY <1>3, <2>2
      <3> QED
        BY <3>1, <3>2, <3>3
    <2>3. ASSUME NEW i \in 1 .. 5, k = 3 * i
          PROVE  ba2str(ba)[k] = Upper(str[k])
      <3>1. str[k] = Colon /\ str[k] \in Nat
        BY <1>2, <2>3 DEF WellFormedText
      <3> QED
        BY <1>7, <2>3, <3>1, UpperIs
    <2> QED
      BY <2>1, <2>2, <2>3, Places
  <1>9. UpperText(str) = [k \in 1 .. 17 |-> Upper(str[k])]
    BY <1>2 DEF UpperText
  <1>10. ba2str(ba) = UpperText(str)
    <2>1. ba2str(ba) = [k \in 1 .. 17 |-> ba2str(ba)[k]]
      BY <1>7 DEF ba2str, HexText
    <2> QED
      BY <1>8, <1>9, <2>1
  <1> QED
    BY <1>1, <1>6, <1>10 DEF ba

\* A text that is, in upper case, that of an address is well-formed.
LEMMA PrintedIsWellFormed ==
    ASSUME NEW str \in Seq(Nat), NEW ba \in bdaddr_t,
           ba2str(ba) = UpperText(str)
    PROVE  WellFormedText(str)
  <1>1. /\ DOMAIN ba2str(ba) = 1 .. 17
        /\ \A i \in 0 .. 5 : /\ ba2str(ba)[3 * i + 1] = ba[5 - i] \div 16
                             /\ ba2str(ba)[3 * i + 2] = ba[5 - i] % 16
        /\ \A i \in 1 .. 5 : ba2str(ba)[3 * i] = Colon
    BY TextIs
  <1>2. /\ DOMAIN str = 1 .. 17
        /\ \A k \in 1 .. 17 : Upper(str[k]) = ba2str(ba)[k]
    BY <1>1 DEF UpperText
  <1>3. Len(str) = 17 /\ \A k \in 1 .. 17 : str[k] \in Nat
    <2>1. str \in [1 .. Len(str) -> Nat] /\ Len(str) \in Nat
      OBVIOUS
    <2>2. 1 .. Len(str) = 1 .. 17
      BY <1>2, <2>1
    <2>3. Len(str) = 17
      BY <2>1, <2>2
    <2> QED
      BY <2>1, <2>3
  <1>4. ASSUME NEW i \in 0 .. 5
        PROVE  isxdigit(str[3 * i + 1]) /\ isxdigit(str[3 * i + 2])
    <2>1. 3 * i + 1 \in 1 .. 17 /\ 3 * i + 2 \in 1 .. 17 /\ 5 - i \in 0 .. 5
      OBVIOUS
    <2>2. ba[5 - i] \in Byte
      BY <2>1, SwapIs
    <2>3. /\ Upper(str[3 * i + 1]) \in 0 .. 15
          /\ Upper(str[3 * i + 2]) \in 0 .. 15
      <3>1. /\ Upper(str[3 * i + 1]) = ba[5 - i] \div 16
            /\ Upper(str[3 * i + 2]) = ba[5 - i] % 16
        BY <1>1, <1>2, <2>1
      <3> QED
        BY <2>2, <3>1, ByteDigits
    <2> QED
      BY <1>3, <2>1, <2>3, UpperIs
  <1>5. ASSUME NEW i \in 1 .. 5
        PROVE  str[3 * i] = Colon
    <2>1. 3 * i \in 1 .. 17
      OBVIOUS
    <2> QED
      BY <1>1, <1>2, <1>3, <2>1, UpperIs
  <1> QED
    BY <1>3, <1>4, <1>5 DEF WellFormedText

\* The company's identifier is the first half of the text, but for its dashes.
LEMMA CompanyIs ==
    ASSUME NEW ba \in bdaddr_t, NEW k \in DOMAIN ba2oui(ba)
    PROVE  ba2oui(ba)[k] = Dash \/ ba2oui(ba)[k] = ba2str(ba)[k]
  <1> DEFINE a == [j \in 1 .. 6 |-> ba[6 - j]]
             b == [j \in 1 .. 3 |-> ba[6 - j]]
  <1>1. /\ \A j \in 1 .. 6 : 6 - j \in 0 .. 5
        /\ \A j \in 1 .. 3 : 6 - j \in 0 .. 5
    OBVIOUS
  <1>2. a \in [1 .. 6 -> Byte] /\ b \in [1 .. 3 -> Byte]
    BY <1>1 DEF bdaddr_t
  <1>3. Len(a) = 6 /\ Len(b) = 3
    BY <1>2
  <1>4. \A j \in 1 .. 3 : b[j] = a[j]
    OBVIOUS
  <1>5. ba2oui(ba) = HexText(b, Dash) /\ ba2str(ba) = HexText(a, Colon)
    BY DEF ba2oui, ba2str
  <1> HIDE DEF a, b
  <1>6. k \in 1 .. 8
    <2>1. 3 * Len(b) - 1 = 8
      BY <1>3
    <2> QED
      BY <1>5, <2>1 DEF HexText
  <1>7. HexText(b, Dash)[k] = IF k % 3 = 0 THEN Dash
                              ELSE Digits(b[(k + 2) \div 3])[k % 3]
    <2>1. 3 * Len(b) - 1 = 8
      BY <1>3
    <2> QED
      BY <1>6, <2>1 DEF HexText
  <1>8. HexText(a, Colon)[k] = IF k % 3 = 0 THEN Colon
                               ELSE Digits(a[(k + 2) \div 3])[k % 3]
    <2>1. 3 * Len(a) - 1 = 17 /\ k \in 1 .. 17
      BY <1>3, <1>6
    <2> QED
      BY <2>1 DEF HexText
  <1>9. (k + 2) \div 3 \in 1 .. 3
    BY <1>6
  <1> QED
    BY <1>4, <1>5, <1>7, <1>8, <1>9

-----------------------------------------------------------------------------
(* Filters                                                                 *)

\* The word and the bit that stand for bit nr.
In(g, nr, addr) == nr % 32 \in g.mask[addr + nr \div 32]

Sets == [ptypes : SUBSET (0 .. 31), events : SUBSET (0 .. 63),
         opcode : uint16_t]

\* What the words of a filter show is what the sets hold.
Shows(g, s) ==
    /\ g \in Words /\ s \in Sets
    /\ \A b \in 0 .. 31 : In(g, b, type_mask) <=> b \in s.ptypes
    /\ \A b \in 0 .. 63 : In(g, b, event_mask) <=> b \in s.events
    /\ g.opcode = s.opcode

\* The place of each bit, and that no two bits have the same.
LEMMA Places32 ==
    /\ \A b \in 0 .. 31 : b \div 32 = 0 /\ b % 32 = b
    /\ \A b \in 0 .. 63 : /\ b \div 32 \in {0, 1} /\ b % 32 \in WordBits
                          /\ b = 32 * (b \div 32) + (b % 32)
  BY DEF WordBits

\* One word of a filter is replaced.
LEMMA WordIs ==
    ASSUME NEW g \in Words, NEW w \in 0 .. 2, NEW bits \in SUBSET WordBits
    PROVE  LET t == [g EXCEPT !.mask[w] = bits]
           IN  /\ t \in Words /\ t.opcode = g.opcode /\ t.mask[w] = bits
               /\ \A v \in 0 .. 2 : v # w => t.mask[v] = g.mask[v]
  <1> DEFINE m == [g.mask EXCEPT ![w] = bits]
             t == [g EXCEPT !.mask[w] = bits]
  <1>1. /\ g.mask \in [0 .. 2 -> SUBSET WordBits] /\ g.opcode \in uint16_t
        /\ g = [mask |-> g.mask, opcode |-> g.opcode]
    BY DEF Words
  <1>2. t = [mask |-> m, opcode |-> g.opcode]
    <2>1. DOMAIN g = {"mask", "opcode"}
      BY <1>1
    <2>2. t = [g EXCEPT !.mask = m]
      OBVIOUS
    <2> HIDE DEF m, t
    <2>3. [g EXCEPT !.mask = m] = [mask |-> m, opcode |-> g.opcode]
      BY <2>1
    <2> QED
      BY <2>2, <2>3
  <1>3. /\ m \in [0 .. 2 -> SUBSET WordBits] /\ m[w] = bits
        /\ \A v \in 0 .. 2 : v # w => m[v] = g.mask[v]
    BY <1>1
  <1> HIDE DEF m
  <1>4. t.mask = m /\ t.opcode = g.opcode
    BY <1>2
  <1>5. t \in Words
    BY <1>1, <1>2, <1>3 DEF Words
  <1> HIDE DEF t
  <1>6. /\ t \in Words /\ t.opcode = g.opcode /\ t.mask[w] = bits
        /\ \A v \in 0 .. 2 : v # w => t.mask[v] = g.mask[v]
    BY <1>3, <1>4, <1>5
  <1> QED
    BY <1>6 DEF t

\* One bit of a filter is set or cleared.
LEMMA SetBitIs ==
    ASSUME NEW g \in Words, NEW w \in 0 .. 2, NEW b \in WordBits
    PROVE  LET add == [g EXCEPT !.mask[w] = @ \cup {b}]
               del == [g EXCEPT !.mask[w] = @ \ {b}]
           IN  /\ add \in Words /\ del \in Words
               /\ add.opcode = g.opcode /\ del.opcode = g.opcode
               /\ add.mask[w] = g.mask[w] \cup {b}
               /\ del.mask[w] = g.mask[w] \ {b}
               /\ \A v \in 0 .. 2 : v # w =>
                     add.mask[v] = g.mask[v] /\ del.mask[v] = g.mask[v]
  <1>1. g.mask[w] \in SUBSET WordBits
    BY DEF Words
  <1> DEFINE more == g.mask[w] \cup {b}
             less == g.mask[w] \ {b}
             add == [g EXCEPT !.mask[w] = more]
             del == [g EXCEPT !.mask[w] = less]
  <1>2. more \in SUBSET WordBits /\ less \in SUBSET WordBits
    BY <1>1
  <1> HIDE DEF more, less
  <1>3. /\ add \in Words /\ add.opcode = g.opcode /\ add.mask[w] = more
        /\ \A v \in 0 .. 2 : v # w => add.mask[v] = g.mask[v]
    BY <1>2, WordIs
  <1>4. /\ del \in Words /\ del.opcode = g.opcode /\ del.mask[w] = less
        /\ \A v \in 0 .. 2 : v # w => del.mask[v] = g.mask[v]
    BY <1>2, WordIs
  <1>5. /\ [g EXCEPT !.mask[w] = @ \cup {b}] = add
        /\ [g EXCEPT !.mask[w] = @ \ {b}] = del
    BY DEF more, less
  <1> HIDE DEF add, del
  <1> QED
    BY <1>3, <1>4, <1>5 DEF more, less

\* The sets of a filter, and what replaces one of them.
LEMMA SetsAre ==
    ASSUME NEW s \in Sets
    PROVE  /\ s.ptypes \subseteq 0 .. 31 /\ s.events \subseteq 0 .. 63
           /\ s.opcode \in uint16_t
           /\ \A p \in SUBSET (0 .. 31) :
                LET t == [s EXCEPT !.ptypes = p] IN
                /\ t \in Sets /\ t.ptypes = p /\ t.events = s.events
                /\ t.opcode = s.opcode
           /\ \A e \in SUBSET (0 .. 63) :
                LET t == [s EXCEPT !.events = e] IN
                /\ t \in Sets /\ t.ptypes = s.ptypes /\ t.events = e
                /\ t.opcode = s.opcode
           /\ \A o \in uint16_t :
                LET t == [s EXCEPT !.opcode = o] IN
                /\ t \in Sets /\ t.ptypes = s.ptypes /\ t.events = s.events
                /\ t.opcode = o
  <1> DEFINE Types5 == SUBSET (0 .. 31)
             Events6 == SUBSET (0 .. 63)
  <1>1. Sets = [ptypes : Types5, events : Events6, opcode : uint16_t]
    BY DEF Sets
  <1> HIDE DEF Types5, Events6
  <1>2. /\ s.ptypes \in Types5 /\ s.events \in Events6 /\ s.opcode \in uint16_t
        /\ s = [ptypes |-> s.ptypes, events |-> s.events, opcode |-> s.opcode]
        /\ DOMAIN s = {"ptypes", "events", "opcode"}
    BY <1>1
  <1>3. /\ \A p : [s EXCEPT !.ptypes = p] =
              [ptypes |-> p, events |-> s.events, opcode |-> s.opcode]
        /\ \A e : [s EXCEPT !.events = e] =
              [ptypes |-> s.ptypes, events |-> e, opcode |-> s.opcode]
        /\ \A o : [s EXCEPT !.opcode = o] =
              [ptypes |-> s.ptypes, events |-> s.events, opcode |-> o]
    BY <1>2
  <1>4. \A p \in Types5, e \in Events6, o \in uint16_t :
           [ptypes |-> p, events |-> e, opcode |-> o] \in Sets
    BY <1>1
  <1>5. /\ \A p \in Types5 : LET t == [s EXCEPT !.ptypes = p] IN
              /\ t \in Sets /\ t.ptypes = p /\ t.events = s.events
              /\ t.opcode = s.opcode
        /\ \A e \in Events6 : LET t == [s EXCEPT !.events = e] IN
              /\ t \in Sets /\ t.ptypes = s.ptypes /\ t.events = e
              /\ t.opcode = s.opcode
        /\ \A o \in uint16_t : LET t == [s EXCEPT !.opcode = o] IN
              /\ t \in Sets /\ t.ptypes = s.ptypes /\ t.events = s.events
              /\ t.opcode = o
    BY <1>2, <1>3, <1>4
  <1> QED
    BY <1>2, <1>5 DEF Types5, Events6

\* A type bit is set or cleared: nothing else changes.
LEMMA TypeBitShows ==
    ASSUME NEW g, NEW s, Shows(g, s), NEW b \in 0 .. 31
    PROVE  /\ Shows(hci_set_bit(b, g, type_mask),
                 [s EXCEPT !.ptypes = @ \cup {b}])
           /\ Shows(hci_clear_bit(b, g, type_mask),
                 [s EXCEPT !.ptypes = @ \ {b}])
  <1> DEFINE add == [g EXCEPT !.mask[0] = @ \cup {b}]
             del == [g EXCEPT !.mask[0] = @ \ {b}]
             more == [s EXCEPT !.ptypes = @ \cup {b}]
             less == [s EXCEPT !.ptypes = @ \ {b}]
  <1>1. /\ hci_set_bit(b, g, type_mask) = add
        /\ hci_clear_bit(b, g, type_mask) = del
    <2>1. b % 32 = b /\ type_mask + b \div 32 = 0
      BY Places32 DEF type_mask
    <2> QED
      BY <2>1 DEF hci_set_bit, hci_clear_bit
  <1>2. g \in Words /\ b \in WordBits /\ 0 \in 0 .. 2
    BY DEF Shows, WordBits
  <1>3. /\ add \in Words /\ del \in Words
        /\ add.opcode = g.opcode /\ del.opcode = g.opcode
        /\ add.mask[0] = g.mask[0] \cup {b} /\ del.mask[0] = g.mask[0] \ {b}
        /\ \A v \in 0 .. 2 : v # 0 =>
              add.mask[v] = g.mask[v] /\ del.mask[v] = g.mask[v]
    BY <1>2, SetBitIs
  <1>4. /\ more \in Sets /\ less \in Sets
        /\ more.ptypes = s.ptypes \cup {b} /\ less.ptypes = s.ptypes \ {b}
        /\ more.events = s.events /\ less.events = s.events
        /\ more.opcode = s.opcode /\ less.opcode = s.opcode
    <2>1. s \in Sets
      BY DEF Shows
    <2>2. s.ptypes \subseteq 0 .. 31
      BY <2>1, SetsAre
    <2>3. /\ s.ptypes \cup {b} \in SUBSET (0 .. 31)
          /\ s.ptypes \ {b} \in SUBSET (0 .. 31)
      BY <2>2
    <2> QED
      BY <2>1, <2>3, SetsAre
  <1> HIDE DEF add, del, more, less
  <1>5. \A c \in 0 .. 31 : /\ In(g, c, type_mask) <=> c \in g.mask[0]
                           /\ In(add, c, type_mask) <=> c \in add.mask[0]
                           /\ In(del, c, type_mask) <=> c \in del.mask[0]
    BY Places32 DEF In, type_mask
  <1>6. \A c \in 0 .. 63 :
           /\ In(add, c, event_mask) <=> In(g, c, event_mask)
           /\ In(del, c, event_mask) <=> In(g, c, event_mask)
    <2> SUFFICES ASSUME NEW c \in 0 .. 63
                 PROVE  /\ In(add, c, event_mask) <=> In(g, c, event_mask)
                        /\ In(del, c, event_mask) <=> In(g, c, event_mask)
      OBVIOUS
    <2>1. event_mask + c \div 32 \in 0 .. 2 /\ event_mask + c \div 32 # 0
      BY Places32 DEF event_mask
    <2> QED
      BY <1>3, <2>1 DEF In
  <1>7. \A c \in 0 .. 31 : /\ In(add, c, type_mask) <=> c \in more.ptypes
                           /\ In(del, c, type_mask) <=> c \in less.ptypes
    <2>1. \A c \in 0 .. 31 : c \in g.mask[0] <=> c \in s.ptypes
      BY <1>5 DEF Shows
    <2> QED
      BY <1>3, <1>4, <1>5, <2>1
  <1>8. \A c \in 0 .. 63 : /\ In(add, c, event_mask) <=> c \in more.events
                           /\ In(del, c, event_mask) <=> c \in less.events
    <2>1. \A c \in 0 .. 63 : In(g, c, event_mask) <=> c \in s.events
      BY DEF Shows
    <2> QED
      BY <1>4, <1>6, <2>1
  <1>9. add.opcode = more.opcode /\ del.opcode = less.opcode
    BY <1>3, <1>4 DEF Shows
  <1>10. Shows(add, more) /\ Shows(del, less)
    BY <1>3, <1>4, <1>7, <1>8, <1>9 DEF Shows
  <1> QED
    BY <1>1, <1>10 DEF add, del, more, less

\* An event bit is set or cleared: nothing else changes.
LEMMA EventBitShows ==
    ASSUME NEW g, NEW s, Shows(g, s), NEW b \in 0 .. 63
    PROVE  /\ Shows(hci_set_bit(b, g, event_mask),
                 [s EXCEPT !.events = @ \cup {b}])
           /\ Shows(hci_clear_bit(b, g, event_mask),
                 [s EXCEPT !.events = @ \ {b}])
  <1> DEFINE w == 1 + b \div 32
             x == b % 32
             add == [g EXCEPT !.mask[w] = @ \cup {x}]
             del == [g EXCEPT !.mask[w] = @ \ {x}]
             more == [s EXCEPT !.events = @ \cup {b}]
             less == [s EXCEPT !.events = @ \ {b}]
  <1>1. /\ hci_set_bit(b, g, event_mask) = add
        /\ hci_clear_bit(b, g, event_mask) = del
    BY DEF hci_set_bit, hci_clear_bit, event_mask
  <1>2. g \in Words /\ x \in WordBits /\ w \in {1, 2} /\ w \in 0 .. 2
    BY Places32 DEF Shows
  <1> HIDE DEF w, x
  <1>3. /\ add \in Words /\ del \in Words
        /\ add.opcode = g.opcode /\ del.opcode = g.opcode
        /\ add.mask[w] = g.mask[w] \cup {x} /\ del.mask[w] = g.mask[w] \ {x}
        /\ \A v \in 0 .. 2 : v # w =>
              add.mask[v] = g.mask[v] /\ del.mask[v] = g.mask[v]
    BY <1>2, SetBitIs
  <1>4. /\ more \in Sets /\ less \in Sets
        /\ more.events = s.events \cup {b} /\ less.events = s.events \ {b}
        /\ more.ptypes = s.ptypes /\ less.ptypes = s.ptypes
        /\ more.opcode = s.opcode /\ less.opcode = s.opcode
    <2>1. s \in Sets
      BY DEF Shows
    <2>2. s.events \subseteq 0 .. 63
      BY <2>1, SetsAre
    <2>3. /\ s.events \cup {b} \in SUBSET (0 .. 63)
          /\ s.events \ {b} \in SUBSET (0 .. 63)
      BY <2>2
    <2> QED
      BY <2>1, <2>3, SetsAre
  <1> HIDE DEF add, del, more, less
  <1>5. \A c \in 0 .. 31 : /\ In(add, c, type_mask) <=> In(g, c, type_mask)
                           /\ In(del, c, type_mask) <=> In(g, c, type_mask)
    <2>1. \A c \in 0 .. 31 : type_mask + c \div 32 = 0
      BY Places32 DEF type_mask
    <2>2. 0 # w /\ 0 \in 0 .. 2
      BY <1>2
    <2> QED
      BY <1>3, <2>1, <2>2 DEF In
  <1>6. ASSUME NEW c \in 0 .. 63
        PROVE  /\ In(add, c, event_mask) <=> In(g, c, event_mask) \/ c = b
               /\ In(del, c, event_mask) <=> In(g, c, event_mask) /\ c # b
    <2>1. 1 + c \div 32 \in 0 .. 2
      BY Places32
    <2>2. CASE c = b
      BY <1>3, <2>2 DEF In, event_mask, w, x
    <2>3. CASE c # b /\ 1 + c \div 32 # w
      BY <1>3, <2>1, <2>3 DEF In, event_mask
    <2>4. CASE c # b /\ 1 + c \div 32 = w
      <3>1. c % 32 # x
        BY <2>4, Places32 DEF w, x
      <3> QED
        BY <1>3, <2>4, <3>1 DEF In, event_mask
    <2> QED
      BY <2>2, <2>3, <2>4
  <1>7. \A c \in 0 .. 31 : /\ In(add, c, type_mask) <=> c \in more.ptypes
                           /\ In(del, c, type_mask) <=> c \in less.ptypes
    <2>1. \A c \in 0 .. 31 : In(g, c, type_mask) <=> c \in s.ptypes
      BY DEF Shows
    <2> QED
      BY <1>4, <1>5, <2>1
  <1>8. \A c \in 0 .. 63 : /\ In(add, c, event_mask) <=> c \in more.events
                           /\ In(del, c, event_mask) <=> c \in less.events
    <2>1. \A c \in 0 .. 63 : In(g, c, event_mask) <=> c \in s.events
      BY DEF Shows
    <2> QED
      BY <1>4, <1>6, <2>1
  <1>9. add.opcode = more.opcode /\ del.opcode = less.opcode
    BY <1>3, <1>4 DEF Shows
  <1>10. Shows(add, more) /\ Shows(del, less)
    BY <1>3, <1>4, <1>7, <1>8, <1>9 DEF Shows
  <1> QED
    BY <1>1, <1>10 DEF add, del, more, less

\* The cleared filter shows the empty sets.
LEMMA Cleared == Shows(filter_clear, P!hci_filter_clear)
  <1> DEFINE c == P!hci_filter_clear
             z == [i \in 0 .. 2 |-> {}]
  <1>1. 0 \in uint16_t
    BY DEF uint16_t
  <1>2. z \in [0 .. 2 -> SUBSET WordBits] /\ \A i \in 0 .. 2 : z[i] = {}
    OBVIOUS
  <1>3. filter_clear = [mask |-> z, opcode |-> 0]
    BY DEF filter_clear
  <1> HIDE DEF z
  <1>4. filter_clear \in Words
    BY <1>1, <1>2, <1>3 DEF Words
  <1>5. c = [ptypes |-> {}, events |-> {}, opcode |-> 0]
    BY DEF P!hci_filter_clear
  <1>6. c \in Sets /\ c.ptypes = {} /\ c.events = {} /\ c.opcode = 0
    BY <1>1, <1>5 DEF Sets
  <1> HIDE DEF c
  <1>7. filter_clear.mask = z /\ filter_clear.opcode = 0
    BY <1>3
  <1>8. \A b \in 0 .. 31 : ~In(filter_clear, b, type_mask)
    BY <1>2, <1>7, Places32 DEF In, type_mask
  <1>9. \A b \in 0 .. 63 : ~In(filter_clear, b, event_mask)
    <2> SUFFICES ASSUME NEW b \in 0 .. 63
                 PROVE  ~In(filter_clear, b, event_mask)
      OBVIOUS
    <2>1. event_mask + b \div 32 \in 0 .. 2
      BY Places32 DEF event_mask
    <2> QED
      BY <1>2, <1>7, <2>1 DEF In
  <1>10. Shows(filter_clear, c)
    BY <1>4, <1>6, <1>7, <1>8, <1>9 DEF Shows
  <1> QED
    BY <1>10 DEF c

\* A filter is cleared, or opened for all types or all events.
LEMMA AllShows ==
    ASSUME NEW g, NEW s, Shows(g, s)
    PROVE  /\ Shows(filter_clear, P!hci_filter_clear)
           /\ Shows(hci_filter_all_ptypes(g), [s EXCEPT !.ptypes = 0 .. 31])
           /\ Shows(hci_filter_all_events(g), [s EXCEPT !.events = 0 .. 63])
  <1>0. g \in Words /\ s \in Sets
    BY DEF Shows
  <1>1. Shows(filter_clear, P!hci_filter_clear)
    BY Cleared
  <1>2. Shows(hci_filter_all_ptypes(g), [s EXCEPT !.ptypes = 0 .. 31])
    <2> DEFINE h == [g EXCEPT !.mask[0] = WordBits]
               t == [s EXCEPT !.ptypes = 0 .. 31]
    <2>1. hci_filter_all_ptypes(g) = h
      BY DEF hci_filter_all_ptypes, type_mask
    <2>2. /\ h \in Words /\ h.opcode = g.opcode /\ h.mask[0] = WordBits
          /\ \A v \in 0 .. 2 : v # 0 => h.mask[v] = g.mask[v]
      <3>1. 0 \in 0 .. 2 /\ WordBits \in SUBSET WordBits
        OBVIOUS
      <3> QED
        BY <1>0, <3>1, WordIs
    <2>3. /\ t \in Sets /\ t.ptypes = 0 .. 31 /\ t.events = s.events
          /\ t.opcode = s.opcode
      <3>1. 0 .. 31 \in SUBSET (0 .. 31)
        OBVIOUS
      <3> QED
        BY <1>0, <3>1, SetsAre
    <2> HIDE DEF h, t
    <2>4. \A b \in 0 .. 31 : In(h, b, type_mask)
      BY <2>2, Places32 DEF In, type_mask, WordBits
    <2>5. \A b \in 0 .. 63 : In(h, b, event_mask) <=> In(g, b, event_mask)
      <3> SUFFICES ASSUME NEW b \in 0 .. 63
                   PROVE  In(h, b, event_mask) <=> In(g, b, event_mask)
        OBVIOUS
      <3>1. event_mask + b \div 32 \in 0 .. 2 /\ event_mask + b \div 32 # 0
        BY Places32 DEF event_mask
      <3> QED
        BY <2>2, <3>1 DEF In
    <2>6. /\ \A b \in 0 .. 63 : In(g, b, event_mask) <=> b \in s.events
          /\ g.opcode = s.opcode
      BY DEF Shows
    <2>7. Shows(h, t)
      BY <2>2, <2>3, <2>4, <2>5, <2>6 DEF Shows
    <2> QED
      BY <2>1, <2>7 DEF h, t
  <1>3. Shows(hci_filter_all_events(g), [s EXCEPT !.events = 0 .. 63])
    <2> DEFINE i == [g EXCEPT !.mask[1] = WordBits]
               h == [i EXCEPT !.mask[2] = WordBits]
               t == [s EXCEPT !.events = 0 .. 63]
    <2>1. hci_filter_all_events(g) = h
      BY DEF hci_filter_all_events, event_mask
    <2>2. WordBits \in SUBSET WordBits /\ 1 \in 0 .. 2 /\ 2 \in 0 .. 2
      OBVIOUS
    <2>3. /\ i \in Words /\ i.opcode = g.opcode /\ i.mask[1] = WordBits
          /\ \A v \in 0 .. 2 : v # 1 => i.mask[v] = g.mask[v]
      BY <1>0, <2>2, WordIs
    <2> HIDE DEF i
    <2>4. /\ h \in Words /\ h.opcode = i.opcode /\ h.mask[2] = WordBits
          /\ \A v \in 0 .. 2 : v # 2 => h.mask[v] = i.mask[v]
      BY <2>2, <2>3, WordIs
    <2>5. /\ t \in Sets /\ t.ptypes = s.ptypes /\ t.events = 0 .. 63
          /\ t.opcode = s.opcode
      <3>1. 0 .. 63 \in SUBSET (0 .. 63)
        OBVIOUS
      <3> QED
        BY <1>0, <3>1, SetsAre
    <2> HIDE DEF h, t
    <2>6. \A b \in 0 .. 63 : In(h, b, event_mask)
      <3> SUFFICES ASSUME NEW b \in 0 .. 63
                   PROVE  In(h, b, event_mask)
        OBVIOUS
      <3>1. event_mask + b \div 32 \in {1, 2} /\ b % 32 \in WordBits
        BY Places32 DEF event_mask
      <3>2. h.mask[1] = WordBits
        BY <2>3, <2>4
      <3> QED
        BY <2>4, <3>1, <3>2 DEF In
    <2>7. \A b \in 0 .. 31 : In(h, b, type_mask) <=> In(g, b, type_mask)
      <3>1. h.mask[0] = g.mask[0]
        BY <2>3, <2>4
      <3> QED
        BY <3>1, Places32 DEF In, type_mask
    <2>8. /\ \A b \in 0 .. 31 : In(g, b, type_mask) <=> b \in s.ptypes
          /\ g.opcode = s.opcode
      BY DEF Shows
    <2>9. Shows(h, t)
      BY <2>3, <2>4, <2>5, <2>6, <2>7, <2>8 DEF Shows
    <2> QED
      BY <2>1, <2>9 DEF h, i, t
  <1> QED
    BY <1>1, <1>2, <1>3

\* The opcode of a filter is replaced.
LEMMA OpcodeShows ==
    ASSUME NEW g, NEW s, Shows(g, s), NEW o \in uint16_t
    PROVE  Shows([g EXCEPT !.opcode = o], [s EXCEPT !.opcode = o])
  <1> DEFINE h == [g EXCEPT !.opcode = o]
             t == [s EXCEPT !.opcode = o]
  <1>1. g \in Words /\ s \in Sets
    BY DEF Shows
  <1>2. h \in Words /\ h.mask = g.mask /\ h.opcode = o
    BY <1>1 DEF Words
  <1>3. /\ t \in Sets /\ t.ptypes = s.ptypes /\ t.events = s.events
        /\ t.opcode = o
    BY <1>1, SetsAre
  <1> HIDE DEF h, t
  <1>4. \A b, addr : In(h, b, addr) <=> In(g, b, addr)
    BY <1>2 DEF In
  <1>5. Shows(h, t)
    BY <1>2, <1>3, <1>4 DEF Shows
  <1> QED
    BY <1>5 DEF h, t

\* Every helper changes the words as the sets are changed.
LEMMA ChangesShow ==
    ASSUME NEW g, NEW s, Changes(g, s), Shows(g, s)
    PROVE  Shows(f', sets')
  BY DEF Changes

\* A change of the filter is no call of another function.
LEMMA ChangesCall ==
    ASSUME NEW g, NEW s, Changes(g, s)
    PROVE  call' = "filter"
  BY DEF Changes

\* The bit a helper takes is the one that the sets take.
LEMMA BitsAre ==
    /\ \A t \in Int : TypeBit(t) = TypeSet(t) /\ TypeSet(t) \in 0 .. 31
    /\ \A e \in Int : EventBit(e) = P!FilterBit(e) /\ EventBit(e) \in 0 .. 63
  BY DEF TypeBit, TypeSet, EventBit, P!FilterBit, HCI_VENDOR_PKT,
     HCI_FLT_TYPE_BITS, HCI_FLT_EVENT_BITS

\* The words of a filter go on showing its sets.
LEMMA FilterStep == Shows(f, sets) /\ [Next]_vars => Shows(f', sets')
  <1> SUFFICES ASSUME Shows(f, sets), [Next]_vars
               PROVE  Shows(f', sets')
    OBVIOUS
  <1>1. ASSUME NEW t \in Types, ChangeType(t)
        PROVE  Shows(f', sets')
    <2>1. t \in Int
      BY ConversionsAssumption
    <2>2. TypeBit(t) = TypeSet(t) /\ TypeSet(t) \in 0 .. 31
      BY <2>1, BitsAre
    <2>3. /\ Shows(hci_set_bit(TypeSet(t), f, type_mask),
                   [sets EXCEPT !.ptypes = @ \cup {TypeSet(t)}])
          /\ Shows(hci_clear_bit(TypeSet(t), f, type_mask),
                   [sets EXCEPT !.ptypes = @ \ {TypeSet(t)}])
      BY <2>2, TypeBitShows
    <2>4. /\ hci_filter_set_ptype(t, f) = hci_set_bit(TypeSet(t), f, type_mask)
          /\ hci_filter_clear_ptype(t, f) =
                hci_clear_bit(TypeSet(t), f, type_mask)
      BY <2>2 DEF hci_filter_set_ptype, hci_filter_clear_ptype
    <2> QED
      BY <1>1, <2>3, <2>4, ChangesShow DEF ChangeType
  <1>2. ASSUME NEW e \in Events, ChangeEvent(e)
        PROVE  Shows(f', sets')
    <2>1. e \in Int
      BY ConversionsAssumption
    <2>2. EventBit(e) = P!FilterBit(e) /\ EventBit(e) \in 0 .. 63
      BY <2>1, BitsAre
    <2>3. /\ Shows(hci_set_bit(EventBit(e), f, event_mask),
                   [sets EXCEPT !.events = @ \cup {EventBit(e)}])
          /\ Shows(hci_clear_bit(EventBit(e), f, event_mask),
                   [sets EXCEPT !.events = @ \ {EventBit(e)}])
      BY <2>2, EventBitShows
    <2>4. /\ hci_filter_set_event(e, f) =
                hci_set_bit(EventBit(e), f, event_mask)
          /\ hci_filter_clear_event(e, f) =
                hci_clear_bit(EventBit(e), f, event_mask)
      BY DEF hci_filter_set_event, hci_filter_clear_event
    <2> QED
      BY <1>2, <2>2, <2>3, <2>4, ChangesShow DEF ChangeEvent
  <1>3. CASE ChangeAll
    BY <1>3, AllShows, ChangesShow DEF ChangeAll
  <1>4. CASE ChangeOpcode
    <2>0. 0 \in uint16_t
      BY DEF uint16_t
    <2>1. 0 \in uint16_t /\ Opcodes \subseteq uint16_t
      BY <2>0, ConversionsAssumption
    <2>2. \A o \in uint16_t :
             Shows([f EXCEPT !.opcode = o], [sets EXCEPT !.opcode = o])
      BY OpcodeShows
    <2> QED
      BY <1>4, <2>1, <2>2, ChangesShow DEF ChangeOpcode,
         hci_filter_set_opcode, hci_filter_clear_opcode
  <1>5. CASE UNCHANGED <<f, sets>>
    BY <1>5
  <1> QED
    BY <1>1, <1>2, <1>3, <1>4, <1>5 DEF Next, vars, Returns, ParseAddress,
       PrintAddress, Access, ReadNetwork, ReadWide, NameBits, NameVersion,
       NameFlags, NameCommand, ListCommands, ListFeatures

-----------------------------------------------------------------------------
(* The calls                                                               *)

\* What a call put out is what its function makes of an input of the caller.
\* The properties are about inputs and outputs, so that this, which follows
\* them from call to call, is the invariant they need.
ConvInv ==
    /\ call = "str2ba" =>
         /\ arg \in Texts
         /\ out = [parsed |-> str2ba(arg), swapped |-> strtoba(arg)]
    /\ call = "ba2str" =>
         /\ arg \in Addrs
         /\ out = [text |-> ba2str(arg), swapped |-> batostr(arg),
                   oui |-> ba2oui(arg)]
    /\ call \in {"access", "ntoh64", "ntoh128"} => arg \in Memory
    /\ call = "access" =>
         out = [order \in Orders |->
            LET le == bt_get_le(order, arg)
                be == bt_get_be(order, arg)
            IN  [le |-> le, be |-> be,
                 putLe |-> bt_put_le(order, le), putBe |-> bt_put_be(order, be),
                 sent |-> bt_put_unaligned(order, htob(order, le)),
                 received |-> btoh(order, bt_get_unaligned(order, arg))]]
    /\ call = "ntoh64" =>
         /\ Len(arg) = 8
         /\ out = [order \in Orders |->
                     ntoh64(order, bt_get_unaligned(order, arg))]
    /\ call = "ntoh128" =>
         /\ Len(arg) = 16
         /\ out = [order \in Orders |->
              [network |-> bt_get_unaligned(order, ntoh128(order, arg)),
               bluetooth |-> bt_get_unaligned(order, btoh128(order, arg))]]

\* No function was called yet.
LEMMA ConvInit == Init => ConvInv
  BY DEF Init, ConvInv

\* A step is one of these calls, some other call, or a change of the filter.
LEMMA ConvStep == ConvInv /\ [Next]_vars => ConvInv'
  <1> SUFFICES ASSUME ConvInv, [Next]_vars
               PROVE  ConvInv'
    OBVIOUS
  <1>1. ASSUME NEW str \in Texts, ParseAddress(str)
        PROVE  ConvInv'
    BY <1>1 DEF ParseAddress, Returns, ConvInv
  <1>2. ASSUME NEW ba \in Addrs, PrintAddress(ba)
        PROVE  ConvInv'
    BY <1>2 DEF PrintAddress, Returns, ConvInv
  <1>3. ASSUME NEW m \in Memory, Access(m)
        PROVE  ConvInv'
    BY <1>3 DEF Access, Returns, ConvInv
  <1>4. ASSUME NEW m \in Memory, Len(m) = 8, ReadNetwork(m)
        PROVE  ConvInv'
    BY <1>4 DEF ReadNetwork, Returns, ConvInv
  <1>5. ASSUME NEW m \in Memory, Len(m) = 16, ReadWide(m)
        PROVE  ConvInv'
    BY <1>5 DEF ReadWide, Returns, ConvInv
  <1>6. ASSUME call' \notin {"str2ba", "ba2str", "access", "ntoh64", "ntoh128"}
        PROVE  ConvInv'
    BY <1>6 DEF ConvInv
  <1>7. CASE UNCHANGED vars
    BY <1>7 DEF ConvInv, vars
  <1>8. ASSUME NEW about, NEW val, NameBits(about, val)
        PROVE  ConvInv'
    BY <1>6, <1>8 DEF NameBits, Returns
  <1>9. ASSUME NEW about, NEW ver, NEW other, NameVersion(about, ver, other)
        PROVE  ConvInv'
    BY <1>6, <1>9 DEF NameVersion, Returns
  <1>10. ASSUME NEW x, NameFlags(x) \/ NameCommand(x)
         PROVE  ConvInv'
    BY <1>6, <1>10 DEF NameFlags, NameCommand, Returns
  <1>11. ASSUME NEW set, NEW width,
                ListCommands(set, width) \/ ListFeatures(set, width)
         PROVE  ConvInv'
    BY <1>6, <1>11 DEF ListCommands, ListFeatures, Returns
  <1>12. ASSUME NEW x, ChangeType(x) \/ ChangeEvent(x)
         PROVE  ConvInv'
    BY <1>6, <1>12, ChangesCall DEF ChangeType, ChangeEvent
  <1>13. CASE ChangeAll \/ ChangeOpcode
    BY <1>6, <1>13, ChangesCall DEF ChangeAll, ChangeOpcode
  <1> QED
    BY <1>1, <1>2, <1>3, <1>4, <1>5, <1>7, <1>8, <1>9, <1>10, <1>11, <1>12,
       <1>13 DEF Next

\* str2ba accepts exactly the texts that ba2str prints, in either case of the
\* letters, and reads back the address that was printed, for every text and
\* every address; strtoba and batostr do the same in the opposite order of the
\* bytes, and ba2oui is the first half of the text.
THEOREM AddressesReadBack == Spec => []AddressReadsBack
  <1>1. ASSUME ConvInv, call = "str2ba"
        PROVE  LET r == out.parsed IN
               /\ r.ret = 0 <=> ba2str(r.ba) = UpperText(arg)
               /\ r.ret = 0 => batostr(out.swapped) = UpperText(arg)
               /\ r.ret = -1 => r.ba = BDADDR_ANY /\ out.swapped = BDADDR_ANY
    <2> DEFINE r == str2ba(arg)
    <2>1. /\ arg \in Texts /\ out.parsed = r /\ out.swapped = baswap(r.ba)
      BY <1>1 DEF ConvInv, strtoba
    <2>2. arg \in Seq(Nat)
      BY <2>1, ConversionsAssumption
    <2>3. CASE WellFormedText(arg)
      <3>1. /\ r.ret = 0 /\ r.ba \in bdaddr_t
            /\ ba2str(r.ba) = UpperText(arg)
        BY <2>2, <2>3, ReadIsPrinted
      <3> HIDE DEF r
      <3>2. batostr(baswap(r.ba)) = ba2str(r.ba)
        BY <3>1, SwapIs
      <3> QED
        BY <2>1, <3>1, <3>2
    <2>4. CASE ~WellFormedText(arg)
      <3>1. r = [ret |-> -1, ba |-> BDADDR_ANY]
        BY <2>4, CheckIs
      <3>2. BDADDR_ANY \in bdaddr_t /\ baswap(BDADDR_ANY) = BDADDR_ANY
        BY DEF BDADDR_ANY, bdaddr_t, baswap, Byte
      <3>3. ba2str(BDADDR_ANY) # UpperText(arg)
        BY <2>2, <2>4, <3>2, PrintedIsWellFormed
      <3> HIDE DEF r
      <3>4. r.ret = -1 /\ r.ba = BDADDR_ANY
        BY <3>1
      <3> QED
        BY <2>1, <3>2, <3>3, <3>4
    <2> QED
      BY <2>3, <2>4
  <1>2. ASSUME ConvInv, call = "ba2str"
        PROVE  /\ str2ba(out.text) = [ret |-> 0, ba |-> arg]
               /\ strtoba(out.swapped) = arg
               /\ \A k \in DOMAIN out.oui :
                    out.oui[k] = Dash \/ out.oui[k] = out.text[k]
    <2>1. /\ arg \in Addrs /\ out.text = ba2str(arg)
          /\ out.swapped = batostr(arg) /\ out.oui = ba2oui(arg)
      BY <1>2 DEF ConvInv
    <2>2. arg \in bdaddr_t
      BY <2>1, ConversionsAssumption
    <2>3. str2ba(ba2str(arg)) = [ret |-> 0, ba |-> arg]
      BY <2>2, PrintedIsRead
    <2>4. strtoba(batostr(arg)) = arg
      <3>1. /\ baswap(arg) \in bdaddr_t /\ baswap(baswap(arg)) = arg
            /\ batostr(arg) = ba2str(baswap(arg))
        BY <2>2, SwapIs
      <3>2. str2ba(ba2str(baswap(arg))) = [ret |-> 0, ba |-> baswap(arg)]
        BY <3>1, PrintedIsRead
      <3> QED
        BY <3>1, <3>2 DEF strtoba
    <2>5. \A k \in DOMAIN ba2oui(arg) :
             ba2oui(arg)[k] = Dash \/ ba2oui(arg)[k] = ba2str(arg)[k]
      BY <2>2, CompanyIs
    <2> QED
      BY <2>1, <2>3, <2>4, <2>5
  <1>3. ConvInv => AddressReadsBack
    BY <1>1, <1>2 DEF AddressReadsBack
  <1> QED
    BY <1>3, ConvInit, ConvStep, PTL DEF Spec

\* A number that is read from or written to memory of any length is the same
\* on machines of either byte order, through every function.
THEOREM LayoutIsTheSame == Spec => []LayoutIsPortable
  <1>1. ASSUME ConvInv, call = "access", NEW order \in Orders
        PROVE  LET r == out[order] IN
               /\ r.be = arg /\ r.le = Reverse(arg)
               /\ r.received = Reverse(arg)
               /\ r.putLe = arg /\ r.putBe = arg /\ r.sent = arg
    <2> DEFINE le == bt_get_le(order, arg)
               be == bt_get_be(order, arg)
    <2>1. /\ arg \in Memory
          /\ out[order] =
               [le |-> le, be |-> be,
                putLe |-> bt_put_le(order, le), putBe |-> bt_put_be(order, be),
                sent |-> bt_put_unaligned(order, htob(order, le)),
                received |-> btoh(order, bt_get_unaligned(order, arg))]
      BY <1>1 DEF ConvInv
    <2>2. arg \in Seq(Byte)
      BY <2>1, ConversionsAssumption
    <2>3. /\ be = arg /\ le = Reverse(arg)
          /\ bt_put_le(order, Reverse(arg)) = arg
          /\ bt_put_be(order, arg) = arg
          /\ bt_put_unaligned(order, htob(order, Reverse(arg))) = arg
          /\ btoh(order, bt_get_unaligned(order, arg)) = Reverse(arg)
      BY <2>2, AccessIs
    <2> HIDE DEF le, be
    <2> QED
      BY <2>1, <2>3
  <1>2. ASSUME ConvInv, call = "ntoh64", NEW order \in Orders
        PROVE  out[order] = arg
    <2>1. /\ arg \in Memory /\ Len(arg) = 8
          /\ out[order] = ntoh64(order, bt_get_unaligned(order, arg))
      BY <1>2 DEF ConvInv
    <2>2. arg \in Seq(Byte)
      BY <2>1, ConversionsAssumption
    <2> QED
      BY <2>1, <2>2, NetworkIs
  <1>3. ASSUME ConvInv, call = "ntoh128", NEW order \in Orders
        PROVE  out[order] = [network |-> arg, bluetooth |-> Reverse(arg)]
    <2>1. /\ arg \in Memory /\ Len(arg) = 16
          /\ out[order] =
               [network |-> bt_get_unaligned(order, ntoh128(order, arg)),
                bluetooth |-> bt_get_unaligned(order, btoh128(order, arg))]
      BY <1>3 DEF ConvInv
    <2>2. arg \in Seq(Byte)
      BY <2>1, ConversionsAssumption
    <2>3. /\ bt_get_unaligned(order, ntoh128(order, arg)) = arg
          /\ bt_get_unaligned(order, btoh128(order, arg)) = Reverse(arg)
      BY <2>1, <2>2, WideIs
    <2> QED
      BY <2>1, <2>3
  <1>4. ConvInv => LayoutIsPortable
    BY <1>1, <1>2, <1>3 DEF LayoutIsPortable
  <1> QED
    BY <1>4, ConvInit, ConvStep, PTL DEF Spec

\* The invariant of the filter under construction.
FilterInv == Shows(f, sets)

\* After any sequence of calls of the helpers, for any types, events and
\* opcodes, the words of the filter are the sets that HciPacket describes: no
\* bit of one event or type spills into that of another.
THEOREM FiltersAreTheirSets == Spec => []FilterIsItsSets
  <1>1. Init => FilterInv
    BY Cleared DEF Init, FilterInv
  <1>2. FilterInv => FilterIsItsSets
    <2> SUFFICES ASSUME Shows(f, sets)
                 PROVE  FilterIsItsSets
      BY DEF FilterInv
    <2>1. /\ f \in Words /\ f.opcode = sets.opcode
          /\ \A b \in 0 .. 31 : In(f, b, type_mask) <=> b \in sets.ptypes
          /\ \A b \in 0 .. 63 : In(f, b, event_mask) <=> b \in sets.events
      BY DEF Shows
    <2>2. ASSUME NEW e \in Events
          PROVE  hci_filter_test_event(e, f) <=> P!FilterBit(e) \in sets.events
      <3>1. e \in Int
        BY ConversionsAssumption
      <3>2. EventBit(e) = P!FilterBit(e) /\ EventBit(e) \in 0 .. 63
        BY <3>1, BitsAre
      <3>3. hci_filter_test_event(e, f) <=> In(f, EventBit(e), event_mask)
        BY DEF hci_filter_test_event, hci_test_bit, In
      <3> QED
        BY <2>1, <3>2, <3>3
    <2>3. ASSUME NEW t \in Types
          PROVE  hci_filter_test_ptype(t, f) <=> TypeSet(t) \in sets.ptypes
      <3>1. t \in Int
        BY ConversionsAssumption
      <3>2. TypeBit(t) = TypeSet(t) /\ TypeSet(t) \in 0 .. 31
        BY <3>1, BitsAre
      <3>3. hci_filter_test_ptype(t, f) <=> In(f, TypeBit(t), type_mask)
        BY DEF hci_filter_test_ptype, hci_test_bit, In
      <3> QED
        BY <2>1, <3>2, <3>3
    <2> QED
      BY <2>1, <2>2, <2>3 DEF FilterIsItsSets
  <1>3. FilterInv /\ [Next]_vars => FilterInv'
    BY FilterStep DEF FilterInv
  <1> QED
    BY <1>1, <1>2, <1>3, PTL DEF Spec
================================================================================
