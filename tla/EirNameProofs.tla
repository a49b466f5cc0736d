---------------------------- MODULE EirNameProofs ----------------------------
(***************************************************************************)
(* Proofs about EirName: for any bytes, any length of the data and any     *)
(* buffer, the parser stays within the report and within the buffer, and   *)
(* in well-formed data it finds the first name.                            *)
(***************************************************************************)
EXTENDS EirName, TLAPS

\* The byte the loop looks at is a byte of the data.
LEMMA FieldLength ==
    ASSUME TypeOK, InLoop
    PROVE  /\ index \in Nat /\ eir_len \in Nat
           /\ field_len \in 0 .. 255
  <1>1. index \in Nat /\ eir_len \in Nat /\ index < eir_len
    BY ByteAssumption DEF TypeOK, InLoop
  <1>2. index \in 0 .. eir_len
    BY <1>1
  <1>3. eir \in [0 .. eir_len -> Byte]
    BY DEF TypeOK
  <1>4. eir[index] \in Byte
    BY <1>2, <1>3
  <1> QED
    BY <1>1, <1>4, ByteAssumption DEF field_len

\* TypeOK is inductive: no field length of 0 gets as far as the subtraction.
LEMMA TypeOKStep == TypeOK /\ [Next]_vars => TypeOK'
  <1> SUFFICES ASSUME TypeOK, [Next]_vars
               PROVE  TypeOK'
    OBVIOUS
  <1>1. CASE Reject
    BY <1>1 DEF Reject, TypeOK
  <1>2. CASE Copy
    <2>1. field_len \in 0 .. 255 /\ field_len # 0 /\ index \in Nat
      BY <1>2, FieldLength DEF Copy, Malformed
    <2>2. from' \in Nat /\ count' \in Nat
      BY <1>2, <2>1 DEF Copy
    <2> QED
      BY <1>2, <2>2 DEF Copy, TypeOK
  <1>3. CASE Advance
    <2>1. field_len \in 0 .. 255 /\ index \in Nat
      BY <1>3, FieldLength DEF Advance
    <2>2. index' \in Nat
      BY <1>3, <2>1 DEF Advance
    <2> QED
      BY <1>3, <2>2 DEF Advance, TypeOK
  <1>4. CASE NotFound
    BY <1>4 DEF NotFound, TypeOK
  <1>5. CASE UNCHANGED vars
    BY <1>5 DEF vars, TypeOK
  <1> QED
    BY <1>1, <1>2, <1>3, <1>4, <1>5 DEF Next

\* Every variable keeps its type; what is copied never has a negative length.
THEOREM EirTypeCorrect == Spec => []TypeOK
  <1>1. Init => TypeOK
    BY DEF Init, TypeOK
  <1> QED
    BY <1>1, TypeOKStep, PTL DEF Spec

\* The bytes copied lie in the report and fit the buffer.
CopyInv ==
    /\ ret = 0 => from + count <= eir_len + 1
    /\ count <= output_name_len

LEMMA CopyInvStep == TypeOK /\ CopyInv /\ [Next]_vars => CopyInv'
  <1> SUFFICES ASSUME TypeOK, CopyInv, [Next]_vars
               PROVE  CopyInv'
    OBVIOUS
  <1>1. CASE Copy
    <2>1. /\ field_len \in 0 .. 255 /\ index \in Nat /\ eir_len \in Nat
          /\ ~(index + field_len > eir_len)
      BY <1>1, FieldLength DEF Copy, Malformed
    <2>2. /\ from' = index + 2 /\ count' = field_len - 1
          /\ field_len - 1 <= output_name_len /\ eir_len' = eir_len
      BY <1>1 DEF Copy, Fits
    <2> QED
      BY <2>1, <2>2 DEF CopyInv
  <1>2. CASE Reject \/ Advance \/ NotFound
    BY <1>2 DEF Reject, Advance, NotFound, InLoop, CopyInv
  <1>3. CASE UNCHANGED vars
    BY <1>3 DEF vars, CopyInv
  <1> QED
    BY <1>1, <1>2, <1>3 DEF Next

\* However malformed the data, the parser reads nothing beyond the byte behind
\* it and writes nothing beyond the caller's buffer.
THEOREM ParserStaysInReport == Spec => []StaysInReport
  <1>1. Init => CopyInv
    BY ByteAssumption DEF Init, CopyInv
  <1>2. TypeOK /\ CopyInv => StaysInReport
    <2> SUFFICES ASSUME TypeOK, CopyInv
                 PROVE  StaysInReport
      OBVIOUS
    <2>1. ASSUME InLoop, ~Malformed
          PROVE  index + field_len <= eir_len
      <3>1. field_len \in 0 .. 255 /\ index \in Nat /\ eir_len \in Nat
        BY <2>1, FieldLength
      <3> QED
        BY <2>1, <3>1 DEF Malformed
    <2> QED
      BY <2>1 DEF StaysInReport, CopyInv
  <1> QED
    BY <1>1, <1>2, CopyInvStep, EirTypeCorrect, PTL DEF Spec

-----------------------------------------------------------------------------
(* The first name                                                          *)

\* Fields begin at 0, and behind every field that ends within the data, ...
LEMMA StartsAre ==
    ASSUME TypeOK
    PROVE  /\ Starts \subseteq 0 .. eir_len
           /\ 0 \in Starts
           /\ Closed(Starts)
  <1>1. eir_len \in Nat /\ eir \in [0 .. eir_len -> Byte] /\ 0 \in 0 .. eir_len
    BY ByteAssumption DEF TypeOK
  <1>2. Starts \subseteq 0 .. eir_len /\ 0 \in Starts
    BY <1>1 DEF Starts
  <1>3. ASSUME NEW i \in Starts, eir[i] # 0, i + 1 + eir[i] <= eir_len
        PROVE  i + 1 + eir[i] \in Starts
    <2>1. i \in 0 .. eir_len /\ eir[i] \in 0 .. 255
      BY <1>1, <1>2, ByteAssumption
    <2>2. i + 1 + eir[i] \in 0 .. eir_len
      <3>1. eir_len \in Nat
        BY <1>1
      <3> QED
        BY <1>3, <2>1, <3>1
    <2>3. ASSUME NEW S \in SUBSET (0 .. eir_len), 0 \in S, Closed(S)
          PROVE  i + 1 + eir[i] \in S
      <3>1. i \in S
        BY <2>3 DEF Starts
      <3> QED
        BY <1>3, <2>3, <3>1 DEF Closed
    <2> QED
      BY <2>2, <2>3 DEF Starts
  <1> QED
    BY <1>2, <1>3 DEF Closed

\* ... and nowhere else.
LEMMA StartsOnly ==
    ASSUME TypeOK, NEW S, S \subseteq 0 .. eir_len, 0 \in S, Closed(S)
    PROVE  Starts \subseteq S
  BY DEF Starts

\* The field that begins at an offset: its length and what stands behind it.
LEMMA FieldBytes ==
    ASSUME TypeOK
    PROVE  /\ eir_len \in Nat
           /\ \A i \in Starts : i \in 0 .. eir_len /\ eir[i] \in 0 .. 255
  <1>1. eir_len \in Nat /\ eir \in [0 .. eir_len -> Byte]
    BY ByteAssumption DEF TypeOK
  <1> QED
    BY <1>1, StartsAre, ByteAssumption

\* The field that begins at i is not a name, and the next one begins at n or
\* before it.
PassedBy(i, n) ==
    /\ eir[i] # 0
    /\ eir[i + 1] \notin {8, 9}
    /\ i + 1 + eir[i] <= n

\* While the loop runs over well-formed data it is at the beginning of a field
\* or at the end, and has passed by every field that begins before.
AtField ==
    /\ index \in Starts
    /\ \A i \in Starts : i < index => PassedBy(i, index)

ParseInv ==
    /\ ret = 1 /\ WellFormed => AtField
    /\ FindsFirstName

\* Between a field and the next no other begins.
LEMMA NoneBetween ==
    ASSUME TypeOK, AtField, index < eir_len, eir[index] # 0,
           NEW i \in Starts
    PROVE  i <= index \/ i >= index + 1 + eir[index]
  <1> DEFINE n == index + 1 + eir[index]
             S == {j \in Starts : j <= index \/ j >= n}
  <1>1. /\ index \in Starts /\ index \in 0 .. eir_len /\ eir_len \in Nat
        /\ eir[index] \in 0 .. 255 /\ n \in Nat /\ n > index
    BY FieldBytes DEF AtField
  <1>2. S \subseteq 0 .. eir_len /\ 0 \in S
    <2>1. Starts \subseteq 0 .. eir_len /\ 0 \in Starts
      BY StartsAre
    <2>2. 0 <= index
      BY <1>1
    <2>3. 0 \in S
      BY <2>1, <2>2
    <2>4. S \subseteq 0 .. eir_len
      BY <2>1
    <2> QED
      BY <2>3, <2>4
  <1>3. Closed(S)
    <2> SUFFICES ASSUME NEW j \in S, eir[j] # 0, j + 1 + eir[j] <= eir_len
                 PROVE  j + 1 + eir[j] \in S
      BY DEF Closed
    <2>1. j \in Starts /\ j \in 0 .. eir_len /\ eir[j] \in 0 .. 255
      BY FieldBytes
    <2>2. j + 1 + eir[j] \in Starts
      BY <2>1, StartsAre DEF Closed
    <2>3. j + 1 + eir[j] <= index \/ j + 1 + eir[j] >= n
      <3>1. CASE j < index
        BY <2>1, <3>1 DEF AtField, PassedBy
      <3>2. CASE j = index
        BY <1>1, <3>2
      <3>3. CASE j >= n
        BY <1>1, <2>1, <3>3
      <3>4. j <= index \/ j >= n
        OBVIOUS
      <3> QED
        BY <1>1, <2>1, <3>1, <3>2, <3>3, <3>4
    <2> QED
      BY <2>2, <2>3
  <1>4. Starts \subseteq S
    BY <1>2, <1>3, StartsOnly
  <1> QED
    BY <1>4

\* Behind a length of 0 no field begins.
LEMMA NoneBehindZero ==
    ASSUME TypeOK, AtField, eir[index] = 0, NEW i \in Starts
    PROVE  i <= index
  <1> DEFINE S == {j \in Starts : j <= index}
  <1>1. index \in Starts /\ index \in 0 .. eir_len /\ eir_len \in Nat
    BY FieldBytes DEF AtField
  <1>2. S \subseteq 0 .. eir_len /\ 0 \in S
    <2>1. Starts \subseteq 0 .. eir_len /\ 0 \in Starts
      BY StartsAre
    <2>2. 0 <= index
      BY <1>1
    <2>3. 0 \in S
      BY <2>1, <2>2
    <2>4. S \subseteq 0 .. eir_len
      BY <2>1
    <2> QED
      BY <2>3, <2>4
  <1>3. Closed(S)
    <2> SUFFICES ASSUME NEW j \in S, eir[j] # 0, j + 1 + eir[j] <= eir_len
                 PROVE  j + 1 + eir[j] \in S
      BY DEF Closed
    <2>1. j \in Starts /\ j \in 0 .. eir_len
      BY FieldBytes
    <2>2. j + 1 + eir[j] \in Starts
      BY <2>1, StartsAre DEF Closed
    <2>3. j < index
      BY <1>1, <2>1
    <2>4. j + 1 + eir[j] <= index
      BY <2>1, <2>3 DEF AtField, PassedBy
    <2> QED
      BY <2>2, <2>4
  <1>4. Starts \subseteq S
    BY <1>2, <1>3, StartsOnly
  <1> QED
    BY <1>4

\* The loop is at a name: it is the first one.
LEMMA FirstName ==
    ASSUME TypeOK, AtField, index < eir_len, eir[index] # 0, IsName
    PROVE  /\ index \in NameFields
           /\ \A i \in NameFields : index <= i
           /\ \A i \in NameFields :
                 (\A j \in NameFields : i <= j) => i = index
  <1>1. index \in Starts /\ index \in 0 .. eir_len /\ eir_len \in Nat
    BY FieldBytes DEF AtField
  <1>2. index \in NameFields
    BY <1>1 DEF NameFields, Fields, IsName
  <1>3. ASSUME NEW i \in NameFields
        PROVE  i \in Nat /\ index <= i
    <2>1. i \in Starts /\ i \in 0 .. eir_len /\ eir[i + 1] \in {8, 9}
      BY FieldBytes DEF NameFields, Fields
    <2>2. ~(i < index)
      BY <2>1 DEF AtField, PassedBy
    <2> QED
      BY <1>1, <2>1, <2>2
  <1>4. ASSUME NEW i \in NameFields, \A j \in NameFields : i <= j
        PROVE  i = index
    BY <1>1, <1>2, <1>3, <1>4
  <1> QED
    BY <1>2, <1>3, <1>4

LEMMA ParseStep == TypeOK /\ ParseInv /\ [Next]_vars => ParseInv'
  <1> SUFFICES ASSUME TypeOK, ParseInv, [Next]_vars
               PROVE  ParseInv'
    OBVIOUS
  <1>a. ASSUME UNCHANGED <<eir_len, eir>>
        PROVE  /\ WellFormed' = WellFormed /\ Starts' = Starts
               /\ NameFields' = NameFields
    BY <1>a DEF WellFormed, Fields, Starts, Closed, NameFields
  <1>b. eir_len \in Nat /\ index \in Nat
    BY ByteAssumption DEF TypeOK
  <1>1. CASE Reject
    <2>1. /\ ret = 1 /\ ret' = -1 /\ index < eir_len
          /\ UNCHANGED <<eir_len, eir>>
      BY <1>1 DEF Reject, InLoop
    <2>2. ASSUME WellFormed
          PROVE  ~\E i \in NameFields : /\ \A j \in NameFields : i <= j
                                        /\ eir[i] - 1 <= output_name_len
      <3>1. AtField
        BY <2>1, <2>2 DEF ParseInv
      <3>2. index \in Fields /\ eir[index] \in 0 .. 255
        BY <2>1, <3>1, FieldBytes DEF AtField, Fields
      <3>3. CASE eir[index] = 0
        <4> SUFFICES ASSUME NEW i \in NameFields
                     PROVE  FALSE
          OBVIOUS
        <4>1. i \in Starts /\ eir[i] # 0 /\ eir[i + 1] \in {8, 9}
              /\ i \in 0 .. eir_len
          BY FieldBytes DEF NameFields, Fields
        <4>2. i <= index
          BY <3>1, <3>3, <4>1, NoneBehindZero
        <4>3. i < index
          BY <1>b, <3>3, <4>1, <4>2
        <4> QED
          BY <3>1, <4>1, <4>3 DEF AtField, PassedBy
      <3>4. CASE eir[index] # 0
        <4>1. index + 1 + eir[index] <= eir_len
          BY <2>2, <3>2, <3>4 DEF WellFormed
        <4>2. ~Malformed
          BY <1>b, <3>2, <3>4, <4>1 DEF Malformed, field_len
        <4>3. IsName /\ ~(eir[index] - 1 <= output_name_len)
          BY <1>1, <4>2 DEF Reject, Fits, field_len
        <4>4. \A i \in NameFields :
                 (\A j \in NameFields : i <= j) => i = index
          BY <2>1, <3>1, <3>4, <4>3, FirstName
        <4> QED
          BY <4>3, <4>4
      <3> QED
        BY <3>3, <3>4
    <2>3. FindsFirstName'
      BY <1>a, <2>1, <2>2 DEF FindsFirstName
    <2> QED
      BY <2>1, <2>3 DEF ParseInv
  <1>2. CASE Copy
    <2>1. /\ ret = 1 /\ ret' = 0 /\ index < eir_len /\ IsName /\ ~Malformed
          /\ from' = index + 2 /\ count' = eir[index] - 1
          /\ eir[index] - 1 <= output_name_len
          /\ UNCHANGED <<eir_len, eir>>
      BY <1>2 DEF Copy, InLoop, Fits, field_len
    <2>2. eir[index] # 0
      BY <2>1 DEF Malformed, field_len
    <2>3. ASSUME WellFormed
          PROVE  /\ index \in NameFields
                 /\ \A j \in NameFields : index <= j
      <3>1. AtField
        BY <2>1, <2>3 DEF ParseInv
      <3> QED
        BY <2>1, <2>2, <3>1, FirstName
    <2>4. from' - 2 = index
      BY <1>b, <2>1
    <2>5. FindsFirstName'
      BY <1>a, <2>1, <2>3, <2>4 DEF FindsFirstName
    <2> QED
      BY <2>1, <2>5 DEF ParseInv
  <1>3. CASE Advance
    <2>1. /\ ret = 1 /\ ret' = 1 /\ index < eir_len /\ ~IsName /\ ~Malformed
          /\ index' = index + eir[index] + 1
          /\ UNCHANGED <<eir_len, eir>>
      BY <1>3 DEF Advance, InLoop, field_len
    <2>2. eir[index] # 0
      BY <2>1 DEF Malformed, field_len
    <2>3. ASSUME WellFormed
          PROVE  AtField'
      <3>1. AtField
        BY <2>1, <2>3 DEF ParseInv
      <3>2. index \in Starts /\ index \in Fields /\ eir[index] \in 0 .. 255
        BY <2>1, <3>1, FieldBytes DEF AtField, Fields
      <3>3. index' = index + 1 + eir[index] /\ index' \in Nat /\ index < index'
        BY <1>b, <2>1, <3>2
      <3>4. index' <= eir_len
        BY <2>2, <2>3, <3>2, <3>3 DEF WellFormed
      <3>5. index' \in Starts
        BY <2>2, <3>2, <3>3, <3>4, StartsAre DEF Closed
      <3>6. ASSUME NEW i \in Starts, i < index'
            PROVE  PassedBy(i, index')
        <4>1. i \in 0 .. eir_len /\ eir[i] \in 0 .. 255
          BY FieldBytes
        <4>2. i <= index
          BY <1>b, <2>1, <2>2, <3>1, <3>3, <3>6, <4>1, NoneBetween
        <4>3. CASE i < index
          <5>1. PassedBy(i, index)
            BY <3>1, <4>3 DEF AtField
          <5> QED
            BY <1>b, <3>3, <4>1, <5>1 DEF PassedBy
        <4>4. CASE i = index
          BY <1>b, <2>1, <2>2, <3>3, <4>4 DEF PassedBy, IsName
        <4> QED
          BY <1>b, <4>1, <4>2, <4>3, <4>4
      <3> QED
        BY <1>a, <2>1, <3>5, <3>6 DEF AtField, PassedBy
    <2>4. FindsFirstName'
      BY <2>1 DEF FindsFirstName
    <2> QED
      BY <1>a, <2>1, <2>3, <2>4 DEF ParseInv
  <1>4. CASE NotFound
    <2>1. /\ ret = 1 /\ ret' = -1 /\ index >= eir_len
          /\ UNCHANGED <<eir_len, eir>>
      BY <1>4 DEF NotFound
    <2>2. ASSUME WellFormed, NEW i \in NameFields
          PROVE  FALSE
      <3>1. AtField
        BY <2>1, <2>2 DEF ParseInv
      <3>2. i \in Starts /\ i # eir_len /\ eir[i + 1] \in {8, 9}
            /\ i \in 0 .. eir_len
        BY <2>2, FieldBytes DEF NameFields, Fields
      <3>3. i < index
        BY <1>b, <2>1, <3>2
      <3> QED
        BY <3>1, <3>2, <3>3 DEF AtField, PassedBy
    <2>3. FindsFirstName'
      BY <1>a, <2>1, <2>2 DEF FindsFirstName
    <2> QED
      BY <2>1, <2>3 DEF ParseInv
  <1>5. CASE UNCHANGED vars
    <2>1. UNCHANGED <<eir_len, eir, index, ret, from, count>>
      BY <1>5 DEF vars
    <2>2. AtField' = AtField
      BY <1>a, <2>1 DEF AtField, PassedBy
    <2>3. FindsFirstName' = FindsFirstName
      BY <1>a, <2>1 DEF FindsFirstName
    <2> QED
      BY <1>a, <2>1, <2>2, <2>3 DEF ParseInv
  <1> QED
    BY <1>1, <1>2, <1>3, <1>4, <1>5 DEF Next

\* In well-formed data the parser finds the first name, if the buffer holds it.
THEOREM ParserFindsFirstName == Spec => []FindsFirstName
  <1>1. Init => ParseInv
    <2> SUFFICES ASSUME Init PROVE ParseInv
      OBVIOUS
    <2>1. ret = 1 /\ index = 0 /\ TypeOK
      BY DEF Init, TypeOK
    <2>2. 0 \in Starts /\ Starts \subseteq 0 .. eir_len
      BY <2>1, StartsAre
    <2>3. AtField
      BY <2>1, <2>2 DEF AtField
    <2> QED
      BY <2>1, <2>3 DEF ParseInv, FindsFirstName
  <1>2. ParseInv => FindsFirstName
    BY DEF ParseInv
  <1> QED
    BY <1>1, <1>2, ParseStep, EirTypeCorrect, PTL DEF Spec
=============================================================================
