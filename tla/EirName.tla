-------------------------------- MODULE EirName --------------------------------
(***************************************************************************)
(* eir_parse_name (ble.c): the name of a device, out of the data of its    *)
(* advertising report.                                                     *)
(*                                                                         *)
(* The data is a run of fields, each one byte of length, one byte of type  *)
(* and the rest of the field; the length does not count its own byte.  The *)
(* byte behind the data is the signal strength of the report.              *)
(***************************************************************************)
EXTENDS Integers

CONSTANTS
    Byte,               \* the bytes that occur in a report
    MaxLen,             \* bound: length of the data
    output_name_len     \* capacity of the caller's buffer

ASSUME ByteAssumption ==
    /\ Byte \subseteq 0 .. 255
    /\ MaxLen \in Nat
    /\ output_name_len \in Nat

VARIABLES
    eir_len,    \* length of the data
    eir,        \* the data, and the byte behind it
    index,      \* where the loop is
    ret,        \* 1 while the loop runs, then what is returned: 0 or -1
    from, count \* what was copied to the caller's buffer

vars == <<eir_len, eir, index, ret, from, count>>

TypeOK ==
    /\ eir_len \in 0 .. MaxLen
    /\ eir \in [0 .. eir_len -> Byte]
    /\ index \in Nat
    /\ ret \in {1, 0, -1}
    /\ from \in Nat
    /\ count \in Nat

Init ==
    /\ eir_len \in 0 .. MaxLen
    /\ eir \in [0 .. eir_len -> Byte]
    /\ index = 0
    /\ ret = 1
    /\ from = 0
    /\ count = 0

-----------------------------------------------------------------------------
field_len == eir[index]

\* Mutated: a length is not compared with what is left of the data.
MalformedZero == field_len = 0

\* Mutated: a length of 0 passes.
MalformedLong == index + field_len > eir_len

Malformed == field_len = 0 \/ index + field_len > eir_len

\* Mutated: only the complete name counts.
IsNameComplete == eir[index + 1] = 9

\* EIR_NAME_SHORT or EIR_NAME_COMPLETE.
IsName == eir[index + 1] \in {8, 9}

\* Mutated: the buffer is not compared with the name.
FitsAlways == TRUE

Fits == field_len - 1 <= output_name_len

InLoop == ret = 1 /\ index < eir_len

\* One turn of the loop.
Reject ==
    /\ InLoop
    /\ Malformed \/ (IsName /\ ~Fits)
    /\ ret' = -1
    /\ UNCHANGED <<eir_len, eir, index, from, count>>

Copy ==
    /\ InLoop
    /\ ~Malformed
    /\ IsName
    /\ Fits
    /\ from' = index + 2
    /\ count' = field_len - 1
    /\ ret' = 0
    /\ UNCHANGED <<eir_len, eir, index>>

Advance ==
    /\ InLoop
    /\ ~Malformed
    /\ ~IsName
    /\ index' = index + field_len + 1
    /\ UNCHANGED <<eir_len, eir, ret, from, count>>

\* No field is left.
NotFound ==
    /\ ret = 1
    /\ index >= eir_len
    /\ ret' = -1
    /\ UNCHANGED <<eir_len, eir, index, from, count>>

Next == Reject \/ Copy \/ Advance \/ NotFound

Spec == Init /\ [][Next]_vars

-----------------------------------------------------------------------------
(* Properties                                                              *)

\* Does the set hold, with each field, the one behind it?
Closed(S) ==
    \A i \in S :
        eir[i] # 0 /\ i + 1 + eir[i] <= eir_len => i + 1 + eir[i] \in S

\* The offsets at which fields begin: 0, and what follows from it.
Starts ==
    {i \in 0 .. eir_len :
        \A S \in SUBSET (0 .. eir_len) : 0 \in S /\ Closed(S) => i \in S}

Fields == Starts \ {eir_len}

\* Every field ends within the data; a length of 0 ends the fields.
WellFormed == \A i \in Fields : eir[i] = 0 \/ i + 1 + eir[i] <= eir_len

NameFields == {i \in Fields : eir[i] # 0 /\ eir[i + 1] \in {8, 9}}

\* What is found in well-formed data is its first name, if the buffer holds it.
FindsFirstName ==
    (ret # 1 /\ WellFormed) =>
        IF \E i \in NameFields : /\ \A j \in NameFields : i <= j
                                 /\ eir[i] - 1 <= output_name_len
        THEN /\ ret = 0
             /\ from - 2 \in NameFields
             /\ \A j \in NameFields : from - 2 <= j
             /\ count = eir[from - 2] - 1
        ELSE ret = -1

\* In any data, however malformed, nothing is read beyond the byte behind the
\* data, which belongs to the report, and nothing is written beyond the
\* caller's buffer.
StaysInReport ==
    /\ InLoop /\ ~Malformed => index + field_len <= eir_len
    /\ ret = 0 => from + count <= eir_len + 1
    /\ count <= output_name_len

\* What the layout in hci_scan_ble says (the data, then the strength): the name
\* is part of the data.
NameInData == ret = 0 => from + count <= eir_len
=============================================================================
