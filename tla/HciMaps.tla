-------------------------------- MODULE HciMaps --------------------------------
(***************************************************************************)
(* The names of bits and numbers (hci.c, from hci_map to                   *)
(* lmp_featurestostr).                                                     *)
(*                                                                         *)
(* A table is a sequence of entries in the order of the code.  A word of   *)
(* bits is the set of its bit numbers, and so is the value of an entry of  *)
(* a table of bits.  A text is the sequence of its names and of the blanks *)
(* and commas between them; one that is laid out in lines, of its lines.   *)
(* Names are compared without regard to case; here they have none.         *)
(***************************************************************************)
EXTENDS Integers, Sequences, SequencesExt

Bit(str, n) == [str |-> str, val |-> {n}]
NoBit(str) == [str |-> str, val |-> {}]
Number(str, n) == [str |-> str, val |-> n]

Names(entries) == [k \in DOMAIN entries |-> entries[k].str]
Values(map) == UNION {map[k].val : k \in DOMAIN map}

-----------------------------------------------------------------------------
(* The four functions on tables                                            *)

NamesOf(map, val) == Names(SelectSeq(map, LAMBDA m : m.val \cap val # {}))

\* Each name is printed with a blank behind it, the last one too.
Printed(names) == FlattenSeq([k \in DOMAIN names |-> <<names[k], " ">>])

hci_bit2str(map, val) == Printed(NamesOf(map, val))

\* strsep splits a text at its commas, and at nothing else: a name with a
\* blank beside it is not the name.
Splits(text, k) == k \notin DOMAIN text \/ text[k] = ","
Tokens(text) ==
    LET alone(k) == ~Splits(text, k) /\ Splits(text, k - 1)
                                     /\ Splits(text, k + 1)
        at == SelectSeq([k \in DOMAIN text |-> k], alone)
    IN  [j \in DOMAIN at |-> text[at[j]]]

\* Entries some token names.
Named(map, tokens) ==
    SelectSeq(map, LAMBDA m : \E k \in DOMAIN tokens : tokens[k] = m.str)

\* Mutated: the value is assigned, where the values should be joined.
hci_str2bitLast(map, text) ==
    LET named == Named(map, Tokens(text)) IN
    [set |-> named # <<>>,
     val |-> IF named = <<>> THEN {} ELSE Last(named).val]

\* set: did any of the tokens name an entry?
hci_str2bit(map, text) ==
    LET named == Named(map, Tokens(text)) IN
    [set |-> named # <<>>, val |-> Values(named)]

\* The first entry with the value, else the empty text.
hci_uint2str(map, val) ==
    LET found == SelectSeq(map, LAMBDA m : m.val = val) IN
    IF found = <<>> THEN <<>> ELSE <<Head(found).str>>

\* Of several tokens that name an entry, the last counts; if none does, *val
\* is left at old.
hci_str2uint(map, text, old) ==
    FoldLeft(LAMBDA r, t :
                LET found == Named(map, <<t>>) IN
                IF found = <<>> THEN r ELSE [set |-> TRUE,
                                             val |-> Head(found).val],
             [set |-> FALSE, val |-> old], Tokens(text))

-----------------------------------------------------------------------------
(* The tables                                                              *)

dev_flags_map ==
    <<Number("UP", 0), Number("INIT", 1), Number("RUNNING", 2),
      Number("RAW", 8), Number("PSCAN", 3), Number("ISCAN", 4),
      Number("INQUIRY", 7), Number("AUTH", 5), Number("ENCRYPT", 6)>>

pkt_type_map ==
    <<Bit("DM1", 3), Bit("DM3", 10), Bit("DM5", 14),
      Bit("DH1", 4), Bit("DH3", 11), Bit("DH5", 15),
      Bit("HV1", 5), Bit("HV2", 6), Bit("HV3", 7),
      Bit("2-DH1", 1), Bit("2-DH3", 8), Bit("2-DH5", 12),
      Bit("3-DH1", 2), Bit("3-DH3", 9), Bit("3-DH5", 13)>>

sco_ptype_map ==
    <<Bit("HV1", 0), Bit("HV2", 1), Bit("HV3", 2),
      Bit("EV3", 3), Bit("EV4", 4), Bit("EV5", 5),
      Bit("2-EV3", 6), Bit("2-EV5", 8), Bit("3-EV3", 7), Bit("3-EV5", 9)>>

link_policy_map ==
    <<NoBit("NONE"), Bit("RSWITCH", 0), Bit("HOLD", 1), Bit("SNIFF", 2),
      Bit("PARK", 3)>>

link_mode_map ==
    <<NoBit("NONE"), Bit("ACCEPT", 15), Bit("MASTER", 0), Bit("AUTH", 1),
      Bit("ENCRYPT", 2), Bit("TRUSTED", 3), Bit("RELIABLE", 4),
      Bit("SECURE", 5)>>

ver_map ==
    <<Number("1.0b", 0), Number("1.1", 1), Number("1.2", 2), Number("2.0", 3),
      Number("2.1", 4), Number("3.0", 5), Number("4.0", 6), Number("4.1", 7),
      Number("4.2", 8), Number("5.0", 9), Number("5.1", 10)>>

pal_map == <<Number("3.0", 1)>>

\* A command is named by its number, but the reserved ones share a name.
Reserved ==
    26 .. 32 \cup 98 .. 99 \cup 108 .. 114 \cup 134 .. 135 \cup {139}
    \cup 148 .. 150 \cup 160 .. 161 \cup 165 .. 167 \cup 187 .. 188
    \cup {193, 199, 203, 231}
CommandName(n) == IF n \in Reserved THEN 26 ELSE n
commands_map == [k \in 1 .. 232 |-> Number(CommandName(k - 1), k - 1)]

\* Eight bytes of features, as the set of 64 bits; bits 20, 21 and 22 have no
\* name.
lmp_features_map ==
    SelectSeq([k \in 1 .. 64 |-> Bit(k - 1, k - 1)],
              LAMBDA m : m.str \notin 20 .. 22)

-----------------------------------------------------------------------------
(* The functions of the interface                                          *)

\* The tables of bits, by what they are about.
BitMap == [ptype |-> pkt_type_map, scoptype |-> sco_ptype_map,
           lp |-> link_policy_map, lm |-> link_mode_map]

\* hci_ptypetostr, hci_scoptypetostr, hci_lptostr, and hci_lmtostr, which puts
\* a word of its own in front.
tostr(about, val) ==
    (IF about = "lm" /\ 0 \notin val THEN Printed(<<"SLAVE">>) ELSE <<>>)
    \o hci_bit2str(BitMap[about], val)

\* hci_strtoptype, hci_strtoscoptype, hci_strtolp, hci_strtolm.
strto(about, text) == hci_str2bit(BitMap[about], text)

\* hci_vertostr and lmp_vertostr share a table; pal_vertostr has its own.
VersionMap == [ver |-> ver_map, pal |-> pal_map]
vertostr(about, ver) == hci_uint2str(VersionMap[about], ver)
strtover(about, text, old) == hci_str2uint(VersionMap[about], text, old)

hci_dflagstostr(flags) ==
    Printed((IF 0 \notin flags THEN <<"DOWN">> ELSE <<>>)
            \o Names(SelectSeq(dev_flags_map, LAMBDA m : m.val \in flags)))

hci_cmdtostr(cmd) == hci_uint2str(commands_map, cmd)

-----------------------------------------------------------------------------
(* Text in lines.  Every line begins with the prefix, which does not count, *)
(* and a word on it takes more room than its name.                         *)

SumOf(seq) == FoldLeft(LAMBDA a, b : a + b, 0, seq)
LineLength(line, NameLength, extra) ==
    SumOf([k \in DOMAIN line |-> NameLength[line[k]] + extra])

\* The comparison is one of unsigned numbers: a negative limit is none.
Exceeds(n, limit) == limit >= 0 /\ n > limit

\* Mutated: the word that comes next is not counted.
LayOutBlind(names, NameLength, extra, maxwidth) ==
    FoldLeft(LAMBDA lines, name :
                IF Exceeds(LineLength(Last(lines), NameLength, extra), maxwidth)
                THEN Append(lines, <<name>>)
                ELSE [lines EXCEPT ![Len(lines)] = Append(@, name)],
             <<<<>>>>, names)

\* A word that would exceed the width goes to a new line.
LayOut(names, NameLength, extra, maxwidth) ==
    FoldLeft(LAMBDA lines, name :
                IF Exceeds(LineLength(Last(lines), NameLength, extra)
                           + NameLength[name], maxwidth)
                THEN Append(lines, <<name>>)
                ELSE [lines EXCEPT ![Len(lines)] = Append(@, name)],
             <<<<>>>>, names)

\* A name, its two quotes and a blank.
hci_commandstostr(commands, NameLength, width) ==
    LayOut(Names(SelectSeq(commands_map, LAMBDA m : m.val \in commands)),
           NameLength, 3, width - 3)

\* A name and a blank.
lmp_featurestostr(features, NameLength, width) ==
    LayOut(NamesOf(lmp_features_map, features), NameLength, 1, width - 1)
================================================================================
