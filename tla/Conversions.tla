------------------------------ MODULE Conversions ------------------------------
(***************************************************************************)
(* A caller of the pure functions of the library: each step is a call, for *)
(* a chosen input, and the state shows the input and what came out.  The   *)
(* calls that build a socket filter follow one another on the same filter. *)
(***************************************************************************)
EXTENDS BdAddr, ByteOrder, HciMaps, HciFilter, FiniteSets

CONSTANTS
    Texts,          \* texts given to str2ba
    Addrs,          \* addresses
    Memory,         \* bytes of memory, of the widths that are read
    MapBits,        \* bits of the values that are named
    Unknown,        \* a word that names nothing
    Commands,       \* commands that may be supported
    Features,       \* features that may be supported
    NameLength,     \* the length of the name of each of these
    Widths,         \* widths of a text
    Types, Events,  \* packet types and event codes put into a filter
    Opcodes

ASSUME ConversionsAssumption ==
    /\ Texts \subseteq Seq(Nat)
    /\ Addrs \subseteq bdaddr_t
    /\ Memory \subseteq Seq(Byte)
    /\ MapBits \subseteq WordBits
    /\ Commands \subseteq 0 .. 231 /\ Features \subseteq 0 .. 63
    /\ Widths \cup Types \cup Events \subseteq Int
    /\ Opcodes \subseteq uint16_t

P == INSTANCE HciPacket

VARIABLES
    call,   \* the last call
    arg,    \* its input
    out,    \* what came out
    f,      \* the filter under construction
    sets    \* history: the filter as module HciPacket describes one

vars == <<call, arg, out, f, sets>>

None == <<>>

Init ==
    /\ call = "none"
    /\ arg = None
    /\ out = None
    /\ f = filter_clear
    /\ sets = P!hci_filter_clear

\* The function that is called, its input, and its result.
Returns(name, input, result) ==
    /\ call = "none"
    /\ call' = name
    /\ arg' = input
    /\ out' = result
    /\ UNCHANGED <<f, sets>>

-----------------------------------------------------------------------------
ParseAddress(str) ==
    Returns("str2ba", str, [parsed |-> str2ba(str), swapped |-> strtoba(str)])

PrintAddress(ba) ==
    Returns("ba2str", ba, [text |-> ba2str(ba), swapped |-> batostr(ba),
                           oui |-> ba2oui(ba)])

\* m is read as a little-endian and as a big-endian number, and each of the
\* two is written again, in both orders and after htob.
Access(m) ==
    Returns("access", m,
        [order \in Orders |->
            LET le == bt_get_le(order, m)
                be == bt_get_be(order, m)
            IN  [le |-> le, be |-> be,
                 putLe |-> bt_put_le(order, le), putBe |-> bt_put_be(order, be),
                 sent |-> bt_put_unaligned(order, htob(order, le)),
                 received |-> btoh(order, bt_get_unaligned(order, m))]])

\* Memory m holds a number in network order.
ReadNetwork(m) ==
    Returns("ntoh64", m,
        [order \in Orders |-> ntoh64(order, bt_get_unaligned(order, m))])

\* ... or one of 128 bits, in network order and in the order of Bluetooth.
ReadWide(m) ==
    Returns("ntoh128", m,
        [order \in Orders |->
            [network |-> bt_get_unaligned(order, ntoh128(order, m)),
             bluetooth |-> bt_get_unaligned(order, btoh128(order, m))]])

\* The names of a value are printed with blanks and read with commas: the
\* caller puts commas for the blanks.
WithCommas(text) ==
    [k \in DOMAIN text |-> IF text[k] = " " THEN "," ELSE text[k]]

\* The text of a value is read again, with one more word that means nothing.
NameBits(about, val) ==
    LET text == tostr(about, val) IN
    Returns("bits", [about |-> about, val |-> val],
        [text |-> text,
         again |-> strto(about, Append(WithCommas(text), Unknown))])

\* Two versions are read from one text.
NameVersion(about, ver, other) ==
    LET text == vertostr(about, other) \o <<",">> \o vertostr(about, ver) IN
    Returns("version", [about |-> about, ver |-> ver, other |-> other],
        [text |-> text, again |-> strtover(about, text, -1)])

NameFlags(flags) == Returns("flags", flags, hci_dflagstostr(flags))

NameCommand(cmd) == Returns("command", cmd, hci_cmdtostr(cmd))

ListCommands(commands, width) ==
    Returns("commands", [set |-> commands, width |-> width],
            hci_commandstostr(commands, NameLength, width))

ListFeatures(features, width) ==
    Returns("features", [set |-> features, width |-> width],
            lmp_featurestostr(features, NameLength, width))

-----------------------------------------------------------------------------
\* A helper changes filter f to g; shown is the same change of the sets.
Changes(g, shown) ==
    /\ call \in {"none", "filter"}
    /\ call' = "filter"
    /\ f' = g
    /\ sets' = shown
    /\ UNCHANGED <<arg, out>>

\* The type that is let through with t: vendor packets pass with type 0.
TypeSet(t) == IF t = 255 THEN 0 ELSE t % 32

ChangeType(t) ==
    \/ Changes(hci_filter_set_ptype(t, f),
               [sets EXCEPT !.ptypes = @ \cup {TypeSet(t)}])
    \/ Changes(hci_filter_clear_ptype(t, f),
               [sets EXCEPT !.ptypes = @ \ {TypeSet(t)}])

ChangeEvent(e) ==
    \/ Changes(hci_filter_set_event(e, f),
               [sets EXCEPT !.events = @ \cup {P!FilterBit(e)}])
    \/ Changes(hci_filter_clear_event(e, f),
               [sets EXCEPT !.events = @ \ {P!FilterBit(e)}])

ChangeAll ==
    \/ Changes(filter_clear, P!hci_filter_clear)
    \/ Changes(hci_filter_all_ptypes(f), [sets EXCEPT !.ptypes = 0 .. 31])
    \/ Changes(hci_filter_all_events(f), [sets EXCEPT !.events = 0 .. 63])

ChangeOpcode ==
    \/ \E opcode \in Opcodes : Changes(hci_filter_set_opcode(opcode, f),
                                       [sets EXCEPT !.opcode = opcode])
    \/ Changes(hci_filter_clear_opcode(f), [sets EXCEPT !.opcode = 0])

-----------------------------------------------------------------------------
Next ==
    \/ \E str \in Texts : ParseAddress(str)
    \/ \E ba \in Addrs : PrintAddress(ba)
    \/ \E m \in Memory :
         \/ Len(m) <= 8 /\ Access(m)
         \/ Len(m) = 8 /\ ReadNetwork(m)
         \/ Len(m) = 16 /\ ReadWide(m)
    \/ \E about \in DOMAIN BitMap, val \in SUBSET MapBits : NameBits(about, val)
    \/ \E about \in DOMAIN VersionMap, ver, other \in 0 .. 12 :
         NameVersion(about, ver, other)
    \/ \E flags \in SUBSET (0 .. 8) : NameFlags(flags)
    \/ \E cmd \in 0 .. 232 : NameCommand(cmd)
    \/ \E set \in SUBSET Commands, width \in Widths : ListCommands(set, width)
    \/ \E set \in SUBSET Features, width \in Widths : ListFeatures(set, width)
    \/ \E t \in Types : ChangeType(t)
    \/ \E e \in Events : ChangeEvent(e)
    \/ ChangeAll \/ ChangeOpcode

Spec == Init /\ [][Next]_vars

-----------------------------------------------------------------------------
(* Properties                                                              *)

UpperText(str) == [k \in DOMAIN str |-> Upper(str[k])]

\* str2ba accepts exactly the texts ba2str prints, in either case of the
\* letters, and reads back the address that was printed; any other text is
\* refused and leaves the zero address.  strtoba and batostr agree in the same
\* way on the opposite order of the bytes, and the first half of the text is
\* the company's identifier.
AddressReadsBack ==
    /\ call = "str2ba" =>
         LET r == out.parsed IN
         /\ r.ret = 0 <=> ba2str(r.ba) = UpperText(arg)
         /\ r.ret = 0 => batostr(out.swapped) = UpperText(arg)
         /\ r.ret = -1 => r.ba = BDADDR_ANY /\ out.swapped = BDADDR_ANY
    /\ call = "ba2str" =>
         /\ str2ba(out.text) = [ret |-> 0, ba |-> arg]
         /\ strtoba(out.swapped) = arg
         /\ \A k \in DOMAIN out.oui :
              out.oui[k] = Dash \/ out.oui[k] = out.text[k]

\* A number that is read from or written to given bytes is the same on machines
\* of either byte order, through every function and of every width.
LayoutIsPortable ==
    /\ call = "access" => \A order \in Orders :
         LET r == out[order] IN
         /\ r.be = arg /\ r.le = Reverse(arg) /\ r.received = Reverse(arg)
         /\ r.putLe = arg /\ r.putBe = arg /\ r.sent = arg
    /\ call = "ntoh64" => \A order \in Orders : out[order] = arg
    /\ call = "ntoh128" => \A order \in Orders :
         out[order] = [network |-> arg, bluetooth |-> Reverse(arg)]

\* The text that is printed for a value is read as the same value, once the
\* caller has put commas for its blanks: its bits that have names, none named
\* twice; of versions the one that was named last.  Entries without a bit
\* ("NONE"), the words put in front ("SLAVE") and unknown words do no harm.
NamesReadBack ==
    /\ call = "bits" =>
         LET known == arg.val \cap Values(BitMap[arg.about]) IN
         /\ out.again = [set |-> known # {}, val |-> known]
         /\ \A j, k \in DOMAIN out.text :
              out.text[j] = out.text[k] /\ out.text[j] # " " => j = k
    /\ call = "version" =>
         LET known(v) == vertostr(arg.about, v) # <<>> IN
         out.again =
            [set |-> known(arg.ver) \/ known(arg.other),
             val |-> IF known(arg.ver) THEN arg.ver
                     ELSE IF known(arg.other) THEN arg.other ELSE -1]
    /\ call = "flags" =>
         Len(out) = 2 * (Cardinality(arg) + IF 0 \in arg THEN 0 ELSE 1)
    /\ call = "command" => out = IF arg = 232 THEN <<>>
                                 ELSE <<CommandName(arg)>>

\* A list of commands or features holds the name of each, in their order, and
\* no line is longer than the width, the last blank included: unless a line
\* has one word only, or the width is smaller than what surrounds a name.
LinesFit ==
    call \in {"commands", "features"} =>
        LET extra == IF call = "commands" THEN 3 ELSE 1
            map == IF call = "commands" THEN commands_map ELSE lmp_features_map
            listed(m) == IF call = "commands" THEN m.val \in arg.set
                                              ELSE m.val \subseteq arg.set
        IN  /\ FlattenSeq(out) = Names(SelectSeq(map, listed))
            /\ \A k \in DOMAIN out :
                 \/ arg.width < extra
                 \/ Len(out[k]) = 1
                 \/ LineLength(out[k], NameLength, extra) <= arg.width

\* The words of a filter are the sets by which module HciPacket describes it,
\* after any sequence of changes: no bit of one event or type spills into that
\* of another, beyond those that share a bit by intent.
FilterIsItsSets ==
    /\ \A e \in Events :
         hci_filter_test_event(e, f) <=> P!FilterBit(e) \in sets.events
    /\ \A t \in Types :
         hci_filter_test_ptype(t, f) <=> TypeSet(t) \in sets.ptypes
    /\ f.opcode = sets.opcode
    /\ f \in Words
================================================================================
