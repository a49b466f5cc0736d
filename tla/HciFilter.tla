------------------------------- MODULE HciFilter -------------------------------
(***************************************************************************)
(* The helpers that set, clear and test the bits of a socket filter        *)
(* (hci_lib.h), on the words of struct hci_filter: the type mask is word   *)
(* 0, and the event mask behind it words 1 and 2.  A word is the set of    *)
(* its bits.                                                               *)
(***************************************************************************)
EXTENDS Integers

HCI_VENDOR_PKT == 255
HCI_FLT_TYPE_BITS == 31
HCI_FLT_EVENT_BITS == 63

WordBits == 0 .. 31
uint16_t == 0 .. 65535
Words == [mask : [0 .. 2 -> SUBSET WordBits], opcode : uint16_t]
type_mask == 0
event_mask == 1

hci_set_bit(nr, f, addr) ==
    [f EXCEPT !.mask[addr + nr \div 32] = @ \cup {nr % 32}]
hci_clear_bit(nr, f, addr) ==
    [f EXCEPT !.mask[addr + nr \div 32] = @ \ {nr % 32}]
hci_test_bit(nr, f, addr) == nr % 32 \in f.mask[addr + nr \div 32]

\* Mutated: the packet type is not masked.
TypeBitUnmasked(t) == IF t = HCI_VENDOR_PKT THEN 0 ELSE t

\* t & HCI_FLT_TYPE_BITS; e & HCI_FLT_EVENT_BITS.
TypeBit(t) == IF t = HCI_VENDOR_PKT THEN 0 ELSE t % (HCI_FLT_TYPE_BITS + 1)
EventBit(e) == e % (HCI_FLT_EVENT_BITS + 1)

filter_clear == [mask |-> [i \in 0 .. 2 |-> {}], opcode |-> 0]

hci_filter_set_ptype(t, f) == hci_set_bit(TypeBit(t), f, type_mask)
hci_filter_clear_ptype(t, f) == hci_clear_bit(TypeBit(t), f, type_mask)
hci_filter_test_ptype(t, f) == hci_test_bit(TypeBit(t), f, type_mask)
hci_filter_all_ptypes(f) == [f EXCEPT !.mask[type_mask] = WordBits]

hci_filter_set_event(e, f) == hci_set_bit(EventBit(e), f, event_mask)
hci_filter_clear_event(e, f) == hci_clear_bit(EventBit(e), f, event_mask)
hci_filter_test_event(e, f) == hci_test_bit(EventBit(e), f, event_mask)
hci_filter_all_events(f) ==
    [f EXCEPT !.mask[event_mask] = WordBits, !.mask[event_mask + 1] = WordBits]

hci_filter_set_opcode(opcode, f) == [f EXCEPT !.opcode = opcode]
hci_filter_clear_opcode(f) == [f EXCEPT !.opcode = 0]
hci_filter_test_opcode(opcode, f) == f.opcode = opcode
================================================================================
