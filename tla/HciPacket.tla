------------------------------ MODULE HciPacket ------------------------------
(***************************************************************************)
(* What passes between the library and the controller: event codes, the    *)
(* socket filter that decides which events reach a process, and the        *)
(* classification of an event by the receive loop of hci_send_req.         *)
(*                                                                         *)
(* An event keeps the fields the code looks at: its event code, the opcode *)
(* of a command status or command complete event, the subevent code of an  *)
(* LE meta event, the first byte the code copies out ("status"; zero means *)
(* success in every event the library waits for) and the device or link    *)
(* the event is about ("arg").  The field "id" is not on the wire: it      *)
(* names the command the controller is answering, so that properties can   *)
(* tell an answer from a look-alike.                                       *)
(***************************************************************************)
EXTENDS Naturals

HCI_EVENT_PKT == 4

\* Event codes of hci.h.
EVT_INQUIRY_COMPLETE         == 1
EVT_CONN_COMPLETE            == 3
EVT_DISCONN_COMPLETE         == 5
EVT_REMOTE_NAME_REQ_COMPLETE == 7
EVT_CMD_COMPLETE             == 14
EVT_CMD_STATUS               == 15
EVT_LE_META_EVENT            == 62

\* Subevent codes: they are numbers of their own, and overlap the codes above.
EVT_LE_CONN_COMPLETE        == 1
EVT_LE_ADVERTISING_REPORT   == 2
EVT_LE_LTK_REQUEST          == 5

\* 16 bits: the OGF above the ten bits of the OCF.
cmd_opcode_pack(ogf, ocf) == ((ocf % 1024) + ogf * 1024) % 65536

-----------------------------------------------------------------------------
(***************************************************************************)
(* The filter of an HCI socket.  An opcode of 0 filters no opcode.         *)
(***************************************************************************)
Filter == [ptypes : SUBSET Nat, events : SUBSET Nat, opcode : Nat]

\* The bit that stands for an event code in the 64 bits of the event mask.
FilterBit(evt) == evt % 64

hci_filter_clear == [ptypes |-> {}, events |-> {}, opcode |-> 0]

\* Mutated: the event the wrapper waits for is forgotten.
RequestFilterNoEvent(r) ==
    [ptypes |-> {HCI_EVENT_PKT},
     events |-> {FilterBit(evt) : evt \in {EVT_CMD_STATUS, EVT_CMD_COMPLETE,
                                           EVT_LE_META_EVENT}},
     opcode |-> r.opcode]

\* The filter under which hci_send_req waits for the answer to request r.
RequestFilter(r) ==
    [ptypes |-> {HCI_EVENT_PKT},
     events |-> {FilterBit(evt) : evt \in {EVT_CMD_STATUS, EVT_CMD_COMPLETE,
                                           EVT_LE_META_EVENT, r.event}},
     opcode |-> r.opcode]

\* The filter under which hci_scan_ble reads advertising reports.
ScanFilter ==
    [ptypes |-> {HCI_EVENT_PKT},
     events |-> {FilterBit(EVT_LE_META_EVENT)},
     opcode |-> 0]

\* The kernel's test, made when the event arrives: does e enter the queue?
Passes(f, e) ==
    /\ HCI_EVENT_PKT \in f.ptypes
    /\ FilterBit(e.evt) \in f.events
    /\ f.opcode # 0 /\ e.evt \in {EVT_CMD_COMPLETE, EVT_CMD_STATUS}
            => e.opcode = f.opcode

-----------------------------------------------------------------------------
(***************************************************************************)
(* How the receive loop of hci_send_req classifies event e while it waits  *)
(* for the answer to command c = [id, req, arg].  An event that is neither *)
(* is dropped, and the loop goes on.                                       *)
(***************************************************************************)
Refuses(c, e) ==
    /\ e.evt = EVT_CMD_STATUS
    /\ e.opcode = c.req.opcode
    /\ c.req.event # EVT_CMD_STATUS
    /\ e.status # 0

\* Mutated: the device is not compared.
AnswersAnyName(c, e) ==
    \/ e.evt = EVT_REMOTE_NAME_REQ_COMPLETE /\ e.evt = c.req.event
    \/ e.evt = EVT_CMD_COMPLETE /\ e.opcode = c.req.opcode

\* Mutated: the status that accepts a command is taken for its answer.
AnswersAccepted(c, e) ==
    \/ e.evt \in {EVT_CMD_STATUS, EVT_CMD_COMPLETE} /\ e.opcode = c.req.opcode
    \/ /\ e.evt = c.req.event
       /\ e.evt = EVT_REMOTE_NAME_REQ_COMPLETE => e.arg = c.arg
    \/ e.evt = EVT_LE_META_EVENT /\ e.sub = c.req.event

Answers(c, e) ==
    \/ /\ e.evt = EVT_CMD_STATUS
       /\ e.opcode = c.req.opcode
       /\ c.req.event = EVT_CMD_STATUS
    \/ /\ e.evt = EVT_CMD_COMPLETE
       /\ e.opcode = c.req.opcode
    \/ /\ e.evt = EVT_REMOTE_NAME_REQ_COMPLETE
       /\ e.evt = c.req.event
       /\ e.arg = c.arg
    \/ /\ e.evt = EVT_LE_META_EVENT
       /\ e.sub = c.req.event
    \/ /\ e.evt \notin {EVT_CMD_STATUS, EVT_CMD_COMPLETE,
                        EVT_REMOTE_NAME_REQ_COMPLETE, EVT_LE_META_EVENT}
       /\ e.evt = c.req.event

-----------------------------------------------------------------------------
(***************************************************************************)
(* The events by which the controller answers command c.                   *)
(***************************************************************************)
CommandComplete(c, status) ==
    [evt |-> EVT_CMD_COMPLETE, opcode |-> c.req.opcode, sub |-> 0,
     status |-> status, arg |-> c.arg, id |-> c.id]

CommandStatus(c, status) ==
    [evt |-> EVT_CMD_STATUS, opcode |-> c.req.opcode, sub |-> 0,
     status |-> status, arg |-> c.arg, id |-> c.id]

\* The event that ends a command whose request names an event: a subevent of
\* the LE meta event for an LE command, an event code for any other.
Completion(c, status) ==
    [evt    |-> IF c.req.le THEN EVT_LE_META_EVENT ELSE c.req.event,
     opcode |-> 0,
     sub    |-> IF c.req.le THEN c.req.event ELSE 0,
     status |-> status, arg |-> c.arg, id |-> c.id]
=============================================================================
