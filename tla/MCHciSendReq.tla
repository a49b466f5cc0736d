----------------------------- MODULE MCHciSendReq -----------------------------
(***************************************************************************)
(* Instances of HciSendReq for TLC.                                        *)
(***************************************************************************)
EXTENDS HciSendReq, HciRequests, TLC

CONSTANTS p1, p2, a1, a2, noId, noEvent

\* An LE command and a link command that each wait for an event of their own;
\* one whose answer is compared by device and one that is answered by a command
\* complete event; one of each of the two ways to be answered.
MCLink == {Wrapper("hci_le_create_conn"), Wrapper("hci_disconnect")}
MCName == {Wrapper("hci_read_remote_name_with_clock_offset"),
           Wrapper("hci_le_set_scan_enable")}

MCEvent(evt, sub, a) == [evt |-> evt, opcode |-> 0, sub |-> sub, status |-> 0,
                         arg |-> a, id |-> noId]

\* A link lost, an advertising report, and a request for a link key, whose
\* subevent code is the event code of a lost link.
MCNoise == {MCEvent(EVT_DISCONN_COMPLETE, 0, a1),
            MCEvent(EVT_LE_META_EVENT, EVT_LE_ADVERTISING_REPORT, a1),
            MCEvent(EVT_LE_META_EVENT, EVT_LE_LTK_REQUEST, a1)}
MCLost == {MCEvent(EVT_DISCONN_COMPLETE, 0, a1)}
MCNone == {}

\* The filter of hci_scan_ble.
MCFilters == {ScanFilter}
=============================================================================
