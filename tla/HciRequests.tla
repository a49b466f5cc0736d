----------------------------- MODULE HciRequests -----------------------------
(***************************************************************************)
(* The requests of the library: what each wrapper of hci.c hands to        *)
(* hci_send_req, and how it reads the answer.                              *)
(*                                                                         *)
(*   opcode   packed from the group (OGF) and the command (OCF)            *)
(*   event    the event the wrapper waits for; 0 when it names none, and a *)
(*            command complete event is the only answer                    *)
(*   le       the command belongs to the LE group, whose completion events *)
(*            are subevents of the LE meta event                           *)
(*   checked  the wrapper looks at the status in the answer and fails on a *)
(*            status other than 0; otherwise it drops the answer           *)
(*   zeroed   the wrapper clears its answer buffer before the request      *)
(*                                                                         *)
(* The parameters a wrapper packs and the fields it copies out of a        *)
(* successful answer are left out.                                         *)
(***************************************************************************)
EXTENDS HciPacket

OGF_LINK_CTL     == 1
OGF_LINK_POLICY  == 2
OGF_HOST_CTL     == 3
OGF_INFO_PARAM   == 4
OGF_STATUS_PARAM == 5
OGF_LE_CTL       == 8

\* A wrapper that waits for an event of its own.
Waiting(name, ogf, ocf, event) ==
    [name |-> name, opcode |-> cmd_opcode_pack(ogf, ocf), event |-> event,
     le |-> ogf = OGF_LE_CTL, checked |-> TRUE, zeroed |-> FALSE]

\* A wrapper whose answer is the command complete event ...
Plain(name, ogf, ocf) == Waiting(name, ogf, ocf, 0)

\* ... and one that passes no answer buffer: rparam is NULL and rlen is 0.
Unchecked(name, ogf, ocf) == [Plain(name, ogf, ocf) EXCEPT !.checked = FALSE]

\* ... and one that clears its answer buffer first.
Zeroed(name, ogf, ocf) == [Plain(name, ogf, ocf) EXCEPT !.zeroed = TRUE]

-----------------------------------------------------------------------------
LinkRequests ==
    {Waiting("hci_create_connection", OGF_LINK_CTL, 5, EVT_CONN_COMPLETE),
     Waiting("hci_disconnect", OGF_LINK_CTL, 6, EVT_DISCONN_COMPLETE)}

WhiteListRequests ==
    {Plain("hci_le_add_white_list", OGF_LE_CTL, 17),
     Plain("hci_le_rm_white_list", OGF_LE_CTL, 18),
     Zeroed("hci_le_read_white_list_size", OGF_LE_CTL, 15),
     Plain("hci_le_clear_white_list", OGF_LE_CTL, 16)}

ResolvingListRequests ==
    {Plain("hci_le_add_resolving_list", OGF_LE_CTL, 39),
     Plain("hci_le_rm_resolving_list", OGF_LE_CTL, 40),
     Plain("hci_le_clear_resolving_list", OGF_LE_CTL, 41),
     Zeroed("hci_le_read_resolving_list_size", OGF_LE_CTL, 42),
     Plain("hci_le_set_address_resolution_enable", OGF_LE_CTL, 45)}

NameRequests ==
    {Plain("hci_read_local_name", OGF_HOST_CTL, 20),
     Unchecked("hci_write_local_name", OGF_HOST_CTL, 19),
     Waiting("hci_read_remote_name_with_clock_offset", OGF_LINK_CTL, 25,
             EVT_REMOTE_NAME_REQ_COMPLETE),
     Unchecked("hci_read_remote_name_cancel", OGF_LINK_CTL, 26)}

RemoteRequests ==
    {Waiting("hci_read_remote_version", OGF_LINK_CTL, 29, 12),
     Waiting("hci_read_remote_features", OGF_LINK_CTL, 27, 11),
     Waiting("hci_read_remote_ext_features", OGF_LINK_CTL, 28, 35),
     Waiting("hci_read_clock_offset", OGF_LINK_CTL, 31, 28)}

InfoRequests ==
    {Plain("hci_read_local_version", OGF_INFO_PARAM, 1),
     Plain("hci_read_local_commands", OGF_INFO_PARAM, 2),
     Plain("hci_read_local_features", OGF_INFO_PARAM, 3),
     Plain("hci_read_local_ext_features", OGF_INFO_PARAM, 4),
     Plain("hci_read_bd_addr", OGF_INFO_PARAM, 9)}

ClassRequests ==
    {Plain("hci_read_class_of_dev", OGF_HOST_CTL, 35),
     Unchecked("hci_write_class_of_dev", OGF_HOST_CTL, 36),
     Plain("hci_read_voice_setting", OGF_HOST_CTL, 37),
     Unchecked("hci_write_voice_setting", OGF_HOST_CTL, 38),
     Plain("hci_read_current_iac_lap", OGF_HOST_CTL, 57),
     Unchecked("hci_write_current_iac_lap", OGF_HOST_CTL, 58)}

LinkKeyRequests ==
    {Unchecked("hci_read_stored_link_key", OGF_HOST_CTL, 13),
     Unchecked("hci_write_stored_link_key", OGF_HOST_CTL, 17),
     Unchecked("hci_delete_stored_link_key", OGF_HOST_CTL, 18)}

SecurityRequests ==
    {Waiting("hci_authenticate_link", OGF_LINK_CTL, 17, 6),
     Waiting("hci_encrypt_link", OGF_LINK_CTL, 19, 8),
     Waiting("hci_change_link_key", OGF_LINK_CTL, 21, 9)}

PolicyRequests ==
    {Waiting("hci_switch_role", OGF_LINK_POLICY, 11, 18),
     Waiting("hci_park_mode", OGF_LINK_POLICY, 5, 20),
     Waiting("hci_exit_park_mode", OGF_LINK_POLICY, 6, 20)}

InquiryRequests ==
    {Plain("hci_read_inquiry_scan_type", OGF_HOST_CTL, 66),
     Plain("hci_write_inquiry_scan_type", OGF_HOST_CTL, 67),
     Plain("hci_read_inquiry_mode", OGF_HOST_CTL, 68),
     Plain("hci_write_inquiry_mode", OGF_HOST_CTL, 69)}

AfhRequests ==
    {Plain("hci_read_afh_mode", OGF_HOST_CTL, 72),
     Plain("hci_write_afh_mode", OGF_HOST_CTL, 73)}

PairingRequests ==
    {Plain("hci_read_ext_inquiry_response", OGF_HOST_CTL, 81),
     Plain("hci_write_ext_inquiry_response", OGF_HOST_CTL, 82),
     Plain("hci_read_simple_pairing_mode", OGF_HOST_CTL, 85),
     Plain("hci_write_simple_pairing_mode", OGF_HOST_CTL, 86),
     Plain("hci_read_local_oob_data", OGF_HOST_CTL, 87)}

PowerRequests ==
    {Plain("hci_read_inq_response_tx_power_level", OGF_HOST_CTL, 88),
     Plain("hci_write_inquiry_transmit_power_level", OGF_HOST_CTL, 89),
     Plain("hci_read_transmit_power_level", OGF_HOST_CTL, 45)}

LinkPolicyRequests ==
    {Plain("hci_read_link_policy", OGF_LINK_POLICY, 12),
     Plain("hci_write_link_policy", OGF_LINK_POLICY, 13),
     Plain("hci_read_link_supervision_timeout", OGF_HOST_CTL, 54),
     Plain("hci_write_link_supervision_timeout", OGF_HOST_CTL, 55)}

StatusRequests ==
    {Plain("hci_set_afh_classification", OGF_HOST_CTL, 63),
     Plain("hci_read_link_quality", OGF_STATUS_PARAM, 3),
     Plain("hci_read_rssi", OGF_STATUS_PARAM, 5),
     Plain("hci_read_afh_map", OGF_STATUS_PARAM, 6),
     Plain("hci_read_clock", OGF_STATUS_PARAM, 7)}

ScanRequests ==
    {Plain("hci_le_set_scan_enable", OGF_LE_CTL, 12),
     Plain("hci_le_set_scan_parameters", OGF_LE_CTL, 11),
     Plain("hci_le_set_advertise_enable", OGF_LE_CTL, 10)}

LeLinkRequests ==
    {Waiting("hci_le_create_conn", OGF_LE_CTL, 13, EVT_LE_CONN_COMPLETE),
     Waiting("hci_le_conn_update", OGF_LE_CTL, 19, 3),
     Waiting("hci_le_read_remote_features", OGF_LE_CTL, 22, 4)}

\* Every wrapper that calls hci_send_req.  hci_read_remote_name and
\* hci_read_inquiry_transmit_power_level only call another wrapper.
AllRequests ==
    UNION {LinkRequests, WhiteListRequests, ResolvingListRequests,
           NameRequests, RemoteRequests, InfoRequests, ClassRequests,
           LinkKeyRequests, SecurityRequests, PolicyRequests,
           InquiryRequests, AfhRequests, PairingRequests, PowerRequests,
           LinkPolicyRequests, StatusRequests, ScanRequests, LeLinkRequests}

\* The request of a given wrapper.
Wrapper(name) == CHOOSE r \in AllRequests : r.name = name
=============================================================================
