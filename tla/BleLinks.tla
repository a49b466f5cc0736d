------------------------------- MODULE BleLinks -------------------------------
(***************************************************************************)
(* ble_connect and ble_disconnect (ble.c): one process sets up and ends LE *)
(* links, and keeps in each BLEDevice the handle of its link, or 0.        *)
(*                                                                         *)
(* Each call is one request, a run of hci_send_req reduced to what module  *)
(* HciExchange says of it: it borrows the filter, writes one command and   *)
(* drops every event in front of the one that ends it.  A request that     *)
(* fails before its command is written changes nothing and is left out.    *)
(*                                                                         *)
(* The controller gives out the handles.  It sets up one link at a time,   *)
(* none to a device that has one, and may use 0 and a handle that has      *)
(* become free again.                                                      *)
(*                                                                         *)
(* Between two calls the list that holds the BLEDevices may be given to    *)
(* hci_scan_ble again, which fills in every field but the handle.          *)
(***************************************************************************)
EXTENDS HciRequests, Integers, Sequences, FiniteSets

CONSTANTS
    Devices,    \* devices the process connects to
    Others,     \* devices other programs connect to
    Handles,    \* the handles the controller uses
    Faults,     \* what may go wrong, out of FaultKinds
    MaxAsked,   \* bound: requests
    QueueLen,   \* capacity of the socket's receive queue
    NoDevice

FaultKinds == {"timeout", "read", "refuse", "lost", "unconnected", "rescan",
               "noise"}

ASSUME LinksAssumption ==
    /\ Handles \subseteq Nat
    /\ {MaxAsked, QueueLen} \subseteq Nat
    /\ Faults \subseteq FaultKinds
    /\ NoDevice \notin Devices \cup Others
    /\ Devices \cap Others = {}

CreateConn == Waiting("hci_le_create_conn", OGF_LE_CTL, 13,
                      EVT_LE_CONN_COMPLETE)
Disconn == Waiting("hci_disconnect", OGF_LINK_CTL, 6, EVT_DISCONN_COMPLETE)

\* A command carries a device, and the handle it is to end.
Command == [id : 1 .. MaxAsked, req : {CreateConn, Disconn}, arg : Devices,
            handle : Handles \cup {0}]

\* Events.  The library copies the status and the handle, never the device;
\* one that no request of this process asked for has the id 0.
Connected(id, status, dev, h) ==
    [evt |-> EVT_LE_META_EVENT, opcode |-> 0, sub |-> EVT_LE_CONN_COMPLETE,
     status |-> status, arg |-> dev, id |-> id, handle |-> h]
Disconnected(id, h) ==
    [evt |-> EVT_DISCONN_COMPLETE, opcode |-> 0, sub |-> 0,
     status |-> 0, arg |-> NoDevice, id |-> id, handle |-> h]

\* Events whose number is that of an awaited one: the end of an inquiry, and
\* the request for a long term key (which begins with a handle).
Lookalike ==
    {[evt |-> EVT_INQUIRY_COMPLETE, opcode |-> 0, sub |-> 0, status |-> 0,
      arg |-> NoDevice, id |-> 0]}
    \cup {[evt |-> EVT_LE_META_EVENT, opcode |-> 0, sub |-> EVT_LE_LTK_REQUEST,
           status |-> h, arg |-> NoDevice, id |-> 0] : h \in Handles}

Causes == {"late link", "late end", "garbage", "crossed", "lost",
           "unconnected", "rescan"}

VARIABLES
    pc,         \* "idle", or the call the process is in
    who,        \* the device of that call
    handle,     \* BLEDevice.handle
    asked,      \* requests made
    filter,     \* the filter of the socket
    rxq,        \* its receive queue
    cmdq,       \* commands the controller has yet to take
    pending,    \* the connection being set up: at most one command
    closing,    \* the disconnect commands under way
    links,      \* the device at the other end of each handle
    cause       \* history: what may have parted the library's view of the
                \* links from the controller's

procVars == <<pc, who, handle, asked>>
ctrlVars == <<cmdq, pending, closing, links>>
vars == <<procVars, filter, rxq, ctrlVars, cause>>

TypeOK ==
    /\ pc \in {"idle", "connect", "disconnect"}
    /\ who \in Devices \cup {NoDevice}
    /\ handle \in [Devices -> Handles \cup {0}]
    /\ asked \in 0 .. MaxAsked
    /\ filter \in Filter
    /\ Len(rxq) <= QueueLen
    /\ cmdq \in Seq(Command)
    /\ pending \subseteq Command /\ Cardinality(pending) <= 1
    /\ closing \subseteq Command
    /\ links \in [Handles -> Devices \cup Others \cup {NoDevice}]
    /\ cause \subseteq Causes

Init ==
    /\ pc = "idle"
    /\ who = NoDevice
    /\ handle = [d \in Devices |-> 0]
    /\ asked = 0
    /\ filter = hci_filter_clear
    /\ rxq = <<>>
    /\ cmdq = <<>>
    /\ pending = {}
    /\ closing = {}
    /\ links = [h \in Handles |-> NoDevice]
    /\ cause = {}

-----------------------------------------------------------------------------
(* The process                                                             *)

\* The request of the call.
Req == [connect |-> CreateConn, disconnect |-> Disconn]

\* hci_send_req installs its filter and writes the command.
Ask(call, d) ==
    /\ pc = "idle"
    /\ asked < MaxAsked
    /\ pc' = call
    /\ who' = d
    /\ asked' = asked + 1
    /\ filter' = RequestFilter(Req[call])
    /\ cmdq' = Append(cmdq, [id |-> asked + 1, req |-> Req[call], arg |-> d,
                             handle |-> handle[d]])
    /\ UNCHANGED <<handle, rxq, pending, closing, links>>

\* The caller connects a device that is not connected, as far as it knows.
Connect(d) ==
    /\ handle[d] = 0
    /\ Ask("connect", d)
    /\ UNCHANGED cause

\* It disconnects one that is, or, like example/test.c, without a look at
\* whether it is.
Disconnect(d) ==
    /\ handle[d] # 0 \/ "unconnected" \in Faults
    /\ Ask("disconnect", d)
    /\ cause' = IF handle[d] = 0 THEN cause \cup {"unconnected"} ELSE cause

\* Mutated: the handle is cleared although the disconnect has failed.
ReturnClears(ok, h) ==
    /\ pc' = "idle"
    /\ who' = NoDevice
    /\ filter' = hci_filter_clear
    /\ handle' = IF pc = "disconnect" THEN [handle EXCEPT ![who] = 0]
                 ELSE IF ok THEN [handle EXCEPT ![who] = h] ELSE handle

\* Mutated: the handle is kept after the disconnect.
ReturnKeeps(ok, h) ==
    /\ pc' = "idle"
    /\ who' = NoDevice
    /\ filter' = hci_filter_clear
    /\ handle' = IF ok /\ pc = "connect" THEN [handle EXCEPT ![who] = h]
                 ELSE handle

\* Mutated: what the wrapper returned is stored for the handle.
ReturnStoresVerdict(ok, h) ==
    /\ pc' = "idle"
    /\ who' = NoDevice
    /\ filter' = hci_filter_clear
    /\ handle' = [handle EXCEPT ![who] = IF ~ok THEN -1 ELSE
                                         IF pc = "connect" THEN h ELSE 0]

\* The request is over and the call returns; ok if the wrapper found status 0,
\* and then h is the handle it found beside it.
Return(ok, h) ==
    /\ pc' = "idle"
    /\ who' = NoDevice
    /\ filter' = hci_filter_clear
    /\ handle' = IF ~ok THEN handle
                 ELSE [handle EXCEPT ![who] = IF pc = "connect" THEN h ELSE 0]

\* Nothing was copied to the wrapper's buffer: status and handle are whatever
\* the stack held.  A handle that the controller does not use is left out: it
\* is refused like one without a link.
ReturnGarbage(why) ==
    \E ok \in BOOLEAN, h \in Handles :
        /\ Return(ok, h)
        /\ cause' = cause \cup why \cup (IF ok THEN {"garbage"} ELSE {})

\* The request gave up on its command, which takes effect when it will.
Late == [connect |-> "late link", disconnect |-> "late end"]

\* The handle found in the event that ended the request.
HandleIn(e) == IF "handle" \in DOMAIN e THEN {e.handle} ELSE Handles

Current == [id |-> asked, req |-> Req[pc], arg |-> who]

Wait ==
    /\ pc # "idle"
    /\ rxq # <<>>
    /\ rxq' = Tail(rxq)
    /\ LET e == Head(rxq) IN
         \/ /\ Answers(Current, e)
            /\ \E h \in HandleIn(e) : Return(e.status = 0, h)
            /\ cause' = IF e.id = asked THEN cause
                        ELSE cause \cup {"crossed", Late[pc]}
         \/ /\ Refuses(Current, e)
            /\ ReturnGarbage({})
         \/ /\ ~Answers(Current, e)
            /\ ~Refuses(Current, e)
            /\ UNCHANGED <<pc, who, filter, handle, cause>>
    /\ UNCHANGED <<asked, ctrlVars>>

\* No answer came in time, or the socket could not be read.
GiveUp ==
    /\ pc # "idle"
    /\ \/ /\ "timeout" \in Faults
          /\ Return(FALSE, 0)
          /\ cause' = cause \cup {Late[pc]}
       \/ /\ "read" \in Faults
          /\ ReturnGarbage({Late[pc]})
    /\ UNCHANGED <<asked, rxq, ctrlVars>>

\* The devices are scanned for again, into the same list, and heard in another
\* order: each is stored in the entry that was that of place[d], whose handle
\* stays as it is.  The controller deals with what waits before the commands of
\* the scan, and the scan reads what lies in the queue before its own reports;
\* the rest of it is the matter of module BleScan.
Rescan ==
    /\ "rescan" \in Faults
    /\ pc = "idle"
    /\ \E place \in [Devices -> Devices] :
         /\ \A c, d \in Devices : place[c] = place[d] => c = d
         /\ handle' = [d \in Devices |-> handle[place[d]]]
    /\ handle' # handle
    /\ cmdq = <<>>
    /\ rxq' = <<>>
    /\ cause' = cause \cup {"rescan"}
    /\ UNCHANGED <<pc, who, asked, filter, ctrlVars>>

-----------------------------------------------------------------------------
(* The kernel and the controller                                           *)

Deliver(e) ==
    rxq' = IF Passes(filter, e) /\ Len(rxq) < QueueLen THEN Append(rxq, e)
                                                       ELSE rxq

Linked(d) == \E h \in Handles : links[h] = d

\* May the controller carry out command c?
Allowed(c) ==
    IF c.req = CreateConn THEN pending = {} /\ ~Linked(c.arg)
    ELSE /\ c.handle \in Handles
         /\ links[c.handle] # NoDevice
         /\ \A b \in closing : b.handle # c.handle

Accept ==
    /\ cmdq # <<>>
    /\ LET c == Head(cmdq) IN
         /\ Allowed(c)
         /\ IF c.req = CreateConn
            THEN pending' = {c} /\ UNCHANGED closing
            ELSE closing' = closing \cup {c} /\ UNCHANGED pending
         /\ Deliver(CommandStatus(c, 0))
    /\ cmdq' = Tail(cmdq)
    /\ UNCHANGED <<procVars, filter, links, cause>>

Refuse ==
    /\ cmdq # <<>>
    /\ ~Allowed(Head(cmdq)) \/ "refuse" \in Faults
    /\ Deliver(CommandStatus(Head(cmdq), 1))
    /\ cmdq' = Tail(cmdq)
    /\ UNCHANGED <<procVars, filter, pending, closing, links, cause>>

Establish(c, h) ==
    /\ c \in pending
    /\ links[h] = NoDevice
    /\ pending' = {}
    /\ links' = [links EXCEPT ![h] = c.arg]
    /\ Deliver(Connected(c.id, 0, c.arg, h))
    /\ UNCHANGED <<procVars, filter, cmdq, closing, cause>>

EstablishFails(c) ==
    /\ c \in pending
    /\ pending' = {}
    /\ \E h \in Handles : Deliver(Connected(c.id, 1, c.arg, h))
    /\ UNCHANGED <<procVars, filter, cmdq, closing, links, cause>>

End(c) ==
    /\ c \in closing
    /\ closing' = closing \ {c}
    /\ links' = [links EXCEPT ![c.handle] = NoDevice]
    /\ Deliver(Disconnected(c.id, c.handle))
    /\ UNCHANGED <<procVars, filter, cmdq, pending, cause>>

\* A link is lost.  Nobody tells the library.
Lose(h) ==
    /\ "lost" \in Faults
    /\ links[h] \in Devices
    /\ links' = [links EXCEPT ![h] = NoDevice]
    /\ closing' = {c \in closing : c.handle # h}
    /\ Deliver(Disconnected(0, h))
    /\ cause' = cause \cup {"lost"}
    /\ UNCHANGED <<procVars, filter, cmdq, pending>>

\* Links of other programs come ...
OtherConnects(d, h) ==
    /\ d \in Others /\ ~Linked(d)
    /\ links[h] = NoDevice
    /\ links' = [links EXCEPT ![h] = d]
    /\ Deliver(Connected(0, 0, d, h))
    /\ UNCHANGED <<procVars, filter, cmdq, pending, closing, cause>>

\* ... and go.
OtherDisconnects(h) ==
    /\ links[h] \in Others
    /\ links' = [links EXCEPT ![h] = NoDevice]
    /\ closing' = {c \in closing : c.handle # h}
    /\ Deliver(Disconnected(0, h))
    /\ UNCHANGED <<procVars, filter, cmdq, pending, cause>>

Unsolicited(e) ==
    /\ "noise" \in Faults
    /\ Deliver(e)
    /\ UNCHANGED <<procVars, filter, ctrlVars, cause>>

-----------------------------------------------------------------------------
Next ==
    \/ \E d \in Devices : Connect(d) \/ Disconnect(d)
    \/ Wait \/ GiveUp \/ Rescan
    \/ Accept \/ Refuse
    \/ \E c \in pending, h \in Handles : Establish(c, h)
    \/ \E c \in pending : EstablishFails(c)
    \/ \E c \in closing : End(c)
    \/ \E h \in Handles : Lose(h) \/ OtherDisconnects(h)
    \/ \E d \in Others, h \in Handles : OtherConnects(d, h)
    \/ \E e \in Lookalike : Unsolicited(e)

Spec == Init /\ [][Next]_vars

-----------------------------------------------------------------------------
(* Properties                                                              *)

\* Every link to a device of the caller is known to its BLEDevice between two
\* calls, so that it can be ended: unless a connect gave up on a link that
\* was set up later, or a call ended on an event that was not about its own
\* command, or on a status nobody wrote, or the list was filled anew.  Losing
\* links, giving up on a disconnect, and disconnecting what is not connected
\* lose track of none.
NoOrphan ==
    (/\ pc = "idle"
     /\ cause \cap {"late link", "crossed", "garbage", "rescan"} = {})
        => \A h \in Handles : links[h] \in Devices => handle[links[h]] = h

\* A handle that a BLEDevice holds between two calls is that of a link to this
\* device: unless a link was lost, which the library has no means to notice,
\* or a disconnect gave up on an end that came later, or a call ended on a
\* foreign event or on garbage, or the list was filled anew.
NoStaleHandle ==
    (/\ pc = "idle"
     /\ cause \cap {"lost", "late end", "crossed", "garbage", "rescan"} = {})
        => \A d \in Devices : handle[d] # 0 => links[handle[d]] = d

\* ble_disconnect ends the link of its own device, and neither that of another
\* device of the caller nor that of another program: unless the handle was
\* stale for one of these reasons, or the device was not connected and another
\* link has the handle 0.
EndsOwnLink ==
    [][\A c \in closing :
         (c \notin closing' /\ links'[c.handle] # links[c.handle])
         => \/ links[c.handle] = c.arg
            \/ cause \cap {"lost", "late end", "crossed", "garbage",
                           "rescan", "unconnected"} # {}]_vars
===============================================================================
