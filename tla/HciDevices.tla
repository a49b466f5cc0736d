------------------------------ MODULE HciDevices ------------------------------
(***************************************************************************)
(* Adapters and sockets: how one process finds an adapter (hci_get_route,  *)
(* hci_devid), opens and closes it (hci_init, hci_close), and asks the     *)
(* kernel about it (hci_update_conn_list, hci_inquiry).                    *)
(*                                                                         *)
(* A step is a system call with the code up to the next one, since adapters *)
(* are plugged in, pulled out, and taken up and down between any two of    *)
(* them, and each may fail.  A unit is one appearance of an adapter: one   *)
(* that comes back, under the same number or another, is another unit.     *)
(* A socket bound to a unit that has gone stays open, and is dead.         *)
(***************************************************************************)
EXTENDS Integers, FiniteSets

CONSTANTS
    Units,      \* adapters
    Raw,        \* those in raw mode
    Addr,       \* the address of each
    Wanted,     \* addresses the caller asks for
    ANY,        \* BDADDR_ANY, the zero address
    MaxId,      \* adapters are numbered 0 .. MaxId
    Slots,      \* the caller's HCIDevices
    Fds,        \* file descriptors; 0 is open from the start
    Nrsp,       \* responses the caller of hci_inquiry asks for
    Links,      \* numbers of links the kernel reports
    Faults,     \* system calls that may fail
    None

FaultKinds == {"socket", "ioctl", "malloc", "name", "getsockopt"}

HCI_MAX_CONN == 20
HCI_MAX_DEV == 16

ASSUME DevicesAssumption ==
    /\ Raw \subseteq Units
    /\ None \notin Units \cup Slots
    /\ Units \cap {"free", "other", "socket"} = {}
    /\ MaxId \in 0 .. HCI_MAX_DEV - 1  \* the list holds all adapters
    /\ Fds \subseteq Nat /\ 0 \in Fds
    /\ Nrsp \subseteq Int
    /\ Links \subseteq 0 .. HCI_MAX_CONN
    /\ Faults \subseteq FaultKinds

Ids == 0 .. MaxId

VARIABLES
    unit,       \* kernel: the unit behind each number
    up,         \* kernel: the units that are up
    unused,     \* units that have not been plugged in yet
    files,      \* the process' open files: "free", "other", "socket", or the
                \* unit a socket is bound to
    pc,         \* the system call that comes next
    call,       \* what the caller called last
    slot,       \* the HCIDevice it passed
    pass,       \* the test hci_for_each_dev applies: "other" or "same"
    want,       \* the address it compares with
    sk,         \* the temporary socket
    list,       \* the numbers of the list that are still to be looked at, in
                \* the order of the kernel, which may be any
    dev_id,     \* the adapter found, or -1
    info,       \* the address hci_devinfo returned
    nrsp,       \* hci_inquiry: the responses asked for
    ret,        \* what the call returned
    dev,        \* the HCIDevices
    stable,     \* history: <<number, unit>> that were up during the whole call
    failed      \* history: did a system call of the call fail?

kernelVars == <<unit, up, unused>>
deviceVars == <<slot, info, nrsp, dev>>
searchVars == <<pass, want, sk, list, dev_id>>
vars == <<kernelVars, files, pc, call, searchVars, deviceVars, ret, stable,
          failed>>

Fresh == [state |-> "fresh", dd |-> 0, dev_id |-> 0, addr |-> ANY, num |-> 0]

Addresses == {Addr[u] : u \in Units} \cup Wanted \cup {ANY}

Pcs == {"idle", "each", "list", "item", "open", "bind", "info", "devinfo",
        "name", "filter", "inquire", "inquiry", "conn", "connlist"}

Device == [state : {"fresh", "ok", "failed"}, dd : Fds \cup {-1},
           dev_id : Ids \cup {-1}, addr : Addresses, num : 0 .. HCI_MAX_CONN]

KernelType ==
    /\ unit \in [Ids -> Units \cup {None}]
    /\ up \subseteq Units
    /\ unused \subseteq Units
    /\ files \in [Fds -> {"free", "other", "socket"} \cup Units]
    /\ stable \subseteq Ids \X Units

CallType ==
    /\ pc \in Pcs
    /\ call \in {"none", "route", "address", "number", "init", "inquiry",
                 "conn"}
    /\ slot \in Slots \cup {None}
    /\ pass \in {"other", "same"}
    /\ want \in Addresses
    /\ sk \in Fds \cup {-1}
    /\ list \subseteq Ids
    /\ dev_id \in Ids \cup {-1}
    /\ info \in Addresses
    /\ nrsp \in Nrsp \cup {0}
    /\ ret \in Int

DeviceType == dev \in [Slots -> Device]

TypeOK == KernelType /\ CallType /\ DeviceType /\ failed \in BOOLEAN

Present == {<<i, unit[i]>> : i \in {j \in Ids : unit[j] \in up}}

Init ==
    /\ unit = [i \in Ids |-> None]
    /\ up = {}
    /\ unused = Units
    /\ files = [k \in Fds |-> IF k = 0 THEN "other" ELSE "free"]
    /\ pc = "idle"
    /\ call = "none"
    /\ slot = None
    /\ pass = "same"
    /\ want = ANY
    /\ sk = -1
    /\ list = {}
    /\ dev_id = -1
    /\ info = ANY
    /\ nrsp = 0
    /\ ret = 0
    /\ dev = [s \in Slots |-> Fresh]
    /\ stable = {}
    /\ failed = FALSE

-----------------------------------------------------------------------------
(* System calls                                                            *)

FreeFds == {k \in Fds : files[k] = "free"}

\* socket(): the lowest descriptor that is free.
SocketOpens ==
    \E k \in FreeFds :
        /\ \A j \in FreeFds : k <= j
        /\ files' = [files EXCEPT ![k] = "socket"]
        /\ sk' = k
        /\ UNCHANGED failed

SocketFails ==
    /\ "socket" \in Faults \/ FreeFds = {}
    /\ sk' = -1
    /\ failed' = TRUE
    /\ UNCHANGED files

CloseFile(k) == files' = [files EXCEPT ![k] = "free"]

Fails(kind) == kind \in Faults /\ failed' = TRUE
Succeeds == UNCHANGED failed

-----------------------------------------------------------------------------
(* The caller                                                              *)

\* A call begins; its locals are those that are not given here.
Call(name, next, s, test, address, id, n) ==
    /\ pc = "idle"
    /\ call' = name
    /\ pc' = next
    /\ slot' = s
    /\ pass' = test
    /\ want' = address
    /\ dev_id' = id
    /\ nrsp' = n
    /\ sk' = -1
    /\ list' = {}
    /\ info' = ANY
    /\ ret' = 0
    /\ stable' = Present
    /\ failed' = FALSE
    /\ UNCHANGED <<kernelVars, files>>

Returns(r) == pc' = "idle" /\ ret' = r

\* hci_get_route: first an adapter with an address other than the given one,
\* or than the zero address.
GetRoute(address) ==
    /\ Call("route", "each", None, "other", address, -1, 0)
    /\ UNCHANGED dev

\* hci_devid, given an address (a malformed one is read as the zero address,
\* and looked for all the same) ...
DevidAddress(address) ==
    /\ Call("address", "each", None, "same", address, -1, 0)
    /\ UNCHANGED dev

\* ... or a number ("hci0").
DevidNumber(id) ==
    /\ Call("number", "info", None, "same", ANY, id, 0)
    /\ UNCHANGED dev

\* hci_init on a device that is not open, which looks for a route.
InitDevice(s) ==
    /\ dev[s].state = "fresh"
    /\ Call("init", "each", s, "other", ANY, -1, 0)
    /\ UNCHANGED dev

\* hci_inquiry, for an adapter or for any (-1).
Inquiry(id, n) ==
    /\ Call("inquiry", IF id < 0 THEN "each" ELSE "inquire", None, "other", ANY,
            id, n)
    /\ UNCHANGED dev

\* Mutated: the capacity is off by one.
UpdateConnListOffByOne(s) ==
    /\ dev[s].state = "ok"
    /\ Call("conn", "conn", s, "same", ANY, -1, 0)
    /\ dev' = [dev EXCEPT ![s].num = HCI_MAX_CONN + 1]

\* hci_update_conn_list: num is the capacity when the kernel is asked.
UpdateConnList(s) ==
    /\ dev[s].state = "ok"
    /\ Call("conn", "conn", s, "same", ANY, -1, 0)
    /\ dev' = [dev EXCEPT ![s].num = HCI_MAX_CONN]

\* hci_close: closing descriptor -1 fails and changes nothing.
CloseDevice(s) ==
    /\ pc = "idle"
    /\ dev[s].state # "fresh"
    /\ IF dev[s].dd \in Fds THEN CloseFile(dev[s].dd) ELSE UNCHANGED files
    /\ dev' = [dev EXCEPT ![s] = Fresh]
    /\ UNCHANGED <<kernelVars, pc, call, searchVars, slot, info, nrsp, ret,
                   stable, failed>>

-----------------------------------------------------------------------------
(* hci_for_each_dev, and hci_get_route around it                           *)

\* hci_for_each_dev returns id.  hci_get_route tries again with the other
\* test; then the call it was made for goes on.
Found(id) ==
    IF id < 0 /\ pass = "other"
    THEN /\ pass' = "same"
         /\ pc' = "each"
         /\ UNCHANGED <<dev_id, ret>>
    ELSE /\ dev_id' = id
         /\ UNCHANGED pass
         /\ IF call = "init" THEN pc' = "open" /\ UNCHANGED ret
            ELSE IF call = "inquiry" /\ id >= 0
                 THEN pc' = "inquire" /\ UNCHANGED ret
                 ELSE Returns(id)

EachSocket ==
    /\ pc = "each"
    /\ \/ SocketOpens /\ pc' = "list" /\ UNCHANGED <<pass, dev_id, ret>>
       \/ SocketFails /\ Found(-1)
    /\ UNCHANGED <<kernelVars, call, want, list, deviceVars, stable>>

\* Mutated: a search that fails before it has a list leaves its socket open.
EachListLeaves ==
    /\ pc = "list"
    /\ \/ /\ Succeeds
          /\ list' = {i \in Ids : unit[i] \in up}
          /\ pc' = "item"
          /\ UNCHANGED <<files, pass, dev_id, ret>>
       \/ /\ Fails("malloc") \/ Fails("ioctl")
          /\ Found(-1)
          /\ UNCHANGED <<files, list>>
    /\ UNCHANGED <<kernelVars, call, want, sk, deviceVars, stable>>

\* malloc and HCIGETDEVLIST.  The list tells which adapters are up; the others
\* are skipped.
EachList ==
    /\ pc = "list"
    /\ \/ /\ Succeeds
          /\ list' = {i \in Ids : unit[i] \in up}
          /\ pc' = "item"
          /\ UNCHANGED <<files, pass, dev_id, ret>>
       \/ /\ Fails("malloc") \/ Fails("ioctl")
          /\ CloseFile(sk)
          /\ Found(-1)
          /\ UNCHANGED list
    /\ UNCHANGED <<kernelVars, call, want, sk, deviceVars, stable>>

\* __other_bdaddr and __same_bdaddr.  A number without an adapter matches
\* neither.
Matches(u) ==
    /\ u \in Units
    /\ IF pass = "other" THEN u \notin Raw /\ Addr[u] # want
                         ELSE Addr[u] = want

\* Mutated: the search ends at an adapter that cannot be asked.
EachItemGivesUp ==
    /\ pc = "item"
    /\ \E i \in list :
         \/ /\ unit[i] \in Units
            /\ ~Matches(unit[i])
            /\ list' = list \ {i}
            /\ UNCHANGED <<files, pc, pass, dev_id, ret>>
         \/ /\ unit[i] = None \/ Matches(unit[i])
            /\ CloseFile(sk)
            /\ Found(IF unit[i] = None THEN -1 ELSE i)
            /\ UNCHANGED list
    /\ UNCHANGED <<kernelVars, call, want, sk, deviceVars, stable, failed>>

\* HCIGETDEVINFO for the next of the list, which may have gone or changed
\* since; one that cannot be asked does not match.
EachItem ==
    /\ pc = "item"
    /\ \E i \in list :
         \/ /\ Matches(unit[i])
            /\ Succeeds
            /\ CloseFile(sk)
            /\ Found(i)
            /\ UNCHANGED list
         \/ /\ \/ ~Matches(unit[i]) /\ Succeeds
               \/ Fails("ioctl")
            /\ list' = list \ {i}
            /\ UNCHANGED <<files, pc, pass, dev_id, ret>>
    /\ UNCHANGED <<kernelVars, call, want, sk, deviceVars, stable>>

EachEnd ==
    /\ pc = "item"
    /\ list = {}
    /\ CloseFile(sk)
    /\ Found(-1)
    /\ UNCHANGED <<kernelVars, call, want, sk, list, deviceVars, stable,
                   failed>>

-----------------------------------------------------------------------------
(* hci_open_dev and the rest of hci_init                                   *)

InitFails(dd) ==
    /\ Returns(-1)
    /\ dev' = [dev EXCEPT ![slot].state = "failed", ![slot].dd = dd]

OpenSocket ==
    /\ pc = "open"
    /\ \/ dev_id < 0 /\ InitFails(-1) /\ UNCHANGED <<files, sk, failed>>
       \/ dev_id >= 0 /\ SocketOpens /\ pc' = "bind" /\ UNCHANGED <<dev, ret>>
       \/ dev_id >= 0 /\ SocketFails /\ InitFails(-1)
    /\ UNCHANGED <<kernelVars, call, pass, want, list, dev_id, slot, info,
                   nrsp, stable>>

Bind ==
    /\ pc = "bind"
    /\ \/ /\ unit[dev_id] \in Units
          /\ files' = [files EXCEPT ![sk] = unit[dev_id]]
          /\ dev' = [dev EXCEPT ![slot].dd = sk]
          /\ pc' = "info"
          /\ UNCHANGED ret
       \/ /\ unit[dev_id] = None
          /\ CloseFile(sk)
          /\ InitFails(-1)
    /\ UNCHANGED <<kernelVars, call, searchVars, slot, info, nrsp, stable,
                   failed>>

\* hci_devinfo has returned r: to hci_init, or to hci_devba and hci_devid.
InfoReturns(r, isUp) ==
    IF call = "init"
    THEN /\ UNCHANGED dev_id
         /\ IF r = 0 THEN pc' = "name" /\ UNCHANGED <<dev, ret>>
                     ELSE InitFails(dev[slot].dd)
    ELSE LET id == IF r = 0 /\ isUp THEN dev_id ELSE -1 IN
         Returns(id) /\ UNCHANGED <<dev_id, dev>>

InfoSocket ==
    /\ pc = "info"
    /\ \/ SocketOpens /\ pc' = "devinfo" /\ UNCHANGED <<dev_id, dev, ret>>
       \/ SocketFails /\ InfoReturns(-1, FALSE)
    /\ UNCHANGED <<kernelVars, call, pass, want, list, slot, info, nrsp,
                   stable>>

InfoIoctl ==
    /\ pc = "devinfo"
    /\ CloseFile(sk)
    /\ \/ /\ unit[dev_id] \in Units
          /\ Succeeds
          /\ info' = Addr[unit[dev_id]]
          /\ InfoReturns(0, unit[dev_id] \in up)
       \/ /\ \/ unit[dev_id] = None /\ Succeeds
             \/ Fails("ioctl")
          /\ UNCHANGED info
          /\ InfoReturns(-1, FALSE)
    /\ UNCHANGED <<kernelVars, call, pass, want, sk, list, slot, nrsp, stable>>

\* Mutated: the command is written to whichever adapter has the number now.
AliveByNumber == unit[dev_id] \in up

\* The unit behind the socket of the device being opened takes commands.
Alive == files[dev[slot].dd] \in up

\* hci_read_local_name, which writes a command to the socket.
ReadName ==
    /\ pc = "name"
    /\ \/ /\ Alive /\ Succeeds
          /\ pc' = "filter"
          /\ UNCHANGED <<dev, ret>>
       \/ /\ (~Alive /\ Succeeds) \/ Fails("name")
          /\ InitFails(dev[slot].dd)
    /\ UNCHANGED <<kernelVars, files, call, searchVars, slot, info, nrsp,
                   stable>>

\* The last that may fail.  The number and the address of the device have been
\* set on the way; they are of no use in a device that has failed, and are kept
\* here only of one that has not.
SaveFilter ==
    /\ pc = "filter"
    /\ \/ /\ Succeeds
          /\ dev' = [dev EXCEPT ![slot].state = "ok", ![slot].addr = info,
                                ![slot].dev_id = dev_id]
          /\ Returns(0)
       \/ Fails("getsockopt") /\ InitFails(dev[slot].dd)
    /\ UNCHANGED <<kernelVars, files, call, searchVars, slot, info, nrsp,
                   stable>>

-----------------------------------------------------------------------------
(* hci_inquiry and hci_update_conn_list                                    *)

\* Mutated: asking for 0 responses, too, makes a buffer for as many.
RoomForAsked == IF nrsp < 0 THEN 255 ELSE nrsp

\* The inquiry_infos there is room for in the buffer.
Room == IF nrsp <= 0 THEN 255 ELSE nrsp

\* uint8_t num_rsp; the kernel takes 0 for "as many as there are", up to 255.
num_rsp == IF nrsp <= 0 THEN 0 ELSE nrsp % 256
KernelLimit == IF num_rsp = 0 THEN 255 ELSE num_rsp

InquireSocket ==
    /\ pc = "inquire"
    /\ \/ SocketOpens /\ pc' = "inquiry" /\ UNCHANGED ret
       \/ SocketFails /\ Returns(-1)
    /\ UNCHANGED <<kernelVars, call, pass, want, list, dev_id, deviceVars,
                   stable>>

\* malloc and HCIINQUIRY.
Inquire ==
    /\ pc = "inquiry"
    /\ CloseFile(sk)
    /\ \/ unit[dev_id] \in up /\ Succeeds /\ \E n \in {0, KernelLimit} :
            Returns(n)
       \/ unit[dev_id] \notin up /\ Succeeds /\ Returns(-1)
       \/ (Fails("malloc") \/ Fails("ioctl")) /\ Returns(-1)
    /\ UNCHANGED <<kernelVars, call, searchVars, deviceVars, stable>>

ConnSocket ==
    /\ pc = "conn"
    /\ \/ SocketOpens /\ pc' = "connlist" /\ UNCHANGED ret
       \/ SocketFails /\ Returns(-1)
    /\ UNCHANGED <<kernelVars, call, pass, want, list, dev_id, deviceVars,
                   stable>>

\* HCIGETCONNLIST.  When it fails num stays at the capacity.
ConnIoctl ==
    /\ pc = "connlist"
    /\ CloseFile(sk)
    /\ \/ /\ unit[dev[slot].dev_id] \in Units /\ Succeeds
          /\ \E n \in Links : dev' = [dev EXCEPT ![slot].num = n]
          /\ Returns(0)
       \/ /\ (unit[dev[slot].dev_id] = None /\ Succeeds) \/ Fails("ioctl")
          /\ UNCHANGED dev
          /\ Returns(-1)
    /\ UNCHANGED <<kernelVars, call, searchVars, slot, info, nrsp, stable>>

-----------------------------------------------------------------------------
(* The kernel                                                              *)

KernelStep ==
    /\ stable' = IF pc = "idle" THEN stable
                 ELSE {p \in stable : unit'[p[1]] = p[2] /\ p[2] \in up'}
    /\ UNCHANGED <<files, pc, call, searchVars, deviceVars, ret, failed>>

Plug(i, u) ==
    /\ unit[i] = None /\ u \in unused
    /\ unit' = [unit EXCEPT ![i] = u]
    /\ unused' = unused \ {u}
    /\ UNCHANGED up
    /\ KernelStep

Unplug(i) ==
    /\ unit[i] # None
    /\ unit' = [unit EXCEPT ![i] = None]
    /\ up' = up \ {unit[i]}
    /\ UNCHANGED unused
    /\ KernelStep

BringUp(i) ==
    /\ unit[i] \in Units \ up
    /\ up' = up \cup {unit[i]}
    /\ UNCHANGED <<unit, unused>>
    /\ KernelStep

TakeDown(i) ==
    /\ unit[i] \in up
    /\ up' = up \ {unit[i]}
    /\ UNCHANGED <<unit, unused>>
    /\ KernelStep

-----------------------------------------------------------------------------
CallerStep ==
    \/ \E a \in Wanted \cup {ANY} : GetRoute(a) \/ DevidAddress(a)
    \/ \E i \in Ids : DevidNumber(i)
    \/ \E s \in Slots : InitDevice(s) \/ CloseDevice(s) \/ UpdateConnList(s)
    \/ \E i \in Ids \cup {-1}, n \in Nrsp : Inquiry(i, n)

SearchStep == EachSocket \/ EachList \/ EachItem \/ EachEnd

OpenStep ==
    OpenSocket \/ Bind \/ InfoSocket \/ InfoIoctl \/ ReadName \/ SaveFilter

RequestStep == InquireSocket \/ Inquire \/ ConnSocket \/ ConnIoctl

AdapterStep == \E i \in Ids :
    \/ \E u \in Units : Plug(i, u)
    \/ Unplug(i) \/ BringUp(i) \/ TakeDown(i)

Next ==
    \/ CallerStep
    \/ SearchStep
    \/ OpenStep
    \/ RequestStep
    \/ AdapterStep

Spec == Init /\ [][Next]_vars

-----------------------------------------------------------------------------
(* Properties                                                              *)

\* A process that closes every device it has opened, or failed to open, leaks
\* no descriptor and closes none of others: between two calls the open files
\* are those of the start and one socket of each device that got that far, on
\* whichever path the calls before have failed.
NoLeak ==
    pc = "idle" =>
        /\ files[0] = "other"
        /\ \A k \in Fds \ {0} :
             files[k] # "free" <=> \E s \in Slots : dev[s].dd = k
        /\ \A s, t \in Slots : dev[s].dd = dev[t].dd => s = t \/ dev[s].dd <= 0

\* The address of a device that hci_init has opened is that of the adapter its
\* socket is bound to, although three lookups by number are made while numbers
\* pass from one adapter to another: the name is read last, through the socket,
\* and a socket whose adapter has gone fails there.
AddressIsSockets ==
    \A s \in Slots : dev[s].state = "ok" =>
        files[dev[s].dd] \in Units /\ dev[s].addr = Addr[files[dev[s].dd]]

\* An adapter that is there and up during the whole call is found, whatever
\* happens to the others: by its address, by its number, and as a route, for
\* which one with another address comes first.
FindsStable ==
    (pc = "idle" /\ ~failed) => \A p \in stable :
        /\ call = "address" /\ Addr[p[2]] = want => ret >= 0
        /\ call = "number" /\ dev_id = p[1] => ret = p[1]
        /\ call = "route" /\ Addr[p[2]] = want => ret >= 0
        /\ call = "route" /\ Addr[p[2]] # want /\ p[2] \notin Raw
               => ret >= 0 /\ pass = "other"

\* The kernel writes no more responses than the buffer of hci_inquiry holds,
\* nor does hci_inquiry return more: also when the number asked for does not
\* fit into the eight bits it is passed in, and 0 is passed instead.
InquiryFits == call = "inquiry" /\ pc = "idle" => ret <= Room
===============================================================================
