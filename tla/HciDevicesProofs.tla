--------------------------- MODULE HciDevicesProofs ---------------------------
(***************************************************************************)
(* Proofs about HciDevices: that no descriptor leaks, that the address of  *)
(* a device is that of its socket's adapter, that an adapter which stays is *)
(* found, and that an inquiry fits its buffer, for every number of         *)
(* adapters, devices, descriptors and links.                               *)
(***************************************************************************)
EXTENDS HciDevices, TLAPS

-----------------------------------------------------------------------------
(* The inductive invariant                                                 *)

\* What the system call that comes next says of the call under way.
Phase ==
    /\ pc \in {"each", "list", "item"} =>
         call \in {"route", "address", "init", "inquiry"}
    /\ pc \in {"open", "bind", "name", "filter"} => call = "init"
    /\ pc \in {"info", "devinfo"} => call \in {"init", "number"}
    /\ pc \in {"conn", "connlist"} => call = "conn" /\ dev[slot].state = "ok"
    /\ pc \in {"inquire", "inquiry"} => call = "inquiry"
    /\ pc # "idle" /\ call \in {"init", "conn"} => slot \in Slots
    /\ pc # "idle" /\ call = "init" => dev[slot].state = "fresh"
    /\ pc \in {"bind", "info", "devinfo", "name", "filter", "inquire",
               "inquiry"} => dev_id \in Ids

\* hci_init has bound the socket of device s, and may still fail.
Bound(s) ==
    /\ pc \in {"info", "devinfo", "name", "filter"}
    /\ call = "init"
    /\ s = slot

\* The temporary socket is open.
Open == pc \in {"list", "item", "bind", "devinfo", "inquiry", "connlist"}

\* An open descriptor has one owner: a device, or the call under way.
Owned ==
    /\ files[0] = "other"
    /\ \A k \in Fds \ {0} : files[k] # "free" <=>
         (Open /\ k = sk) \/ \E s \in Slots : dev[s].dd = k
    /\ \A s, t \in Slots : dev[s].dd = dev[t].dd => s = t \/ dev[s].dd <= 0
    /\ Open => sk \in Fds \ {0} /\ \A s \in Slots : dev[s].dd # sk

\* Only a device that hci_init was called for has a descriptor.
Descriptors == \A s \in Slots :
    /\ dev[s].state = "fresh" /\ ~Bound(s) => dev[s].dd = 0
    /\ dev[s].state = "failed" => dev[s].dd # 0
    /\ dev[s].state = "ok" \/ Bound(s) =>
         dev[s].dd \in Fds \ {0} /\ files[dev[s].dd] \in Units \ unused

\* A unit has one number at a time, and does not come back.
Plugged ==
    /\ \A i, j \in Ids : unit[i] = unit[j] => i = j \/ unit[i] = None
    /\ \A i \in Ids : unit[i] \notin unused
    /\ \A u \in up : \E i \in Ids : unit[i] = u

Gone(u) == \A i \in Ids : unit[i] # u

\* What hci_init has learned by number is about the unit behind its socket, or
\* that unit has gone.
Learned ==
    /\ \A s \in Slots : dev[s].state = "ok" =>
         dev[s].addr = Addr[files[dev[s].dd]]
    /\ \A s \in Slots : Bound(s) =>
         LET u == files[dev[s].dd] IN
         /\ pc \in {"info", "devinfo"} => unit[dev_id] = u \/ Gone(u)
         /\ pc = "name" => info = Addr[u] \/ Gone(u)
         /\ pc = "filter" => info = Addr[u]

\* What the search has left out does not match, as long as no call has failed.
Fruitless(u, test) ==
    IF test = "other" THEN u \in Raw \/ Addr[u] = want ELSE Addr[u] # want

Searched ==
    /\ pc # "idle" => stable \subseteq Present
    /\ pc \in {"each", "list", "item"} /\ call = "address" => pass = "same"
    /\ ~failed /\ pc \in {"each", "list", "item"} =>
         \A p \in stable :
            /\ call = "route" /\ pass = "same" => Fruitless(p[2], "other")
            /\ pc = "item" => p[1] \in list \/ Fruitless(p[2], pass)

IInv ==
    /\ TypeOK
    /\ Phase
    /\ Owned
    /\ Descriptors
    /\ Plugged
    /\ Learned
    /\ Searched
    /\ FindsStable
    /\ InquiryFits

-----------------------------------------------------------------------------
(* Types of the constants and of what is built from them                   *)

\* Numbers of adapters are natural numbers, so that -1 is none of them.
LEMMA IdsType == Ids \subseteq Nat /\ Ids \subseteq Int /\ -1 \notin Ids
  BY DEF Ids

\* A descriptor other than 0 is positive.
LEMMA FdsType == \A k \in Fds \ {0} : ~(k <= 0)
  BY DevicesAssumption

\* The addresses a caller asks for and those of adapters are addresses.
LEMMA AddressesType ==
    /\ Wanted \cup {ANY} \subseteq Addresses
    /\ \A u \in Units : Addr[u] \in Addresses
  BY DEF Addresses

\* The numbers of links fit the conn_list of an HCIDevice.
LEMMA ConnsType == {0, HCI_MAX_CONN} \cup Links \subseteq 0 .. HCI_MAX_CONN
  BY DevicesAssumption DEF HCI_MAX_CONN

\* hci_close leaves an HCIDevice.
LEMMA FreshType == Fresh \in Device
  BY DevicesAssumption, AddressesType, ConnsType
     DEF Fresh, Device, Ids, HCI_MAX_DEV

\* The number of responses the kernel is asked for is a number.
LEMMA LimitType == nrsp \in Nrsp \cup {0} => KernelLimit \in Int
  <1> SUFFICES ASSUME nrsp \in Nrsp \cup {0}
               PROVE  KernelLimit \in Int
    OBVIOUS
  <1>1. nrsp \in Int
    BY DevicesAssumption
  <1>2. nrsp % 256 \in Int
    BY <1>1
  <1> QED
    BY <1>2 DEF KernelLimit, num_rsp

-----------------------------------------------------------------------------
(* Every step preserves each part of the invariant                         *)

\* The kernel's and the history's part of the type invariant.
LEMMA StepKernelType ==
    ASSUME KernelType, CallType, [Next]_vars
    PROVE  KernelType'
  <1> USE DEF kernelVars, deviceVars, searchVars
  <1>1. CASE CallerStep
    BY <1>1, DevicesAssumption, IdsType DEF CallerStep, GetRoute, Call,
       Present, DevidAddress, DevidNumber, InitDevice, CloseDevice,
       CloseFile, Fresh, UpdateConnList, Inquiry, KernelType, CallType
  <1>2. CASE SearchStep
    BY <1>2, DevicesAssumption, IdsType DEF SearchStep, EachSocket,
       SocketOpens, SocketFails, FreeFds, Found, Returns, EachList,
       CloseFile, Fails, Succeeds, EachItem, EachEnd, KernelType, CallType
  <1>3. CASE OpenStep
    BY <1>3, DevicesAssumption, IdsType DEF OpenStep, OpenSocket,
       SocketOpens, SocketFails, FreeFds, InitFails, Returns, Bind,
       CloseFile, InfoSocket, InfoReturns, InfoIoctl, Fails, Succeeds,
       ReadName, SaveFilter, KernelType, CallType
  <1>4. CASE RequestStep
    BY <1>4, DevicesAssumption, IdsType DEF RequestStep, InquireSocket,
       SocketOpens, SocketFails, FreeFds, Returns, Inquire, CloseFile,
       Fails, Succeeds, ConnSocket, ConnIoctl, KernelType, CallType
  <1>5. CASE AdapterStep
    BY <1>5, DevicesAssumption, IdsType DEF AdapterStep, Plug, KernelStep,
       Unplug, BringUp, TakeDown, KernelType, CallType
  <1>6. CASE UNCHANGED vars
    BY <1>6, DevicesAssumption, IdsType DEF vars, KernelType, CallType
  <1> QED
    BY <1>1, <1>2, <1>3, <1>4, <1>5, <1>6 DEF Next

\* The locals of the call under way.
LEMMA StepCallType ==
    ASSUME KernelType, CallType, DeviceType, Phase, [Next]_vars
    PROVE  CallType'
  <1> USE DEF kernelVars, deviceVars, searchVars
  <1>1. CASE CallerStep
    BY <1>1, DevicesAssumption, IdsType, AddressesType DEF CallerStep,
       GetRoute, Call, Present, DevidAddress, DevidNumber, InitDevice,
       CloseDevice, CloseFile, Fresh, UpdateConnList, Inquiry, CallType,
       KernelType, Pcs
  <1>2. CASE SearchStep
    <2>1. CASE EachSocket
      BY <2>1, DevicesAssumption, IdsType, AddressesType DEF EachSocket,
         SocketOpens, SocketFails, FreeFds, Found, Returns, CallType,
         KernelType, Pcs
    <2>2. CASE EachList
      <3>1. {i \in Ids : unit[i] \in up} \subseteq Ids
        OBVIOUS
      <3>2. list' \subseteq Ids
        BY <2>2, <3>1 DEF EachList, CallType
      <3> QED
        BY <2>2, <3>2, DevicesAssumption, IdsType DEF EachList,
           CloseFile, Fails, Succeeds, Found, Returns, CallType, Pcs
    <2>3. CASE EachItem
      BY <2>3, DevicesAssumption, IdsType, AddressesType DEF EachItem,
         CloseFile, Fails, Succeeds, Found, Returns, CallType,
         KernelType, Pcs
    <2>4. CASE EachEnd
      BY <2>4, DevicesAssumption, IdsType, AddressesType DEF EachEnd,
         CloseFile, Found, Returns, CallType, KernelType, Pcs
    <2> QED
      BY <1>2, <2>1, <2>2, <2>3, <2>4 DEF SearchStep
  <1>3. CASE OpenStep
    BY <1>3, DevicesAssumption, IdsType, AddressesType DEF OpenStep,
       OpenSocket, SocketOpens, SocketFails, FreeFds, InitFails, Returns,
       Bind, CloseFile, InfoSocket, InfoReturns, InfoIoctl, Fails,
       Succeeds, ReadName, SaveFilter, CallType, KernelType, Pcs
  <1>4. CASE RequestStep
    <2>1. CASE InquireSocket
      BY <2>1, DevicesAssumption, IdsType, AddressesType DEF
         InquireSocket, SocketOpens, SocketFails, FreeFds, Returns,
         CallType, KernelType, Pcs
    <2>2. CASE Inquire
      <3>1. ret' \in Int
        BY <2>2, LimitType DEF Inquire, Returns, CallType
      <3> QED
        BY <2>2, <3>1 DEF Inquire, Returns, CallType, Pcs
    <2>3. CASE ConnSocket
      BY <2>3, DevicesAssumption, IdsType, AddressesType DEF ConnSocket,
         SocketOpens, SocketFails, FreeFds, Returns, CallType,
         KernelType, Pcs
    <2>4. CASE ConnIoctl
      BY <2>4, DevicesAssumption, IdsType, AddressesType DEF ConnIoctl,
         CloseFile, Fails, Succeeds, Returns, CallType, KernelType, Pcs
    <2> QED
      BY <1>4, <2>1, <2>2, <2>3, <2>4 DEF RequestStep
  <1>5. CASE AdapterStep
    BY <1>5, DevicesAssumption, IdsType, AddressesType DEF AdapterStep,
       Plug, KernelStep, Unplug, BringUp, TakeDown, CallType, KernelType,
       Pcs
  <1>6. CASE UNCHANGED vars
    BY <1>6, DevicesAssumption, IdsType, AddressesType DEF vars, CallType,
       KernelType, Pcs
  <1> QED
    BY <1>1, <1>2, <1>3, <1>4, <1>5, <1>6 DEF Next

\* The HCIDevices, written by hci_init, hci_close and hci_update_conn_list.
LEMMA StepDeviceType ==
    ASSUME KernelType, CallType, DeviceType, Phase, [Next]_vars
    PROVE  DeviceType'
  <1> USE DEF kernelVars, deviceVars, searchVars
  <1>1. CASE CallerStep
    <2>1. ASSUME NEW a \in Wanted \cup {ANY}, GetRoute(a)
         PROVE  DeviceType'
      BY <2>1, DevicesAssumption, IdsType, AddressesType, ConnsType DEF
         GetRoute, Call, Present, DeviceType, Device, CallType, Phase
    <2>2. ASSUME NEW a \in Wanted \cup {ANY}, DevidAddress(a)
         PROVE  DeviceType'
      BY <2>2, DevicesAssumption, IdsType, AddressesType, ConnsType DEF
         DevidAddress, Call, Present, DeviceType, Device, CallType,
         Phase
    <2>3. ASSUME NEW i \in Ids, DevidNumber(i)
         PROVE  DeviceType'
      BY <2>3, DevicesAssumption, IdsType, AddressesType, ConnsType DEF
         DevidNumber, Call, Present, DeviceType, Device, CallType, Phase
    <2>4. ASSUME NEW s \in Slots, InitDevice(s)
         PROVE  DeviceType'
      BY <2>4, DevicesAssumption, IdsType, AddressesType, ConnsType DEF
         InitDevice, Call, Present, DeviceType, Device, CallType, Phase
    <2>5. ASSUME NEW s \in Slots, CloseDevice(s)
         PROVE  DeviceType'
      BY <2>5, FreshType DEF CloseDevice, DeviceType
    <2>6. ASSUME NEW s \in Slots, UpdateConnList(s)
         PROVE  DeviceType'
      BY <2>6, DevicesAssumption, IdsType, AddressesType, ConnsType DEF
         UpdateConnList, Call, Present, DeviceType, Device, CallType,
         Phase
    <2>7. ASSUME NEW i \in Ids \cup {-1}, NEW n \in Nrsp, Inquiry(i, n)
         PROVE  DeviceType'
      BY <2>7, DevicesAssumption, IdsType, AddressesType, ConnsType DEF
         Inquiry, Call, Present, DeviceType, Device, CallType, Phase
    <2> QED
      BY <1>1, <2>1, <2>2, <2>3, <2>4, <2>5, <2>6, <2>7 DEF CallerStep
  <1>2. CASE SearchStep
    BY <1>2, DevicesAssumption, IdsType, AddressesType, ConnsType DEF
       SearchStep, EachSocket, SocketOpens, SocketFails, FreeFds, Found,
       Returns, EachList, CloseFile, Fails, Succeeds, EachItem, EachEnd,
       DeviceType, Device, CallType, Phase
  <1>3. CASE OpenStep
    BY <1>3, DevicesAssumption, IdsType, AddressesType, ConnsType DEF
       OpenStep, OpenSocket, SocketOpens, SocketFails, FreeFds, InitFails,
       Returns, Bind, CloseFile, InfoSocket, InfoReturns, InfoIoctl,
       Fails, Succeeds, ReadName, SaveFilter, DeviceType, Device,
       CallType, Phase
  <1>4. CASE RequestStep
    BY <1>4, DevicesAssumption, IdsType, AddressesType, ConnsType DEF
       RequestStep, InquireSocket, SocketOpens, SocketFails, FreeFds,
       Returns, Inquire, CloseFile, Fails, Succeeds, ConnSocket,
       ConnIoctl, DeviceType, Device, CallType, Phase
  <1>5. CASE AdapterStep
    BY <1>5, DevicesAssumption, IdsType, AddressesType, ConnsType DEF
       AdapterStep, Plug, KernelStep, Unplug, BringUp, TakeDown,
       DeviceType, Device, CallType, Phase
  <1>6. CASE UNCHANGED vars
    BY <1>6, DevicesAssumption, IdsType, AddressesType, ConnsType DEF
       vars, DeviceType, Device, CallType, Phase
  <1> QED
    BY <1>1, <1>2, <1>3, <1>4, <1>5, <1>6 DEF Next

\* failed stays a Boolean.
LEMMA StepFailed ==
    ASSUME failed \in BOOLEAN, [Next]_vars
    PROVE  failed' \in BOOLEAN
  <1> USE DEF kernelVars, deviceVars, searchVars
  <1>1. CASE CallerStep
    BY <1>1 DEF CallerStep, GetRoute, Call, Present, DevidAddress,
       DevidNumber, InitDevice, CloseDevice, CloseFile, Fresh,
       UpdateConnList, Inquiry
  <1>2. CASE SearchStep
    BY <1>2 DEF SearchStep, EachSocket, SocketOpens, SocketFails, FreeFds,
       Found, Returns, EachList, CloseFile, Fails, Succeeds, EachItem,
       EachEnd
  <1>3. CASE OpenStep
    BY <1>3 DEF OpenStep, OpenSocket, SocketOpens, SocketFails, FreeFds,
       InitFails, Returns, Bind, CloseFile, InfoSocket, InfoReturns,
       InfoIoctl, Fails, Succeeds, ReadName, SaveFilter
  <1>4. CASE RequestStep
    BY <1>4 DEF RequestStep, InquireSocket, SocketOpens, SocketFails,
       FreeFds, Returns, Inquire, CloseFile, Fails, Succeeds, ConnSocket,
       ConnIoctl
  <1>5. CASE AdapterStep
    BY <1>5 DEF AdapterStep, Plug, KernelStep, Unplug, BringUp, TakeDown
  <1>6. CASE UNCHANGED vars
    BY <1>6 DEF vars
  <1> QED
    BY <1>1, <1>2, <1>3, <1>4, <1>5, <1>6 DEF Next

\* What comes next fits the call that was made.
LEMMA StepPhase ==
    ASSUME KernelType, CallType, DeviceType, Phase, [Next]_vars
    PROVE  Phase'
  <1> USE DEF kernelVars, deviceVars, searchVars
  <1>1. CASE CallerStep
    BY <1>1, IdsType DEF CallerStep, GetRoute, Call, Present,
       DevidAddress, DevidNumber, InitDevice, CloseDevice, CloseFile,
       Fresh, UpdateConnList, Inquiry, Phase, CallType, DeviceType, Device
  <1>2. CASE SearchStep
    BY <1>2, IdsType DEF SearchStep, EachSocket, SocketOpens, SocketFails,
       FreeFds, Found, Returns, EachList, CloseFile, Fails, Succeeds,
       EachItem, EachEnd, Phase, CallType, DeviceType, Device
  <1>3. CASE OpenStep
    BY <1>3, IdsType DEF OpenStep, OpenSocket, SocketOpens, SocketFails,
       FreeFds, InitFails, Returns, Bind, CloseFile, InfoSocket,
       InfoReturns, InfoIoctl, Fails, Succeeds, ReadName, SaveFilter,
       Phase, CallType, DeviceType, Device
  <1>4. CASE RequestStep
    BY <1>4, IdsType DEF RequestStep, InquireSocket, SocketOpens,
       SocketFails, FreeFds, Returns, Inquire, CloseFile, Fails, Succeeds,
       ConnSocket, ConnIoctl, Phase, CallType, DeviceType, Device
  <1>5. CASE AdapterStep
    BY <1>5, IdsType DEF AdapterStep, Plug, KernelStep, Unplug, BringUp,
       TakeDown, Phase, CallType, DeviceType, Device
  <1>6. CASE UNCHANGED vars
    BY <1>6, IdsType DEF vars, Phase, CallType, DeviceType, Device
  <1> QED
    BY <1>1, <1>2, <1>3, <1>4, <1>5, <1>6 DEF Next

\* Only the kernel's own steps move adapters.
LEMMA StepPlugged ==
    ASSUME KernelType, CallType, DeviceType, Plugged, [Next]_vars
    PROVE  Plugged'
  <1> USE DEF kernelVars, deviceVars, searchVars
  <1>1. CASE CallerStep
    BY <1>1, DevicesAssumption DEF CallerStep, GetRoute, Call, Present,
       DevidAddress, DevidNumber, InitDevice, CloseDevice, CloseFile,
       Fresh, UpdateConnList, Inquiry, Plugged, KernelType
  <1>2. CASE SearchStep
    BY <1>2, DevicesAssumption DEF SearchStep, EachSocket, SocketOpens,
       SocketFails, FreeFds, Found, Returns, EachList, CloseFile, Fails,
       Succeeds, EachItem, EachEnd, Plugged, KernelType
  <1>3. CASE OpenStep
    BY <1>3, DevicesAssumption DEF OpenStep, OpenSocket, SocketOpens,
       SocketFails, FreeFds, InitFails, Returns, Bind, CloseFile,
       InfoSocket, InfoReturns, InfoIoctl, Fails, Succeeds, ReadName,
       SaveFilter, Plugged, KernelType
  <1>4. CASE RequestStep
    BY <1>4, DevicesAssumption DEF RequestStep, InquireSocket,
       SocketOpens, SocketFails, FreeFds, Returns, Inquire, CloseFile,
       Fails, Succeeds, ConnSocket, ConnIoctl, Plugged, KernelType
  <1>5. CASE AdapterStep
    BY <1>5, DevicesAssumption DEF AdapterStep, Plug, KernelStep, Unplug,
       BringUp, TakeDown, Plugged, KernelType
  <1>6. CASE UNCHANGED vars
    BY <1>6, DevicesAssumption DEF vars, Plugged, KernelType
  <1> QED
    BY <1>1, <1>2, <1>3, <1>4, <1>5, <1>6 DEF Next

\* Every descriptor that is opened gets an owner, and every one that is closed
\* loses it.
LEMMA StepOwned ==
    ASSUME KernelType, CallType, DeviceType, Phase, Owned, Descriptors,
           [Next]_vars
    PROVE  Owned'
  <1> USE DEF kernelVars, deviceVars, searchVars
  <1>1. CASE CallerStep
    BY <1>1, IdsType, DevicesAssumption DEF CallerStep, GetRoute, Call,
       Present, DevidAddress, DevidNumber, InitDevice, CloseDevice,
       CloseFile, Fresh, UpdateConnList, Inquiry, Owned, Open, Bound,
       Descriptors, Phase, KernelType, CallType, DeviceType, Device
  <1>2. CASE SearchStep
    BY <1>2, IdsType, DevicesAssumption DEF SearchStep, EachSocket,
       SocketOpens, SocketFails, FreeFds, Found, Returns, EachList,
       CloseFile, Fails, Succeeds, EachItem, EachEnd, Owned, Open, Bound,
       Descriptors, Phase, KernelType, CallType, DeviceType, Device
  <1>3. CASE OpenStep
    <2>1. CASE OpenSocket
      BY <2>1, IdsType, DevicesAssumption DEF OpenSocket, SocketOpens,
         SocketFails, FreeFds, InitFails, Returns, Owned, Open, Bound,
         Descriptors, Phase, KernelType, CallType, DeviceType, Device
    <2>2. CASE Bind
      BY <2>2, IdsType, DevicesAssumption DEF Bind, CloseFile,
         InitFails, Returns, Owned, Open, Bound, Descriptors, Phase,
         KernelType, CallType, DeviceType, Device
    <2>3. CASE InfoSocket
      BY <2>3, IdsType, DevicesAssumption DEF InfoSocket, SocketOpens,
         SocketFails, FreeFds, InfoReturns, InitFails, Returns, Owned,
         Open, Bound, Descriptors, Phase, KernelType, CallType,
         DeviceType, Device
    <2>4. CASE InfoIoctl
      BY <2>4, IdsType, DevicesAssumption DEF InfoIoctl, CloseFile,
         Fails, Succeeds, InfoReturns, InitFails, Returns, Owned, Open,
         Bound, Descriptors, Phase, KernelType, CallType, DeviceType,
         Device
    <2>5. CASE ReadName
      BY <2>5, IdsType, DevicesAssumption DEF ReadName, Fails, Succeeds,
         InitFails, Returns, Owned, Open, Bound, Descriptors, Phase,
         KernelType, CallType, DeviceType, Device
    <2>6. CASE SaveFilter
      BY <2>6, IdsType, DevicesAssumption DEF SaveFilter, Fails,
         Succeeds, InitFails, Returns, Owned, Open, Bound, Descriptors,
         Phase, KernelType, CallType, DeviceType, Device
    <2> QED
      BY <1>3, <2>1, <2>2, <2>3, <2>4, <2>5, <2>6 DEF OpenStep
  <1>4. CASE RequestStep
    BY <1>4, IdsType, DevicesAssumption DEF RequestStep, InquireSocket,
       SocketOpens, SocketFails, FreeFds, Returns, Inquire, CloseFile,
       Fails, Succeeds, ConnSocket, ConnIoctl, Owned, Open, Bound,
       Descriptors, Phase, KernelType, CallType, DeviceType, Device
  <1>5. CASE AdapterStep
    BY <1>5, IdsType, DevicesAssumption DEF AdapterStep, Plug, KernelStep,
       Unplug, BringUp, TakeDown, Owned, Open, Bound, Descriptors, Phase,
       KernelType, CallType, DeviceType, Device
  <1>6. CASE UNCHANGED vars
    BY <1>6, IdsType, DevicesAssumption DEF vars, Owned, Open, Bound,
       Descriptors, Phase, KernelType, CallType, DeviceType, Device
  <1> QED
    BY <1>1, <1>2, <1>3, <1>4, <1>5, <1>6 DEF Next

\* A descriptor is kept by a device whether or not hci_init succeeds.
LEMMA StepDescriptors ==
    ASSUME KernelType, CallType, DeviceType, Phase, Owned, Descriptors,
           Plugged, [Next]_vars
    PROVE  Descriptors'
  <1> USE DEF kernelVars, deviceVars, searchVars
  <1>1. CASE CallerStep
    BY <1>1, IdsType, DevicesAssumption DEF CallerStep, GetRoute, Call,
       Present, DevidAddress, DevidNumber, InitDevice, CloseDevice,
       CloseFile, Fresh, UpdateConnList, Inquiry, Owned, Open, Bound,
       Descriptors, Plugged, Phase, KernelType, CallType, DeviceType,
       Device
  <1>2. CASE SearchStep
    <2>1. CASE EachSocket
      BY <2>1, IdsType, DevicesAssumption DEF EachSocket, SocketOpens,
         SocketFails, FreeFds, Found, Returns, Owned, Open, Bound,
         Descriptors, Plugged, Phase, KernelType, CallType, DeviceType,
         Device
    <2>2. CASE EachList
      BY <2>2, IdsType, DevicesAssumption DEF EachList, CloseFile,
         Fails, Succeeds, Found, Returns, Owned, Open, Bound,
         Descriptors, Plugged, Phase, KernelType, CallType, DeviceType,
         Device
    <2>3. CASE EachItem
      BY <2>3, IdsType, DevicesAssumption DEF EachItem, CloseFile,
         Fails, Succeeds, Found, Returns, Owned, Open, Bound,
         Descriptors, Plugged, Phase, KernelType, CallType, DeviceType,
         Device
    <2>4. CASE EachEnd
      BY <2>4, IdsType, DevicesAssumption DEF EachEnd, CloseFile, Found,
         Returns, Owned, Open, Bound, Descriptors, Plugged, Phase,
         KernelType, CallType, DeviceType, Device
    <2> QED
      BY <1>2, <2>1, <2>2, <2>3, <2>4 DEF SearchStep
  <1>3. CASE OpenStep
    BY <1>3, IdsType, DevicesAssumption DEF OpenStep, OpenSocket,
       SocketOpens, SocketFails, FreeFds, InitFails, Returns, Bind,
       CloseFile, InfoSocket, InfoReturns, InfoIoctl, Fails, Succeeds,
       ReadName, SaveFilter, Owned, Open, Bound, Descriptors, Plugged,
       Phase, KernelType, CallType, DeviceType, Device
  <1>4. CASE RequestStep
    BY <1>4, IdsType, DevicesAssumption DEF RequestStep, InquireSocket,
       SocketOpens, SocketFails, FreeFds, Returns, Inquire, CloseFile,
       Fails, Succeeds, ConnSocket, ConnIoctl, Owned, Open, Bound,
       Descriptors, Plugged, Phase, KernelType, CallType, DeviceType,
       Device
  <1>5. CASE AdapterStep
    BY <1>5, IdsType, DevicesAssumption DEF AdapterStep, Plug, KernelStep,
       Unplug, BringUp, TakeDown, Owned, Open, Bound, Descriptors,
       Plugged, Phase, KernelType, CallType, DeviceType, Device
  <1>6. CASE UNCHANGED vars
    BY <1>6, IdsType, DevicesAssumption DEF vars, Owned, Open, Bound,
       Descriptors, Plugged, Phase, KernelType, CallType, DeviceType,
       Device
  <1> QED
    BY <1>1, <1>2, <1>3, <1>4, <1>5, <1>6 DEF Next

\* What hci_init has learned stays about the socket's adapter, or the adapter
\* has gone, and then its name cannot be read.
LEMMA StepLearned ==
    ASSUME KernelType, CallType, DeviceType, Phase, Owned, Descriptors,
           Plugged, Learned, [Next]_vars
    PROVE  Learned'
  <1> USE DEF kernelVars, deviceVars, searchVars
  <1>1. CASE CallerStep
    BY <1>1, IdsType, DevicesAssumption DEF CallerStep, GetRoute, Call,
       Present, DevidAddress, DevidNumber, InitDevice, CloseDevice,
       CloseFile, Fresh, UpdateConnList, Inquiry, Learned, Gone, Owned,
       Open, Bound, Descriptors, Plugged, Phase, KernelType, CallType,
       DeviceType, Device
  <1>2. CASE SearchStep
    <2>1. CASE EachSocket
      BY <2>1, IdsType, DevicesAssumption DEF EachSocket, SocketOpens,
         SocketFails, FreeFds, Found, Returns, Learned, Gone, Owned,
         Open, Bound, Descriptors, Plugged, Phase, KernelType, CallType,
         DeviceType, Device
    <2>2. CASE EachList
      BY <2>2, IdsType, DevicesAssumption DEF EachList, CloseFile,
         Fails, Succeeds, Found, Returns, Learned, Gone, Owned, Open,
         Bound, Descriptors, Plugged, Phase, KernelType, CallType,
         DeviceType, Device
    <2>3. CASE EachItem
      BY <2>3, IdsType, DevicesAssumption DEF EachItem, CloseFile,
         Fails, Succeeds, Found, Returns, Learned, Gone, Owned, Open,
         Bound, Descriptors, Plugged, Phase, KernelType, CallType,
         DeviceType, Device
    <2>4. CASE EachEnd
      BY <2>4, IdsType, DevicesAssumption DEF EachEnd, CloseFile, Found,
         Returns, Learned, Gone, Owned, Open, Bound, Descriptors,
         Plugged, Phase, KernelType, CallType, DeviceType, Device
    <2> QED
      BY <1>2, <2>1, <2>2, <2>3, <2>4 DEF SearchStep
  <1>3. CASE OpenStep
    <2>1. CASE OpenSocket
      BY <2>1, IdsType, DevicesAssumption DEF OpenSocket, SocketOpens,
         SocketFails, FreeFds, InitFails, Returns, Learned, Gone, Owned,
         Open, Bound, Descriptors, Plugged, Phase, KernelType, CallType,
         DeviceType, Device
    <2>2. CASE Bind
      BY <2>2, IdsType, DevicesAssumption DEF Bind, CloseFile,
         InitFails, Returns, Learned, Gone, Owned, Open, Bound,
         Descriptors, Plugged, Phase, KernelType, CallType, DeviceType,
         Device
    <2>3. CASE InfoSocket
      BY <2>3, IdsType, DevicesAssumption DEF InfoSocket, SocketOpens,
         SocketFails, FreeFds, InfoReturns, InitFails, Returns, Learned,
         Gone, Owned, Open, Bound, Descriptors, Plugged, Phase,
         KernelType, CallType, DeviceType, Device
    <2>4. CASE InfoIoctl
      BY <2>4, IdsType, DevicesAssumption DEF InfoIoctl, CloseFile,
         Fails, Succeeds, InfoReturns, InitFails, Returns, Learned,
         Gone, Owned, Open, Bound, Descriptors, Plugged, Phase,
         KernelType, CallType, DeviceType, Device
    <2>5. CASE ReadName
      <3>1. CASE pc' = "filter"
        <4>1. ~Gone(files[dev[slot].dd])
          BY <2>5, <3>1 DEF ReadName, Alive, InitFails, Returns, Plugged, Gone
        <4>2. info = Addr[files[dev[slot].dd]]
          BY <2>5, <4>1 DEF ReadName, Learned, Bound, Phase
        <4> QED
          BY <2>5, <3>1, <4>2 DEF ReadName, InitFails, Returns, Learned, Bound
      <3>2. CASE pc' # "filter"
        BY <2>5, <3>2 DEF ReadName, InitFails, Returns, Learned, Bound, Phase,
           DeviceType, Device
      <3> QED
        BY <3>1, <3>2
    <2>6. CASE SaveFilter
      BY <2>6, IdsType, DevicesAssumption DEF SaveFilter, Fails,
         Succeeds, InitFails, Returns, Learned, Gone, Owned, Open,
         Bound, Descriptors, Plugged, Phase, KernelType, CallType,
         DeviceType, Device
    <2> QED
      BY <1>3, <2>1, <2>2, <2>3, <2>4, <2>5, <2>6 DEF OpenStep
  <1>4. CASE RequestStep
    BY <1>4, IdsType, DevicesAssumption DEF RequestStep, InquireSocket,
       SocketOpens, SocketFails, FreeFds, Returns, Inquire, CloseFile,
       Fails, Succeeds, ConnSocket, ConnIoctl, Learned, Gone, Owned, Open,
       Bound, Descriptors, Plugged, Phase, KernelType, CallType,
       DeviceType, Device
  <1>5. CASE AdapterStep
    BY <1>5, IdsType, DevicesAssumption DEF AdapterStep, Plug, KernelStep,
       Unplug, BringUp, TakeDown, Learned, Gone, Owned, Open, Bound,
       Descriptors, Plugged, Phase, KernelType, CallType, DeviceType,
       Device
  <1>6. CASE UNCHANGED vars
    BY <1>6, IdsType, DevicesAssumption DEF vars, Learned, Gone, Owned,
       Open, Bound, Descriptors, Plugged, Phase, KernelType, CallType,
       DeviceType, Device
  <1> QED
    BY <1>1, <1>2, <1>3, <1>4, <1>5, <1>6 DEF Next

\* A search leaves out only what does not match.
LEMMA StepSearched ==
    ASSUME KernelType, CallType, DeviceType, Phase, Searched, [Next]_vars
    PROVE  Searched'
  <1> USE DEF kernelVars, deviceVars, searchVars
  <1>1. CASE CallerStep
    BY <1>1, IdsType, DevicesAssumption DEF CallerStep, GetRoute, Call,
       Present, DevidAddress, DevidNumber, InitDevice, CloseDevice,
       CloseFile, Fresh, UpdateConnList, Inquiry, Searched, Fruitless,
       Phase, KernelType, CallType
  <1>2. CASE SearchStep
    <2>1. CASE EachSocket
      BY <2>1, IdsType, DevicesAssumption DEF EachSocket, SocketOpens,
         SocketFails, FreeFds, Found, Returns, Searched, Fruitless,
         Phase, Present, KernelType, CallType
    <2>2. CASE EachList
      BY <2>2, IdsType, DevicesAssumption DEF EachList, CloseFile,
         Fails, Succeeds, Found, Returns, Searched, Fruitless, Phase,
         Present, KernelType, CallType
    <2>3. CASE EachItem
      <3> PICK i \in list :
            \/ Matches(unit[i]) /\ Succeeds /\ Found(i) /\ UNCHANGED list
            \/ /\ (~Matches(unit[i]) /\ Succeeds) \/ Fails("ioctl")
               /\ list' = list \ {i}
               /\ UNCHANGED <<pc, pass>>
        BY <2>3 DEF EachItem
      <3>1. /\ pc = "item"
            /\ UNCHANGED <<unit, up, call, want, stable>>
            /\ stable \subseteq Present
        BY <2>3 DEF EachItem, Searched
      <3>2. stable' \subseteq Present'
        BY <3>1 DEF Present
      <3>3. CASE Found(i)
        BY <3>1, <3>2, <3>3, IdsType DEF Found, Returns, Searched, CallType
      <3>4. CASE /\ list' = list \ {i}
                 /\ ~Matches(unit[i]) /\ Succeeds
                 /\ UNCHANGED <<pc, pass>>
        <4>1. \A p \in stable : p[1] = i => Fruitless(p[2], pass)
          BY <3>1, <3>4 DEF Present, Matches, Fruitless, KernelType, CallType
        <4> QED
          BY <3>1, <3>2, <3>4, <4>1 DEF Searched, Succeeds, Fruitless
      <3>5. CASE Fails("ioctl") /\ UNCHANGED <<pc, pass>>
        BY <3>1, <3>2, <3>5 DEF Fails, Searched
      <3> QED
        BY <3>3, <3>4, <3>5
    <2>4. CASE EachEnd
      BY <2>4, IdsType, DevicesAssumption DEF EachEnd, CloseFile, Found,
         Returns, Searched, Fruitless, Phase, Present, KernelType,
         CallType
    <2> QED
      BY <1>2, <2>1, <2>2, <2>3, <2>4 DEF SearchStep
  <1>3. CASE OpenStep
    BY <1>3, IdsType, DevicesAssumption DEF OpenStep, OpenSocket,
       SocketOpens, SocketFails, FreeFds, InitFails, Returns, Bind,
       CloseFile, InfoSocket, InfoReturns, InfoIoctl, Fails, Succeeds,
       ReadName, SaveFilter, Searched, Fruitless, Phase, Present,
       KernelType, CallType
  <1>4. CASE RequestStep
    BY <1>4, IdsType, DevicesAssumption DEF RequestStep, InquireSocket,
       SocketOpens, SocketFails, FreeFds, Returns, Inquire, CloseFile,
       Fails, Succeeds, ConnSocket, ConnIoctl, Searched, Fruitless, Phase,
       Present, KernelType, CallType
  <1>5. CASE AdapterStep
    BY <1>5, IdsType, DevicesAssumption DEF AdapterStep, Plug, KernelStep,
       Unplug, BringUp, TakeDown, Searched, Fruitless, Phase, Present,
       KernelType, CallType
  <1>6. CASE UNCHANGED vars
    BY <1>6, IdsType, DevicesAssumption DEF vars, Searched, Fruitless,
       Phase, Present, KernelType, CallType
  <1> QED
    BY <1>1, <1>2, <1>3, <1>4, <1>5, <1>6 DEF Next

\* A search ends without a result only when it has left out all.
LEMMA StepFindsStable ==
    ASSUME KernelType, CallType, DeviceType, Phase, Searched, FindsStable,
           [Next]_vars
    PROVE  FindsStable'
  <1> USE DEF kernelVars, deviceVars, searchVars
  <1>1. CASE CallerStep
    BY <1>1, IdsType, DevicesAssumption DEF CallerStep, GetRoute, Call,
       Present, DevidAddress, DevidNumber, InitDevice, CloseDevice,
       CloseFile, Fresh, UpdateConnList, Inquiry, FindsStable, Searched,
       Fruitless, Phase, KernelType, CallType
  <1>2. CASE SearchStep
    BY <1>2, IdsType, DevicesAssumption DEF SearchStep, EachSocket,
       SocketOpens, SocketFails, FreeFds, Found, Returns, EachList,
       CloseFile, Fails, Succeeds, EachItem, EachEnd, FindsStable,
       Searched, Fruitless, Phase, Present, KernelType, CallType
  <1>3. CASE OpenStep
    BY <1>3, IdsType, DevicesAssumption DEF OpenStep, OpenSocket,
       SocketOpens, SocketFails, FreeFds, InitFails, Returns, Bind,
       CloseFile, InfoSocket, InfoReturns, InfoIoctl, Fails, Succeeds,
       ReadName, SaveFilter, FindsStable, Searched, Fruitless, Phase,
       Present, KernelType, CallType
  <1>4. CASE RequestStep
    BY <1>4, IdsType, DevicesAssumption DEF RequestStep, InquireSocket,
       SocketOpens, SocketFails, FreeFds, Returns, Inquire, CloseFile,
       Fails, Succeeds, ConnSocket, ConnIoctl, FindsStable, Searched,
       Fruitless, Phase, Present, KernelType, CallType
  <1>5. CASE AdapterStep
    BY <1>5, IdsType, DevicesAssumption DEF AdapterStep, Plug, KernelStep,
       Unplug, BringUp, TakeDown, FindsStable, Searched, Fruitless, Phase,
       Present, KernelType, CallType
  <1>6. CASE UNCHANGED vars
    BY <1>6, IdsType, DevicesAssumption DEF vars, FindsStable, Searched,
       Fruitless, Phase, Present, KernelType, CallType
  <1> QED
    BY <1>1, <1>2, <1>3, <1>4, <1>5, <1>6 DEF Next

\* The number the kernel is asked for is at most the one there is room for.
LEMMA StepInquiryFits ==
    ASSUME KernelType, CallType, DeviceType, Phase, InquiryFits,
           [Next]_vars
    PROVE  InquiryFits'
  <1> USE DEF kernelVars, deviceVars, searchVars
  <1>1. CASE CallerStep
    BY <1>1, IdsType, DevicesAssumption DEF CallerStep, GetRoute, Call,
       Present, DevidAddress, DevidNumber, InitDevice, CloseDevice,
       CloseFile, Fresh, UpdateConnList, Inquiry, InquiryFits, Phase,
       Room, KernelLimit, num_rsp, CallType
  <1>2. CASE SearchStep
    BY <1>2, IdsType, DevicesAssumption DEF SearchStep, EachSocket,
       SocketOpens, SocketFails, FreeFds, Found, Returns, EachList,
       CloseFile, Fails, Succeeds, EachItem, EachEnd, InquiryFits, Phase,
       Room, KernelLimit, num_rsp, CallType
  <1>3. CASE OpenStep
    BY <1>3, IdsType, DevicesAssumption DEF OpenStep, OpenSocket,
       SocketOpens, SocketFails, FreeFds, InitFails, Returns, Bind,
       CloseFile, InfoSocket, InfoReturns, InfoIoctl, Fails, Succeeds,
       ReadName, SaveFilter, InquiryFits, Phase, Room, KernelLimit,
       num_rsp, CallType
  <1>4. CASE RequestStep
    BY <1>4, IdsType, DevicesAssumption DEF RequestStep, InquireSocket,
       SocketOpens, SocketFails, FreeFds, Returns, Inquire, CloseFile,
       Fails, Succeeds, ConnSocket, ConnIoctl, InquiryFits, Phase, Room,
       KernelLimit, num_rsp, CallType
  <1>5. CASE AdapterStep
    BY <1>5, IdsType, DevicesAssumption DEF AdapterStep, Plug, KernelStep,
       Unplug, BringUp, TakeDown, InquiryFits, Phase, Room, KernelLimit,
       num_rsp, CallType
  <1>6. CASE UNCHANGED vars
    BY <1>6, IdsType, DevicesAssumption DEF vars, InquiryFits, Phase,
       Room, KernelLimit, num_rsp, CallType
  <1> QED
    BY <1>1, <1>2, <1>3, <1>4, <1>5, <1>6 DEF Next

-----------------------------------------------------------------------------
(* The invariant and the theorems                                          *)

\* A process that has called nothing yet.
LEMMA InitIInv == Init => IInv
  <1> SUFFICES ASSUME Init
               PROVE  IInv
    OBVIOUS
  <1>1. KernelType /\ DeviceType
    BY FreshType DEF Init, KernelType, DeviceType
  <1>2. CallType
    BY AddressesType DEF Init, CallType, Pcs
  <1>3. Phase /\ Plugged /\ Searched /\ FindsStable /\ InquiryFits
    BY DevicesAssumption
       DEF Init, Phase, Plugged, Searched, FindsStable, InquiryFits
  <1>4. Owned /\ Descriptors /\ Learned
    BY DevicesAssumption
       DEF Init, Owned, Open, Descriptors, Bound, Learned, Fresh
  <1>5. failed \in BOOLEAN
    BY DEF Init
  <1> QED
    BY <1>1, <1>2, <1>3, <1>4, <1>5 DEF IInv, TypeOK

LEMMA StepIInv == IInv /\ [Next]_vars => IInv'
  <1> SUFFICES ASSUME IInv, [Next]_vars
               PROVE  IInv'
    OBVIOUS
  <1> USE DEF IInv, TypeOK
  <1>1. TypeOK'
    BY StepKernelType, StepCallType, StepDeviceType, StepFailed
  <1>2. Phase' /\ Plugged'
    BY StepPhase, StepPlugged
  <1>3. Owned' /\ Descriptors' /\ Learned'
    BY StepOwned, StepDescriptors, StepLearned
  <1>4. Searched' /\ FindsStable' /\ InquiryFits'
    BY StepSearched, StepFindsStable, StepInquiryFits
  <1> QED
    BY <1>1, <1>2, <1>3, <1>4

LEMMA Invariant == Spec => []IInv
  BY InitIInv, StepIInv, PTL DEF Spec

\* The variables have their types, whatever the kernel and the caller do.
THEOREM TypeCorrect == Spec => []TypeOK
  <1>1. IInv => TypeOK
    BY DEF IInv
  <1> QED
    BY <1>1, Invariant, PTL

\* No path through hci_init, hci_close, the searches and the requests leaks a
\* descriptor or closes one of others: between two calls every open descriptor
\* is the caller's, or that of one device.
THEOREM NoDescriptorLeaks == Spec => []NoLeak
  <1>1. IInv => NoLeak
    BY DEF IInv, Owned, Open, NoLeak
  <1> QED
    BY <1>1, Invariant, PTL

\* hci_init returns a device with the address of the adapter its socket is
\* bound to, although it looks the adapter up by number three times.
THEOREM AddressOfSocket == Spec => []AddressIsSockets
  <1>1. IInv => AddressIsSockets
    BY DEF IInv, Descriptors, Learned, AddressIsSockets
  <1> QED
    BY <1>1, Invariant, PTL

\* hci_devid and hci_get_route find an adapter that stays up during the call,
\* whatever the others do meanwhile.
THEOREM StableIsFound == Spec => []FindsStable
  <1>1. IInv => FindsStable
    BY DEF IInv
  <1> QED
    BY <1>1, Invariant, PTL

\* hci_inquiry never returns more responses than its buffer has room for.
THEOREM InquiryFitsBuffer == Spec => []InquiryFits
  <1>1. IInv => InquiryFits
    BY DEF IInv
  <1> QED
    BY <1>1, Invariant, PTL
===============================================================================
