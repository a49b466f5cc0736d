-------------------------------- MODULE BleScan --------------------------------
(***************************************************************************)
(* hci_scan_ble (ble.c): one process scans for advertising LE devices.     *)
(*                                                                         *)
(* A scan installs a filter of its own, sets the scan parameters (after    *)
(* switching off a scan that is already on, if that is why the controller  *)
(* refuses them), enables scanning, collects the reports of devices that   *)
(* tell a name into the caller's list until the scan time is up, disables  *)
(* scanning and puts back the filter that hci_init saved.                  *)
(*                                                                         *)
(* Each request is a run of hci_send_req, reduced here to what module      *)
(* HciExchange says of it: it borrows the filter, writes one command,      *)
(* drops every event in front of the answer, and returns "ok", "EIO", or   *)
(* "other" when the time is up; when nothing answered but the wrapper read *)
(* its uninitialised status, either of the first two.                      *)
(***************************************************************************)
EXTENDS HciRequests, Integers, Sequences

CONSTANTS
    Devices,        \* advertising devices, by address
    Rssi,           \* signal strengths
    hci_of,         \* the filter hci_init saved
    ble_list_len,   \* the caller's list
    scan_time,      \* in ticks of the clock
    Faults,         \* what may fail, out of FaultKinds
    MaxScans,       \* bound: calls of hci_scan_ble
    MaxReports,     \* bound: advertising reports
    QueueLen,       \* capacity of the socket's receive queue
    NoEntry

FaultKinds == {"filter", "write", "timeout", "garbage", "refuse", "loop"}

ASSUME ScanAssumption ==
    /\ hci_of \in Filter
    /\ {ble_list_len, scan_time, MaxScans, MaxReports, QueueLen} \subseteq Nat
    /\ Faults \subseteq FaultKinds

SetParams == Plain("hci_le_set_scan_parameters", OGF_LE_CTL, 11)
SetEnable == Plain("hci_le_set_scan_enable", OGF_LE_CTL, 12)

\* The request that is made at each label.
Ask == [params  |-> [req |-> SetParams, arg |-> "set"],
        disable |-> [req |-> SetEnable, arg |-> "off"],
        again   |-> [req |-> SetParams, arg |-> "set"],
        enable  |-> [req |-> SetEnable, arg |-> "on"],
        stop    |-> [req |-> SetEnable, arg |-> "off"]]
Asking == DOMAIN Ask

\* The requests of all scans are numbered; a command has the number of its
\* request.
MaxAsked == 5 * MaxScans
Request(label, n) == [id |-> n, req |-> Ask[label].req, arg |-> Ask[label].arg]
Command == {Request(l, n) : l \in Asking, n \in 1 .. MaxAsked}

\* An answer carries the number of its command, a report that of the scan
\* during which it was sent.  A report tells a name, or it does not.
Report(dev, rssi, named, n) ==
    [evt |-> EVT_LE_META_EVENT, opcode |-> 0,
     sub |-> EVT_LE_ADVERTISING_REPORT,
     status |-> rssi, arg |-> dev, id |-> n, named |-> named]
Answer(c, status) ==
    [evt |-> EVT_CMD_COMPLETE, opcode |-> c.req.opcode, sub |-> 0,
     status |-> status, arg |-> c.arg, id |-> c.id, named |-> FALSE]

IsReport(e) == e.evt = EVT_LE_META_EVENT /\ e.sub = EVT_LE_ADVERTISING_REPORT

Event == {Report(d, r, b, n) : d \in Devices, r \in Rssi, b \in BOOLEAN,
                               n \in 0 .. MaxScans}
         \cup {Answer(c, s) : c \in Command, s \in {0, 1}}

Entry == [dev : Devices, rssi : Rssi]

VARIABLES
    pc,         \* where the process is
    waiting,    \* has the request of this label been written?
    elapsed,    \* ticks since the scan began
    ble_list,   \* the caller's list, numbered from 0
    counter,    \* entries in use, -1 after a failure in the loop
    ret,        \* what the last scan returned
    filter,     \* the filter of the socket
    rxq,        \* its receive queue
    cmdq,       \* commands the controller has yet to execute
    scanning,   \* is the controller scanning?
    scans,      \* scans begun
    asked,      \* requests made
    reports,    \* reports sent
    clean,      \* history: every request of the last scan got its own answer
    heard       \* history: the named reports the last scan has read

procVars == <<pc, waiting, elapsed, ble_list, counter, ret, scans, asked,
              clean, heard>>
ctrlVars == <<cmdq, scanning, reports>>
vars == <<procVars, ctrlVars, filter, rxq>>

Pcs == Asking \cup {"idle", "fail", "loop", "select", "reset"}

TypeOK ==
    /\ pc \in Pcs
    /\ waiting \in BOOLEAN
    /\ elapsed \in 0 .. scan_time + 1
    /\ ble_list \in [0 .. ble_list_len - 1 -> Entry \cup {NoEntry}]
    /\ counter \in -1 .. ble_list_len
    /\ ret \in -1 .. ble_list_len
    /\ filter \in Filter
    /\ rxq \in Seq(Event)
    /\ cmdq \in Seq(Command)
    /\ scanning \in BOOLEAN
    /\ scans \in 0 .. MaxScans
    /\ asked \in 0 .. MaxAsked
    /\ reports \in 0 .. MaxReports
    /\ clean \in BOOLEAN
    /\ heard \in Seq(Event)

\* Another program may have left the controller scanning.
Init ==
    /\ pc = "idle"
    /\ waiting = FALSE
    /\ elapsed = 0
    /\ ble_list = [i \in 0 .. ble_list_len - 1 |-> NoEntry]
    /\ counter = 0
    /\ ret = 0
    /\ filter = hci_of
    /\ rxq = <<>>
    /\ cmdq = <<>>
    /\ scanning \in BOOLEAN
    /\ scans = 0
    /\ asked = 0
    /\ reports = 0
    /\ clean = FALSE
    /\ heard = <<>>

-----------------------------------------------------------------------------
(* The process: beginning, and making requests                             *)

Begin ==
    /\ pc = "idle"
    /\ scans < MaxScans
    /\ scans' = scans + 1
    /\ elapsed' = 0
    /\ heard' = <<>>
    /\ counter' = 0
    /\ \/ /\ filter' = ScanFilter
          /\ clean' = TRUE
          /\ pc' = "params"
          /\ UNCHANGED ret
       \/ /\ "filter" \in Faults
          /\ clean' = FALSE
          /\ ret' = -1
          /\ UNCHANGED <<filter, pc>>
    /\ UNCHANGED <<waiting, ble_list, asked, rxq, ctrlVars>>

\* hci_send_req installs its filter and writes the command.
Write ==
    /\ pc \in Asking
    /\ ~waiting
    /\ waiting' = TRUE
    /\ filter' = RequestFilter(Ask[pc].req)
    /\ asked' = asked + 1
    /\ cmdq' = Append(cmdq, Request(pc, asked + 1))
    /\ UNCHANGED <<pc, elapsed, ble_list, counter, ret, scans, clean, heard,
                   rxq, scanning, reports>>

\* Mutated: the scan is given up when the parameters are refused.
AfterNoRetry(label, r) ==
    IF label = "stop" THEN "reset"
    ELSE IF r # "ok" THEN "fail"
    ELSE [params |-> "enable", disable |-> "again", again |-> "enable",
          enable |-> "loop"][label]

\* Where the scan goes on, by the request and what it returned.
After(label, r) ==
    IF label = "stop" THEN "reset"
    ELSE IF label = "params" /\ r = "EIO" THEN "disable"
    ELSE IF r # "ok" THEN "fail"
    ELSE [params |-> "enable", disable |-> "again", again |-> "enable",
          enable |-> "loop"][label]

\* hci_send_req fails before the command is written.
WriteFails ==
    /\ pc \in Asking
    /\ ~waiting
    /\ "write" \in Faults
    /\ \E r \in {"EIO", "other"} : pc' = After(pc, r)
    /\ clean' = FALSE
    /\ UNCHANGED <<waiting, elapsed, ble_list, counter, ret, scans, asked,
                   heard, ctrlVars, filter, rxq>>

\* hci_send_req puts the filter of the scan back and returns r.
Returns(r) ==
    /\ waiting' = FALSE
    /\ filter' = ScanFilter
    /\ pc' = After(pc, r)

IsAnswer(e) == Answers(Request(pc, asked), e)

\* Mutated: what is not the answer is left for the caller to read.
SkippedKept(e) == IF IsReport(e) THEN <<e>> ELSE <<>>

\* An event in front of the answer is dropped.
Skipped(e) == <<>>

Wait ==
    /\ pc \in Asking
    /\ waiting
    /\ rxq # <<>>
    /\ LET e == Head(rxq) IN
         \/ /\ IsAnswer(e)
            /\ Returns(IF e.status = 0 THEN "ok" ELSE "EIO")
            /\ clean' = (clean /\ e.id = asked)
            /\ rxq' = Tail(rxq)
         \/ /\ ~IsAnswer(e)
            /\ rxq' = Tail(rxq) \o Skipped(e)
            /\ UNCHANGED <<waiting, filter, pc, clean>>
    /\ UNCHANGED <<elapsed, ble_list, counter, ret, scans, asked, heard,
                   ctrlVars>>

\* The request ends without its answer: its time is up, or it failed and its
\* wrapper looked at a status nobody wrote.  The command is not withdrawn.
GiveUp ==
    /\ pc \in Asking
    /\ waiting
    /\ \/ "timeout" \in Faults /\ Returns("other")
       \/ "garbage" \in Faults /\ \E r \in {"ok", "EIO"} : Returns(r)
    /\ clean' = FALSE
    /\ UNCHANGED <<elapsed, ble_list, counter, ret, scans, asked, heard, rxq,
                   ctrlVars>>

\* return -1: neither the filter nor the controller is looked after.
Fail ==
    /\ pc = "fail"
    /\ ret' = -1
    /\ pc' = "idle"
    /\ UNCHANGED <<waiting, elapsed, ble_list, counter, scans, asked, clean,
                   heard, ctrlVars, filter, rxq>>

-----------------------------------------------------------------------------
(* The process: collecting reports                                         *)

\* Mutated: the time is looked at only when there is nothing to read.
ScanOverWhenQuiet == elapsed > scan_time /\ rxq = <<>>

ScanOver == elapsed > scan_time

Loop ==
    /\ pc = "loop"
    /\ pc' = IF ScanOver THEN "stop" ELSE "select"
    /\ UNCHANGED <<waiting, elapsed, ble_list, counter, ret, scans, asked,
                   clean, heard, ctrlVars, filter, rxq>>

\* A second without an event, or a read that is to be repeated.
Quiet ==
    /\ pc = "select"
    /\ rxq = <<>> \/ "loop" \in Faults
    /\ pc' = "loop"
    /\ UNCHANGED <<waiting, elapsed, ble_list, counter, ret, scans, asked,
                   clean, heard, ctrlVars, filter, rxq>>

\* Mutated: the scan returns at once.
LoopFailsReturns ==
    /\ pc = "select"
    /\ "loop" \in Faults
    /\ counter' = -1
    /\ pc' = "fail"
    /\ UNCHANGED <<waiting, elapsed, ble_list, ret, scans, asked, clean, heard,
                   ctrlVars, filter, rxq>>

\* select or read fails, or read finds the end of the file.
LoopFails ==
    /\ pc = "select"
    /\ "loop" \in Faults
    /\ counter' \in {-1, counter}
    /\ pc' = "stop"
    /\ UNCHANGED <<waiting, elapsed, ble_list, ret, scans, asked, clean, heard,
                   ctrlVars, filter, rxq>>

\* Mutated: the entry added last is not looked at.
FindsLastMissed(dev) == {i \in 0 .. counter - 2 : ble_list[i].dev = dev}

\* ble_find_index_by_address: the entries of a device, at most one.
Finds(dev) == {i \in 0 .. counter - 1 : ble_list[i].dev = dev}

\* Mutated: a full list is not noticed.
PlaceUnbounded(dev) == IF Finds(dev) # {} THEN Finds(dev) ELSE {counter}

\* Where a report is stored: the entry of its device, else the next free one,
\* else nowhere.
Place(dev) ==
    IF Finds(dev) # {} THEN Finds(dev)
    ELSE IF counter < ble_list_len THEN {counter} ELSE {}

\* An event is read.  It counts if it is an advertising report with a name.
Read ==
    /\ pc = "select"
    /\ rxq # <<>>
    /\ rxq' = Tail(rxq)
    /\ LET e == Head(rxq) IN
         \/ /\ IsReport(e) /\ e.named
            /\ heard' = Append(heard, e)
            /\ \/ \E i \in Place(e.arg) :
                    /\ \A j \in Place(e.arg) : i <= j
                    /\ ble_list' = [ble_list EXCEPT ![i] =
                                       [dev |-> e.arg, rssi |-> e.status]]
                    /\ counter' = IF i = counter THEN i + 1 ELSE counter
               \/ /\ Place(e.arg) = {}
                  /\ UNCHANGED <<ble_list, counter>>
         \/ /\ ~(IsReport(e) /\ e.named)
            /\ UNCHANGED <<heard, ble_list, counter>>
    /\ pc' = "loop"
    /\ UNCHANGED <<waiting, elapsed, ret, scans, asked, clean, ctrlVars,
                   filter>>

\* The filter hci_init saved is installed, which may fail unnoticed.
Reset ==
    /\ pc = "reset"
    /\ \/ filter' = hci_of /\ UNCHANGED clean
       \/ "filter" \in Faults /\ clean' = FALSE /\ UNCHANGED filter
    /\ ret' = counter
    /\ pc' = "idle"
    /\ UNCHANGED <<waiting, elapsed, ble_list, counter, scans, asked, heard,
                   ctrlVars, rxq>>

Tick ==
    /\ pc # "idle"
    /\ elapsed <= scan_time
    /\ elapsed' = elapsed + 1
    /\ UNCHANGED <<pc, waiting, ble_list, counter, ret, scans, asked, clean,
                   heard, ctrlVars, filter, rxq>>

-----------------------------------------------------------------------------
(* The kernel and the controller                                           *)

Deliver(e) ==
    rxq' = IF Passes(filter, e) /\ Len(rxq) < QueueLen THEN Append(rxq, e)
                                                       ELSE rxq

\* The parameters are refused while the controller is scanning; a controller
\* may refuse any other command too.
Execute ==
    /\ cmdq # <<>>
    /\ cmdq' = Tail(cmdq)
    /\ LET c == Head(cmdq) IN
         \/ /\ c.req = SetParams
            /\ UNCHANGED <<scanning, clean>>
            /\ Deliver(Answer(c, IF scanning THEN 1 ELSE 0))
         \/ /\ c.req = SetEnable
            /\ scanning' = (c.arg = "on")
            /\ UNCHANGED clean
            /\ Deliver(Answer(c, 0))
         \/ /\ "refuse" \in Faults
            /\ clean' = FALSE
            /\ UNCHANGED scanning
            /\ Deliver(Answer(c, 1))
    /\ UNCHANGED <<pc, waiting, elapsed, ble_list, counter, ret, scans, asked,
                   heard, reports, filter>>

Advertise(dev, rssi, named) ==
    /\ scanning
    /\ reports < MaxReports
    /\ reports' = reports + 1
    /\ Deliver(Report(dev, rssi, named, IF pc = "idle" THEN 0 ELSE scans))
    /\ UNCHANGED <<procVars, cmdq, scanning, filter>>

-----------------------------------------------------------------------------
Step ==
    \/ Write \/ WriteFails \/ Wait \/ GiveUp \/ Fail
    \/ Loop \/ Quiet \/ LoopFails \/ Read \/ Reset

Next ==
    \/ Begin \/ Step \/ Tick
    \/ Execute
    \/ \E dev \in Devices, rssi \in Rssi, named \in BOOLEAN :
         Advertise(dev, rssi, named)

Spec == Init /\ [][Next]_vars

\* The process goes on, the clock runs, and a request ends (CallReturns of
\* HciSendReq): without an answer it gives up.
FairSpec == Spec /\ WF_vars(Step) /\ WF_vars(Tick)

-----------------------------------------------------------------------------
(* Properties                                                              *)

\* The places of the first and of the last report of a device that was heard.
FirstHeard(dev) ==
    CHOOSE k \in DOMAIN heard :
        heard[k].arg = dev /\ \A j \in 1 .. k - 1 : heard[j].arg # dev
LastHeard(dev) ==
    CHOOSE k \in DOMAIN heard :
        /\ heard[k].arg = dev
        /\ \A j \in k + 1 .. Len(heard) : heard[j].arg # dev
HeardDevices == {heard[k].arg : k \in DOMAIN heard}

\* The list a scan fills is what it heard: the devices that told a name, each
\* once, in the order in which they were first heard and as many as the list
\* holds, with the strength of the last report of each.
ListIsWhatWasHeard ==
    counter >= 0 =>
        /\ \A i \in 0 .. counter - 1 :
             /\ ble_list[i].dev \in HeardDevices
             /\ ble_list[i].rssi = heard[LastHeard(ble_list[i].dev)].status
             /\ \A j \in 0 .. i - 1 :
                  FirstHeard(ble_list[j].dev) < FirstHeard(ble_list[i].dev)
        /\ \A dev \in HeardDevices :
             \/ \E i \in 0 .. counter - 1 : ble_list[i].dev = dev
             \/ /\ counter = ble_list_len
                /\ \A i \in 0 .. counter - 1 :
                     FirstHeard(ble_list[i].dev) < FirstHeard(dev)

\* No report of an earlier scan, nor one that came in between two scans, gets
\* into the list: the requests in front of the loop have emptied the queue.
\* (Of a request that ended without its answer this cannot be said.)
NoStaleReport ==
    clean => \A k \in DOMAIN heard : heard[k].id = scans

\* A scan whose requests were all answered by a controller that refuses no
\* command without reason starts, even if an earlier scan or another program
\* has left the controller scanning: it ends with a count, or with the failure
\* of the loop.
CleanScanStarts == ~(clean /\ pc = "fail")

\* Such a scan leaves no trace, whether its loop ended well or failed: the
\* controller has stopped scanning, no command is outstanding, and the filter
\* is the saved one.
CleanScanLeavesNoTrace ==
    (clean /\ pc = "idle") => ~scanning /\ cmdq = <<>> /\ filter = hci_of

\* A scan returns, whatever the controller does.
ScanReturns == pc # "idle" ~> pc = "idle"

\* What the comments of hci_init and hci_scan_ble say ("save original filter",
\* "reset filter"): when a scan has returned, the filter is the saved one.
FilterReset == (pc = "idle" /\ scans > 0) => filter = hci_of
=============================================================================
