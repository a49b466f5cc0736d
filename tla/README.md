# linux-ble in TLA+

This directory holds TLA+ models of `zlargon/linux-ble`, a small C library
over the Linux HCI socket interface (`src/src/ble.c` on top of a trimmed
`bluez/hci.c`), with the TLC runs that check them and the theorems that TLAPS
proves about them. Line numbers refer to `src/src/ble.c` and
`src/src/bluez/hci.c`.

The library has no threads. What makes it hard is what it talks to: a kernel
that filters and queues events on its own schedule, a controller that answers
when it likes, completes commands in any order and never learns that somebody
has stopped waiting, and other processes with sockets on the same adapter.

## 1. Inventory

| Component | State it keeps | Operations | What makes it right |
|---|---|---|---|
| **Requests** (`hci_send_req`, `hci_send_cmd`; hci.c:1103-1313) | the socket's filter (borrowed), the socket's receive queue, the start time, what will be returned | save filter, install another, `writev`, loop of `select`/`read`/classify, restore | the filter is handed back on every path; the answer is let through and recognised; nothing else is; the verdict is the controller's; the call ends |
| **Wrappers** (68 functions; hci.c:1315-3171) | none of their own (an answer buffer on the stack) | fill a `struct hci_request`, call `hci_send_req`, look at the status | each names the event that answers its command, and looks at the status |
| **Scanner** (`hci_scan_ble`; ble.c:97-346) | socket filter, the controller's scanning state, the caller's list and counter | set filter, set parameters (disable and retry on EIO), enable, receive loop, disable, reset filter | the list is what was heard; leftovers of earlier scans do no harm; nothing is left behind; it returns |
| **Name parser** (`eir_parse_name`; ble.c:427-458) | index into the report | one turn per field | finds the first name; stays in the report and the buffer |
| **Connections** (`ble_connect`, `ble_disconnect`; ble.c:349-399) | the handle of each device, in the list that a scan has filled | one request each | a handle belongs to a live link of that device; each link has a holder; a disconnect ends the device's own link |
| **Life cycle** (`hci_init`, `hci_close`, `hci_update_conn_list`; ble.c:19-94) | `HCIDevice`: descriptor, address, saved filter, connection list | open, read, save; close; list | no descriptor is leaked; what is in use was opened |
| **Adapters** (`hci_for_each_dev`, `hci_get_route`, `hci_devid`, `hci_devinfo`, `hci_devba`, `hci_open_dev`; hci.c:849-1098) | none (the kernel's adapter table) | walk, match, open | an adapter that stays is found, and what is stored about it is about the one the socket is bound to |
| **Inquiry** (`hci_inquiry`; hci.c:991-1058) | a result buffer | one ioctl | the result buffer fits |
| **Filter and bit helpers** (`hci_lib.h`) | - | set, clear, test | no bit spills into that of another event or type |
| **Byte order** (`bluetooth.h`) | - | read and write numbers of 16 to 128 bits | the same layout on every machine |
| **Address conversions** (`bluetooth.c`) | - | parse, format, swap | round trip |
| **Names and maps** (`hci_*tostr`, `hci_strto*`, `lmp_*`, `pal_*`) | - | lookup, layout in lines | the names printed for a value are read back as this value, once a caller puts commas for the blanks; lines fit |
| **Constant tables** (`bt_compidtostr`, `bt_error`, `nameof.c`) | - | lookup | - |
| **Examples, draft** (`example/`, `draft/ble.h`) | - | programs that call the library | read for how the library is used |

How they interact: `ble.c` calls wrappers, a wrapper calls `hci_send_req`, and
that is the only place where a command is written. The socket's filter is
shared state between `hci_init` (saves it), `hci_scan_ble` (installs its own,
puts back the saved one) and every `hci_send_req` inside (borrows whatever is
installed). The socket's queue is shared by all of them in turn: what one
leaves in it the next one reads. The controller is shared by everybody,
including other processes.

What is hard to test in this code is listed in `PROJECT.json` under `hazards`,
each at its line: borrowed state on many error paths, answers that outlive
their request, answers to other processes, numbers that collide (subevent and
event codes), leftovers of an earlier scan, handles that outlive their link,
adapters that come and go between two system calls, waits that must end.

## 2. Modules

| Module | Models | Lines of code |
|---|---|---|
| `HciPacket` | event codes, the socket filter, the kernel's test, how the receive loop classifies an event | hci.c:1142-1154, 1224-1303; hci_lib.h; hci.h |
| `HciRequests` | the 68 wrappers: opcode, awaited event, how the answer is read | hci.c:1315-3171 |
| `HciSendReq` | `hci_send_req`, with kernel, clock, controller and other processes | hci.c:1062-1313 |
| `HciCommand` | abstract specification: what a request promises its caller | - |
| `HciOutcome` | how a request can end: verdict, and what is left in the queue | hci.c:1163-1312 |
| `HciExchange` | abstract specification: a request as an exchange over the socket, as scans and links use it | - |
| `MCHciSendReq` | instances of `HciSendReq` | - |
| `HciSendReqProofs` | theorems about `HciSendReq`: types, filter, refinement, matching answers | - |
| `HciAnswersProofs` | theorems about `HciSendReq`: answers in flight, from the controller to the caller; refinement of `HciExchange` | - |
| `QueueProofs` | lemmas about bounded queues of events, for the proofs of requests and scans | - |
| `BleScan` | `hci_scan_ble`, on top of requests | ble.c:97-346, 416-424 |
| `MCBleScan` | instances of `BleScan` | - |
| `BleScanProofs` | theorems about `BleScan` | - |
| `EirName` | `eir_parse_name` | ble.c:427-458 |
| `EirNameProofs` | theorems about `EirName` | - |
| `BleLinks` | `ble_connect`, `ble_disconnect`, with the controller's links | ble.c:308-326, 349-399; hci.c:1133-1378, 3055-3102 |
| `MCBleLinks` | instance of `BleLinks` | - |
| `BleLinksProofs` | theorems about `BleLinks` | - |
| `HciDevices` | adapters, sockets, `hci_init`, `hci_close`, connection list, inquiry | ble.c:18-94; hci.c:849-1098 |
| `MCHciDevices` | instance of `HciDevices` | - |
| `HciDevicesProofs` | theorems about `HciDevices` | - |
| `BdAddr` | addresses and their text | bluetooth.c:42-127 |
| `ByteOrder` | byte order and unaligned access | bluetooth.h:139-394 |
| `HciMaps` | tables of names, and the functions over them | hci.c:54-152, 200-846 |
| `HciFilter` | the words of a filter and their bits | hci_lib.h:173-236 |
| `Conversions` | a caller of the functions of these four modules | - |
| `MCConversions` | inputs for it | - |
| `ConversionsProofs` | theorems about `BdAddr`, `ByteOrder` and `HciFilter`, through `Conversions` | - |

`HciPacket` and `HciRequests` are shared: `HciSendReq`, `BleScan` and
`BleLinks` classify events with the same `Answers` and `Refuses` and install
the same `RequestFilter`, so a mistake in the receive loop would show in all
three. `Conversions` compares `HciFilter` with the filter of `HciPacket`.

A definition whose name ends in something like `NoRetry` or `WhenQuiet` and
whose comment begins with "Mutated:" is a plausible mistake in the definition
that follows it. It is used by no specification: it is there to show that the
properties notice it.

### HciSendReq

One process is one program with one raw socket on the adapter; `Procs` share
the adapter. `pc` is the place in `hci_send_req`: `idle` (outside), `send`
(hci.c:1158), `check` (1163), `select` (1180-1304), `end` (1306).

| Action | Code |
|---|---|
| `Begin` | 1133-1156: clock, `getsockopt`, `setsockopt` |
| `BeginFails` | 1140, 1155 |
| `Send`, `SendFails` | 1158-1160, with 1125-1129 |
| `TimeOut`, `Proceed` | 1162-1187: the head of the loop |
| `SelectAgain` | 1189 (half a second without an event), 1196-1199 |
| `ReceiveFails` | 1190, 1200-1204, 1212: `select` fails, `read` fails, end of file |
| `Receive` | 1192-1304: an event is read, and ends the loop or not |
| `Return` | 1306-1313 and the end of the wrapper |
| `SetFilter`, `ReadBetween` | what `hci_scan_ble` does to the same socket between requests |
| `Tick`, `SetClockBack` | `gettimeofday`, the wall clock |
| `Deliver` | the kernel: filter test and bounded queue of every socket |
| `Refuse`, `Execute`, `Accept`, `Complete`, `Unsolicited` | the controller |

Two things deserve a word.

*The hidden `ret`.* The loop declares an inner `int ret` (hci.c:1180) that
hides the one `hci_send_req` returns. Everything assigned after `select` is
lost, so the model's `ret` is the outer one and `Receive` and `ReceiveFails`
leave it alone. That is not a simplification: it is what the C says, and the
run `send_req_failure` shows the consequence.

*The answer buffer.* When no answer was copied, a wrapper reads either zeros it
put there (`Zeroed`: two wrappers clear it) or an uninitialised variable, which
is a free choice in the model (`StatusRead`). `Unchecked` wrappers pass no
buffer and look at nothing.

The field `id` of an event and the variables `base`, `outcome`, `abandoned`
and `dropped` are history: no guard of the process, the kernel or the
controller reads them; properties do.

### BleScan

`pc` names the request under way (`params`, `disable`, `again`, `enable`,
`stop`) or the place in the receive loop. A request is not modelled a second
time in full: `Write` borrows the filter and writes the command, `Wait` drops
events until `HciPacket!Answers` holds, `GiveUp` is every way a request ends
without an answer: its time is up ("timeout", result `other`), or it failed
behind the hidden `ret` and the wrapper read an uninitialised status
("garbage", results `ok` or `EIO`). `After` is the nest of conditions in
ble.c:119-160. The requests of the module are justified by what is shown of
`HciSendReq`: the filter is handed back (`FilterRestored`, proved), at most one
command is written (`KeepsPromise`, proved), only a matching opcode answers
(`AnswerMatches`, proved), it is an exchange as `HciExchange` describes it
(`KeepsExchange`, proved), and it ends (`CallReturns`, model-checked). That
`Wait` and `GiveUp` are the steps of such an exchange, no more and no fewer, is
proved, too (`ScanRequestsAreExchanges`), and likewise for `BleLinks`.

Simplified: a request's own `setsockopt` or `writev` failing is one case
("write"), whose errno is free; the `setsockopt` that ends a request does not
fail; the clock is not set back; and a report is one entry that tells a name or
does not, the parser having a module of its own.

`clean` says of the last scan that each of its requests was ended by the answer
to its own command and that no call failed. The weaker reading "every request
got an answer" is not enough: the answer of a command given up in one scan may
end the request of the same opcode in the next, whose own answer then waits for
the one after it, and so on. The properties that speak of `clean` were first
stated in the weaker form and refuted by exactly that chain.

### EirName

The initial states choose every report of up to `MaxLen` bytes of data and the
byte behind it (the signal strength). The four actions are the ways through one
turn of the loop, and the exit at its head.

### BleLinks

One process, its `BLEDevice`s, and a controller that sets up and ends links.
`handle` is `BLEDevice.handle`, where 0 stands for "not connected" although the
controller may use 0; `links` is what the controller has. A call is one
request, reduced as in `BleScan`.

| Action | Code |
|---|---|
| `Connect`, `Disconnect` | ble.c:349-372, 384-390, up to the command written by `hci_send_req` |
| `Wait` | hci.c:1192-1304, then the wrapper and the rest of the call |
| `GiveUp` | hci.c:1162-1168 (time is up), 1189-1212 (hidden `ret`: garbage) |
| `Return` (in both) | ble.c:372-381, 392-398: the handle is stored, cleared or kept |
| `Rescan` | ble.c:308-326: a further scan into the same list stores each device in the entry where it is heard now, and every field but `handle` |
| `Accept`, `Refuse`, `Establish`, `EstablishFails`, `End`, `Lose` | the controller |
| `OtherConnects`, `OtherDisconnects`, `Unsolicited` | other programs, and events whose number is that of an awaited one |

`cause` is history. It collects what may part the library's view from the
controller's: a connect given up whose link was set up later ("late link"), a
disconnect given up that took effect later ("late end"), a call ended by an
event about another command or link ("crossed"), a status nobody wrote
("garbage"), a link lost, a disconnect of a device that is not connected, and a
scan into the list that holds the handles ("rescan"). `Rescan` moves the handles
from device to device and leaves the rest of a scan to `BleScan`. No guard reads it. Each property excuses the causes it must and no other: with
any single cause taken off a list, TLC finds a counterexample.

### HciDevices

One process with up to two `HCIDevice`s calls `hci_init`, `hci_close`,
`hci_update_conn_list`, `hci_get_route`, `hci_devid` and `hci_inquiry`, one
after another, in any order that opens before it uses. A step is a system call
with the code up to the next, and between any two the kernel's table of
adapters may change (`Plug`, `Unplug`, `BringUp`, `TakeDown`). A unit is one
appearance of an adapter, so that "the same number" and "the same adapter" are
different things. `pc` names the system call that comes next: `each`, `list`,
`item` (`hci_for_each_dev`), `open`, `bind` (`hci_open_dev`), `info`, `devinfo`
(`hci_devinfo`), `name`, `filter` (rest of `hci_init`), `inquire`, `inquiry`,
`conn`, `connlist`. `stable` is history: the adapters that were there and up
from the beginning of the call; `failed` says that a system call of it failed.
A caller closes what it has opened or tried to open, once. `call`, `pass`,
`want` and `dev_id` keep their values after a call for the properties to read;
`ret` is 0 until a call returns. The adapters of a list are looked at in the
order of the kernel, of which the code knows nothing: `EachItem` takes any.
`hci_for_each_dev` asks for `HCI_MAX_DEV` adapters and does not see a
seventeenth, so `FindsStable` is about up to sixteen (`DevicesAssumption`).
`Next` is the disjunction of the caller's steps, those of a search, of an open,
of the other requests, and the kernel's.

### Conversions

The pure functions are operators, and `Conversions` is the program that calls
them: each step is one call with an input out of the sets given by
`MCConversions`, and the state shows what came out. Only the calls that build a
filter follow one another. A word of bits is the set of its bits, a number in
memory the sequence of its bytes, a text the sequence of its characters, or
of its names and the blanks and commas between them. `hci_bit2str` prints a
blank behind each name (hci.c:80) and `hci_str2bit` splits at commas (hci.c:97):
the one's output is no input of the other, and the caller replaces the blanks
(`WithCommas`).

## 3. Runs

| Run | Checks | Bounds, and why they are enough |
|---|---|---|
| `send_req_faults` | `TypeOK`, `FilterRestored`, `NoStaleAnswer`, `KeepsPromise`, `KeepsExchange`, `CallReturns` | one process, two calls (a leftover or late answer of the first meets the second), two kinds of request, all system calls may fail, an intermediate filter, other events without bound, one tick set back |
| `send_req_all` | `NoLostAnswer`, `VerdictIsControllers` | all 68 wrappers, one call each (wrappers share no state), unsolicited events of three kinds, one of whose subevents collides with an event code, one tick set back |
| `send_req_two` | `AnswerMatches`, `NoLostAnswer`, `VerdictIsControllers` | two processes, two devices, one request answered by device and one by opcode: the least in which one process sees the other's answers |
| `send_req_failure` | `FailureReported`, **violated** | one call whose read fails |
| `scan_list` | `TypeOK`, `ListIsWhatWasHeard`, `ScanReturns` | three devices for a list of two, four reports: a repeated device, a full list, an update after it is full; requests that time out, writes and system calls that fail. No symmetry, as `ScanReturns` is temporal |
| `scan_again` | `NoStaleReport`, `CleanScanStarts`, `CleanScanLeavesNoTrace` | two scans, one report, requests that time out, fail or are refused, a failing loop, and a controller found scanning |
| `scan_filter` | `FilterReset`, **violated** | one scan whose first request times out |
| `eir_name` | `TypeOK`, `FindsFirstName`, `StaysInReport` | five bytes hold two fields and a malformed third; the six byte values are the lengths that fit, both name types and another; a buffer for one byte |
| `eir_rssi` | `NameInData`, **violated** | four bytes |
| `links` | `TypeOK`, `NoOrphan`, `NoStaleHandle`, `EndsOwnLink` | two devices, one of another program, handles 0 and 1 (0 is the special one), four requests: connect, give up, connect again under a handle given out again, disconnect; a scan into the same list between any two of them. A queue of one event: a request reads no more than it waits for. Symmetric in the devices; the only temporal property is one of steps |
| `devices` | `TypeOK`, `NoLeak`, `AddressIsSockets`, `FindsStable`, `InquiryFits` | two units (one in raw mode, without an address), two numbers, two devices: a number passes from one unit to the other and a unit moves to another number; four descriptors, one of which is open from the start, so that the process runs out of them; 0, 256 and 300 responses: no limit, what eight bits cut to 0, and what they cut to less. Symmetric in the devices of the caller |
| `conversions` | `AddressReadsBack`, `LayoutIsPortable`, `NamesReadBack`, `LinesFit`, `FilterIsItsSets` | addresses of six different bytes and their texts with each character replaced; memory of 2, 4, 8 and 16 bytes; every flag, version and command; eight bits of each word, named and unnamed; types and events on both sides of 32 and 64 |

`CHECK_DEADLOCK FALSE` is set everywhere because the bounds stop the system: a
process that has made `MaxCalls` or `MaxAsked` requests, or `MaxScans` scans,
rests for ever, and the parser ends; in `HciDevices` the units are used up; in
`Conversions` a call that is not about a filter is the last. That no process gets stuck on the way is what
`CallReturns` and `ScanReturns` say.

The bounds are named constants: `MaxCalls`, `QueueLen`, `Timeout`,
`MaxClockBack` (`HciSendReq`), `MaxScans`, `MaxReports`, `scan_time`,
`QueueLen` (`BleScan`), `MaxLen` (`EirName`), `MaxAsked`, `QueueLen`
(`BleLinks`), `Fds`, `MaxId` (`HciDevices`). `QueueLen` is real (the kernel's
queue is bounded), only smaller; an event lost at a full queue is recorded in
`dropped`, and `NoLostAnswer` excuses that loss and no other.

### Fairness

`FairSpec` of `HciSendReq` asks for weak fairness of the process inside a
request (`Step`) and of the clock (`Tick`), and nothing of the controller: it
may never answer and never stop talking. The process is a sequential program on
a preemptive scheduler, `select` returns within half a second, so its next step
is taken; that `writev` eventually succeeds or fails for good is an assumption
about the kernel (the code repeats it for `EAGAIN` and `EINTR` without looking
at the time). The clock may be set back finitely often; set back for ever, a
request would not end. `FairSpec` of `BleScan` asks for the same, and its
`GiveUp` step, which ends a request without an answer, is what `CallReturns`
establishes of `hci_send_req`. The fault "timeout" is part of the run for that
reason. The runs with a liveness property use `FairSpec` for their safety
properties, too; fairness does not change those. `BleLinks`, `HciDevices` and
`Conversions` state safety only: that a connect or a disconnect returns is
`CallReturns`, and the calls of `HciDevices` are finite sequences of system
calls.

## 4. What the runs show

Three disagreements between the code and what its comments say:

1. **A failed request counts as a success** (hci.c:1180, run
   `send_req_failure`). The inner `ret` swallows the failures of `select` and
   `read` and the refusal by a command status: `hci_send_req` returns 0 and the
   wrapper decides on a status nobody wrote.
2. **A scan that gives up early keeps its filter** (ble.c:124, 137, 145, 159,
   run `scan_filter`). Only the regular end of `hci_scan_ble` puts back the
   filter that `hci_init` saved.
3. **A name may end in the signal strength** (ble.c:434, run `eir_rssi`). A
   field occupies `field_len + 1` bytes and the test allows for `field_len`, so
   the last field may reach one byte beyond the data. `StaysInReport` shows the
   damage is limited to that byte, which is still in the report.

What holds, and was not obvious: on every path through `hci_send_req` the
borrowed filter comes back, and no event in the queue is taken from the caller
but those in front of the one that ended the request; each wrapper's filter lets
its answer through, though subevent codes are put among event codes; an answer
of another process is taken only if its opcode, or the device whose name it
tells, agrees; the only stale answers are those of requests that had given up; a
scan whose requests are answered starts from, and leaves, a clean controller
whatever earlier scans left behind, because its first requests drain the queue
and its retry switches off a scan in progress.

Links and handles: what the library holds and what the controller has part
company, and the run `links` says when. A link is orphaned (no
`BLEDevice` holds its handle) only after a connect that gave up and was not
cancelled (ble.c:372), or after a call that ended on a foreign event
(hci.c:1283, 1294) or on a status nobody wrote (hci.c:1180), or when the list
was used for another scan, which leaves each handle in its place while the
devices change theirs (ble.c:319-325). A handle is stale only after a link was
lost, a disconnect gave up, or again a foreign event, garbage, or another scan.
Then, and when a device that is not connected is disconnected,
`ble_disconnect` may end the link of another device, or of another program,
because handles are given out again and 0 is one of them. A slow or refused
disconnect on its own is harmless: the handle is kept until the end is
reported.

`VerdictIsControllers` is about commands that are first accepted by a status
and completed later, refused by a status, or refused by their completion: it
compares a verdict with the outcome of the command whose event ended the
request. Whether that was the request's own command is another question. That
it may be an earlier one is for `NoStaleAnswer`, that it may be another
process's for `AnswerMatches`, and endings by an event of the controller's own
account (`final.id # NoId`) are left out by name; `BleLinks` shows what all
three do to a connection.

Adapters: `hci_init` looks an adapter up by number three times, and a number
may pass from one adapter to another in between. `AddressIsSockets` holds
nevertheless, and only because the name is read last, through the socket: a
socket whose adapter has gone fails there. A version of `hci_init` that asked
for the name by number would store the address of one adapter beside the socket
of another (the mutant `AliveByNumber`). `hci_init` returns without closing its
socket on three paths (ble.c:31-34, 38-41, 58-61), and leaves -1 behind when
`hci_open_dev` has failed. `NoLeak` shows that nothing leaks as long as the
caller calls `hci_close` after a failure, too.

Hazards without a property are those about which the code promises nothing,
such as a connection list of 20 after a failed `hci_update_conn_list`
(ble.c:77), or `hci_close` of a device that is not open, which closes
descriptor 0; each has a note in `PROJECT.json`.

## 5. What is proved

Every safety property that a run checks is also a theorem, but for
`NamesReadBack` and `LinesFit`. The theorems hold for all values of the
constants that satisfy the assumptions of the module, which are types and, in
`HciSendReq`, what is true of the 68 wrappers.

### Requests

For all processes, requests, events, faults and bounds that satisfy
`BoundsAssumption`, `RequestsAssumption`, `FiltersAssumption`,
`NoiseAssumption` (constants have their types) and `EventsAssumption` (no
wrapper waits for a command status, nor, unless it is an LE request, for one of
the two events that are recognised by opcode or subevent), module
`HciSendReqProofs` proves:

- `TypeCorrect`: `Spec => []TypeOK`. `TypeOK` alone is not inductive: `Send`
  appends `cmd[p]`, which is a command only while a request is under way. The
  inductive invariant is `TypeInv`, `TypeOK` with `CommandKnown`.
- `FilterHandedBack`: `Spec => []FilterRestored`. The property is inductive
  together with `TypeInv`, because it also says what the saved filter is during
  a request. It is vacuous when "restore" is among the faults, as the code
  ignores a failure of that one call.
- `Refinement`: `Spec => KeepsPromise`, if "restore" is not among the faults:
  `HciSendReq` implements `HciCommand` under the mapping given at `Promise`.
  Beside `TypeInv` and `FilterRestored` it needs `CommandIssued`: commands the
  controller has are of calls that have been made; the command of a call that
  has yet to write is not among them, and that of a call that is waiting, or
  has ended with `ret = 0`, is. So success without a command, or a command
  written twice, is impossible.
- `AnswersMatch`: `Spec => []AnswerMatches`. No completion of another opcode
  and no name of another device ends a request.

`HciAnswersProofs` follows an answer from the controller to the caller:

- `AnswersAreHeard`: `Spec => []NoLostAnswer`. No answer is lost but to a full
  queue.
- `AnswersAreFresh`: `Spec => []NoStaleAnswer`. A request is ended by the answer
  to an earlier one of its process only if that one had given up.
- `VerdictsAreTrue`: `Spec => []VerdictIsControllers`.

None of the three is inductive, and they need each other. `AnswersInv` adds to
them: the controller has a command once and deals with it once (`OpenOnce`); an
event in a queue tells what the controller decided (`QueuedIsTrue`), and is the
last one about its command where it ends it (`LastIsLast`, which rests on the
order of a queue); while a request waits, the filter is its own and the command
the controller has under its number is its own (`OfRequest`); the answer that
has been sent to a waiting request lies in its queue (`Heard`); and about a
command whose request has ended with an answer nothing is left in the queue
(`NothingBehind`). `NoStaleAnswer` follows from the last one, the verdict from
`QueuedIsTrue` and from how a request can end (`EndedBy`). `EventsAssumption` is
needed for `Heard`: a command status with which the controller accepts a
command must not count as the answer.

The module ends with the second refinement:

- `RefinesExchange`: `Spec => KeepsExchange`, for every set of faults,
  "restore" included. `HciExchange` knows a filter of the process, a queue, the
  command under way and a verdict, and a request there drops events in front of
  the one that ends it, and ends in one of the four ways of `HciOutcome`: by an
  answer, by a refusal, with the time, or on a failed `select` or `read` (the
  last only if these can fail). `HciSendReq` reads the event that ends a request
  in one step and returns in another, so the mapping puts that event back in
  front of the queue until the request returns (`QueueOf`); the filter of the
  process is the saved one during a request (`Owned`), and the verdict is made
  of `result` and `errno` (`VerdictOf`). Three invariants are needed: `Path`
  (what `ret` and `final` are at each label, and that success without an event
  takes a fault), and `OfRequest` and `EndedBy` of `AnswersInv`. The steps in
  between are stutters (`StepUnseen`).

  The exchange keeps what is awkward about the code: a refusal, or a failed
  read, ends with the verdict "ok" or "EIO", whichever the buffer holds, unless
  the wrapper has cleared it.

`BleScan` and `BleLinks` are related to it at the other end, by the operators of
`HciOutcome` that all three share: `ScanRequestsAreExchanges` and
`LinksRequestsAreExchanges` say that, while a request of theirs waits, `Wait` or
`GiveUp` happens if and only if the request drops an event or ends in one of the
four ways, and that the scan or the call goes on by the verdict. They are about
a step, with no assumption but the types and that a request waits. The begin of
a request is not part of them: `Write` and `Ask` take the filter and write the
command in one step, and a request that fails before is `WriteFails`, whose
errno is free, or is left out (`BleLinks`). Nor is the failure to put a filter
back, which neither module has.

### Scans

`BleScanProofs` proves of every list length, scan time, queue, saved filter and
number of scans and reports (`ScanAssumption`):

- `ScanTypeCorrect`: `Spec => []TypeOK`. The bound on commands is not inductive:
  the invariant counts the requests of a scan by label (`Made`).
- `ListOfHeard`: `Spec => []ListIsWhatWasHeard`. It needs that each device heard
  has a first and a last report (`Orderly`), without which the choice of either
  means nothing; a report of a known, of a new, and of a new device for which
  there is no room are a lemma each (`KnownDevice`, `NewDevice`, `LostDevice`).
- `ReportsAreFresh`, `CleanScansStart`, `CleanScansLeaveNoTrace`: `Spec => []P`
  for `NoStaleReport`, `CleanScanStarts`, `CleanScanLeavesNoTrace`, by one
  invariant, `CleanInv`. Commands are executed in the order of their numbers
  (`Numbered`), so that an answer to the command of the request under way means
  that no earlier command waits (`Emptied`); what lies behind that answer in the
  queue is of this scan (`OnlyNew`), and the controller does not scan where it
  has been told not to (`Off`). This is the argument why leftovers of earlier
  scans do no harm, and it does not depend on how many there are.

### Links

`BleLinksProofs` proves of all devices, handles, queues and numbers of commands
(`LinksAssumption`) `LinksTypeCorrect`, `HandlesAreOfLinks`, `LinksAreKnown` and
`DisconnectEndsOwnLink`: `TypeOK`, `NoStaleHandle`, `NoOrphan` and the action
property `EndsOwnLink`. The properties say nothing during a call, so that the
invariant `IInv` says what holds then: the link of a call may be down
(`Ended`) or up (`Established`) with the event that tells of it still in the
queue (`LinksHold`, `NewsKnown`, `EndsKnown`), and, as long as none of the
causes that excuse it has come up, whatever is under way about a link is about
that of the call (`OneEnd`, `OneLink`). Each part carries only the causes it
needs.

### Names

`EirNameProofs` proves, for all bytes, lengths and buffers (`ByteAssumption`):

- `EirTypeCorrect`: `Spec => []TypeOK`; in particular `field_len - 1` does not
  wrap around.
- `ParserStaysInReport`: `Spec => []StaysInReport`, by the invariant `CopyInv`,
  which relates what was copied to the length of the data and to the buffer.
- `ParserFindsFirstName`: `Spec => []FindsFirstName`. The fields of a report are
  given without the loop, as the least set of offsets that holds 0 and is closed
  under going to the next field (`Starts`). The invariant says that the loop
  stands at one of them and that no field before it is a name; a field that
  begins inside another cannot be in the least set, as the set without it would
  be closed, too (`NoneBetween`).

### Adapters

`HciDevicesProofs` proves, for any number of adapters, numbers up to
`HCI_MAX_DEV`, devices, descriptors, responses and links (`DevicesAssumption`),
`TypeCorrect`, `NoDescriptorLeaks`, `AddressOfSocket`, `StableIsFound` and
`InquiryFitsBuffer`: `Spec => []P` for `TypeOK`, `NoLeak`, `AddressIsSockets`,
`FindsStable` and `InquiryFits`. None of them but the last is inductive; the
invariant `IInv` adds

- `Phase`: which call can be under way before each system call, and that the
  device it is about is still fresh, or open;
- `Owned`: also during a call, every open descriptor has one owner, a device or
  the temporary socket. `NoLeak` follows, as no temporary socket is open between
  two calls;
- `Descriptors`: a fresh device has descriptor 0, a failed one another or -1, an
  open one that of a bound socket. Without it `hci_close` might close 0;
- `Plugged`: units do not come back, and those that are up have a number;
- `Learned`: what `hci_init` has learned by number is about the unit behind its
  socket, or that unit has gone. With `Plugged` the second case ends at the
  name, as `ReadName` succeeds only for a unit that is up, so that
  `AddressIsSockets` follows;
- `Searched`: what a search has left out does not match, as long as no call has
  failed. `FindsStable` follows when the list is empty.

Each part is preserved on its own (`StepOwned`, `StepLearned` and so on), and
`TypeOK` in its four groups, which is what the prover can take at a time.

### Conversions

`ConversionsProofs` proves, for all texts, addresses, memory, packet types,
event codes and opcodes (`ConversionsAssumption`):

- `AddressesReadBack`: `Spec => []AddressReadsBack`. A printed address is read
  back (`PrintedIsRead`), a well-formed text is that of the address it is read
  as (`ReadIsPrinted`), and a text that could have been printed is well-formed
  (`PrintedIsWellFormed`), so that `str2ba` accepts exactly those.
- `LayoutIsTheSame`: `Spec => []LayoutIsPortable`, for numbers of every width; the
  two halves of `ntoh64` are put together byte by byte (`Halves`).
- `FiltersAreTheirSets`: `Spec => []FilterIsItsSets`, by the invariant `Shows`,
  which is about all 96 bits and not only those of the types and events asked
  about. It is preserved because no two bits have the same place (`Places32`).
  Beside saying that the helpers are right it is what entitles the other modules
  to describe a filter by its sets.

The first two are about the last call: their invariant, `ConvInv`, says that
what came out is what the function makes of the input.

### Only model-checked

- `CallReturns`, `ScanReturns`: liveness under fairness, which the prover does
  not handle.
- `NamesReadBack`, `LinesFit`: the tables are searched with `SelectSeq`, of
  which the prover knows no definition, and lines are laid out with folds, about
  which it would need induction over sequences. The tables are constants, and
  the run goes through every version, flag and command.
- The three violations, which are counterexamples.

## 6. Not modelled

Parameters that wrappers pack and fields they copy out of a successful answer
(the handle of a connection is the exception); the text of log messages; the
sizes of the buffers that texts are printed into, as texts have no length here
but in `LinesFit`; `hci_bustostr`, `hci_dtypetostr`, `hci_typetostr`,
`bt_compidtostr`, `bt_error` and `nameof.c`, which are constant functions
without state; `baprintf` and its kin, `bt_malloc`, `bt_free`, which forward to
the C library; the examples and the draft interface. Allocation failures are
modelled in the functions that make system calls and left out of the pure ones,
which return NULL.

## 7. Plan

Done, in this order, the most important first: `HciPacket`, `HciRequests`,
`HciSendReq`, `HciCommand` with the refinement, `HciSendReqProofs`, `BleScan`,
`EirName`, `EirNameProofs`, `BleLinks`, `HciDevices`, `Conversions` with the
four modules it calls, `HciDevicesProofs`, `BleLinksProofs`,
`HciAnswersProofs`, `BleScanProofs`, `ConversionsProofs`, and `HciExchange` with
its refinement. Next:

1. **Scans on top of exchanges as a composition**: the requests of `BleScan` and
   `BleLinks` are compared with those of `HciExchange` step by step while they
   wait. A module that composes a scan with `HciSendReq` itself would cover
   their beginning and a failing last `setsockopt`, too.
2. **Parameters of the wrappers** that are used: those of a connection and of a
   scan.
