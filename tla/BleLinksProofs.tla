---------------------------- MODULE BleLinksProofs ----------------------------
(***************************************************************************)
(* Proofs about BleLinks: that the handles a process keeps are those of    *)
(* its links, that none of its links is without a handle, and that         *)
(* ble_disconnect ends the link it is meant to end, whatever the numbers   *)
(* of devices, handles, requests and events, and apart from the causes     *)
(* that the properties name.  The last theorem compares the requests of    *)
(* the model with those of module HciExchange.                             *)
(***************************************************************************)
EXTENDS BleLinks, TLAPS, FiniteSetTheorems, HciOutcome

-----------------------------------------------------------------------------
(* The inductive invariant                                                 *)

\* The events that may lie in the receive queue.
Event ==
    {CommandStatus(c, s) : c \in Command, s \in {0, 1}}
    \cup {Connected(id, s, d, h) : id \in 0 .. MaxAsked, s \in {0, 1},
                                   d \in Devices \cup Others, h \in Handles}
    \cup {Disconnected(id, h) : id \in 0 .. MaxAsked, h \in Handles}
    \cup Lookalike

\* What lies in a sequence, in the receive queue and in the command queue.
Elements(s) == {s[i] : i \in 1 .. Len(s)}
Queued == Elements(rxq)
Waits == Elements(cmdq)

\* Commands are taken in the order of their numbers: this one was the last.
Taken == asked - Len(cmdq)

\* The events that end a request, apart from their numbers.
LinkUp(e) == e.evt = EVT_LE_META_EVENT /\ e.sub = EVT_LE_CONN_COMPLETE
LinkDown(e) == e.evt = EVT_DISCONN_COMPLETE
EndRefused(e) ==
    e.evt = EVT_CMD_STATUS /\ e.opcode = Disconn.opcode /\ e.status # 0
LinkRefused(e) ==
    e.evt = EVT_CMD_STATUS /\ e.opcode = CreateConn.opcode /\ e.status # 0

\* The event that ends a command of this process.
Last(e) == e.id # 0 /\ (e.evt = EVT_CMD_STATUS => e.status # 0)

\* No command has two of them.
LastsDiffer(s) ==
    \A i, j \in 1 .. Len(s) :
        Last(s[i]) /\ Last(s[j]) /\ s[i].id = s[j].id => i = j

\* The type invariant, with the shape of what lies in the queues.
ProcType ==
    /\ pc \in {"idle", "connect", "disconnect"}
    /\ who \in Devices \cup {NoDevice}
    /\ handle \in [Devices -> Handles \cup {0}]
    /\ asked \in 0 .. MaxAsked
    /\ filter \in Filter
    /\ cause \subseteq Causes
    /\ pc # "idle" => who \in Devices /\ asked > 0

CtrlType ==
    /\ rxq \in Seq(Event) /\ Len(rxq) <= QueueLen
    /\ cmdq \in Seq(Command)
    /\ pending = {} \/ \E c \in Command : pending = {c}
    /\ \A c \in pending : c.req = CreateConn
    /\ closing \subseteq Command
    /\ \A c \in closing : c.req = Disconn /\ c.handle \in Handles
    /\ links \in [Handles -> Devices \cup Others \cup {NoDevice}]

Types == ProcType /\ CtrlType

\* Who has which numbers: the commands that wait have the latest, and no two
\* commands have the same.
Numbered ==
    /\ Len(cmdq) <= asked
    /\ \A i \in 1 .. Len(cmdq) : cmdq[i].id = Taken + i
    /\ \A c \in pending \cup closing : c.id <= Taken
    /\ \A e \in Queued : e.id <= Taken
    /\ \A b \in pending, c \in closing : b.id # c.id
    /\ \A b, c \in closing : b.id = c.id => b = c

\* A command whose last event is out is over.
EndsOnce ==
    /\ \A e \in Queued, c \in pending \cup closing : Last(e) => e.id # c.id
    /\ LastsDiffer(rxq)

\* The command of the call under way, and what the call knew when it began.
OfCall ==
    /\ pc = "connect" => handle[who] = 0
    /\ pc = "disconnect" => handle[who] # 0 \/ "unconnected" \in cause
    /\ pc # "idle" =>
       \A c \in Waits \cup pending \cup closing : c.id = asked =>
         /\ c.req = Req[pc]
         /\ c.arg = who
         /\ c.handle = handle[who]

\* The device of the connection being set up has no link yet.
Free == \A c \in pending : ~Linked(c.arg)

\* No disconnect, and no connect, has been left behind, and the handles are
\* where the calls have put them.
NoLateEnd == cause \cap {"late end", "crossed", "garbage", "rescan"} = {}
NoLateLink == cause \cap {"late link", "crossed", "garbage", "rescan"} = {}

\* Then what is about a disconnect is about that of the call under way ...
OneEnd == NoLateEnd =>
    /\ \A c \in Waits \cup closing :
         c.req = Disconn => pc = "disconnect" /\ c.id = asked
    /\ \A e \in Queued : e.id # 0 /\ (LinkDown(e) \/ EndRefused(e)) =>
         pc = "disconnect" /\ e.id = asked

\* ... and so is what is about a connect.
OneLink == NoLateLink =>
    /\ \A c \in Waits \cup pending :
         c.req = CreateConn => pc = "connect" /\ c.id = asked
    /\ \A e \in Queued : e.id # 0 /\ (LinkUp(e) \/ LinkRefused(e)) =>
         pc = "connect" /\ e.id = asked

\* The link of the call is down, and the call has yet to learn of it.
Ended ==
    /\ pc = "disconnect"
    /\ \A c \in Waits \cup closing : c.id # asked
    /\ \A e \in Queued : ~EndRefused(e)

\* Nothing has parted the handles from the links.
Tracked == NoLateEnd /\ "lost" \notin cause

\* A handle kept is that of a link to its device ...
HandlesHold == Tracked => \A d \in Devices : handle[d] # 0 =>
    links[handle[d]] = d \/ (Ended /\ who = d)

\* ... and so is the one that a call is about to read.
LinksHold == Tracked /\ pc = "connect" => \A e \in Queued :
    LinkUp(e) /\ e.id = asked /\ e.status = 0 => links[e.handle] = who

\* The link of the call is up, and the call has yet to learn of it.
Established ==
    /\ pc = "connect"
    /\ \A c \in Waits \cup pending : c.id # asked
    /\ \A e \in Queued : ~LinkRefused(e)
    /\ \A e \in Queued : LinkUp(e) /\ e.id = asked => e.status = 0

\* A link to a device of the caller is known ...
LinksKnown == NoLateLink => \A h \in Handles : links[h] \in Devices =>
    handle[links[h]] = h \/ (Established /\ links[h] = who)

\* ... or is the one that the event tells of, when a link is up ...
NewsKnown == NoLateLink /\ pc = "connect" => \A e \in Queued :
    LinkUp(e) /\ e.id = asked /\ e.status = 0 =>
    \A h \in Handles : links[h] = who => h = e.handle

\* ... and is no more when the event tells that a link is down.
EndsKnown == NoLateLink /\ pc = "disconnect" => \A e \in Queued :
    LinkDown(e) /\ e.id = asked => \A h \in Handles : links[h] # who

IInv ==
    Types /\ Numbered /\ EndsOnce /\ OfCall /\ Free /\ OneEnd /\ OneLink
    /\ HandlesHold /\ LinksHold /\ LinksKnown /\ NewsKnown /\ EndsKnown

-----------------------------------------------------------------------------
(* The requests and the events                                            *)

\* What the two requests wait for, and how they are told apart.
LEMMA RequestFacts ==
    /\ CreateConn.event = EVT_LE_CONN_COMPLETE
    /\ CreateConn.opcode = 8205
    /\ Disconn.event = EVT_DISCONN_COMPLETE
    /\ Disconn.opcode = 1030
    /\ CreateConn # Disconn
    /\ Req["connect"] = CreateConn
    /\ Req["disconnect"] = Disconn
  <1>1. /\ cmd_opcode_pack(OGF_LE_CTL, 13) = 8205
        /\ cmd_opcode_pack(OGF_LINK_CTL, 6) = 1030
    BY DEF cmd_opcode_pack, OGF_LE_CTL, OGF_LINK_CTL
  <1> QED
    BY <1>1 DEF CreateConn, Disconn, Waiting, Req

\* The fields of a command.
LEMMA CommandType ==
    /\ 0 \in 0 .. MaxAsked
    /\ \A c \in Command :
         /\ c.id \in 1 .. MaxAsked /\ c.id \in 0 .. MaxAsked /\ c.id # 0
         /\ c.req = CreateConn \/ c.req = Disconn
         /\ c.arg \in Devices
         /\ c.handle \in Handles \cup {0}
  BY LinksAssumption DEF Command

\* An event about a link is the last of a command, or nobody's.
LEMMA LastKinds ==
    \A e :
       e.id # 0 /\ (LinkUp(e) \/ LinkDown(e) \/ EndRefused(e) \/ LinkRefused(e))
          => Last(e)
  BY DEF Last, LinkUp, LinkDown, EndRefused, LinkRefused, EVT_CMD_STATUS,
     EVT_LE_META_EVENT, EVT_DISCONN_COMPLETE

\* A command is that of ble_connect or that of ble_disconnect.
LEMMA OtherRequest ==
    /\ CreateConn # Disconn
    /\ Req["connect"] = CreateConn /\ Req["disconnect"] = Disconn
    /\ \A c \in Command : c.req # CreateConn => c.req = Disconn
  BY RequestFacts, CommandType

\* The filters that the process installs are filters.
LEMMA FilterType ==
    /\ hci_filter_clear \in Filter
    /\ \A call \in {"connect", "disconnect"} :
          RequestFilter(Req[call]) \in Filter
  <1>1. \A evt \in Nat : FilterBit(evt) \in Nat
    BY DEF FilterBit
  <1>2. ASSUME NEW r, r.event \in Nat, r.opcode \in Nat
        PROVE  RequestFilter(r) \in Filter
    BY <1>1, <1>2 DEF RequestFilter, Filter, HCI_EVENT_PKT, EVT_CMD_STATUS,
       EVT_CMD_COMPLETE, EVT_LE_META_EVENT
  <1> QED
    BY <1>2, RequestFacts DEF hci_filter_clear, Filter, EVT_LE_CONN_COMPLETE,
       EVT_DISCONN_COMPLETE

\* A command status event is the last of its command if it refuses it.
LEMMA StatusEvent ==
    ASSUME NEW c \in Command, NEW s \in {0, 1}
    PROVE  LET e == CommandStatus(c, s) IN
           /\ e \in Event
           /\ e.id = c.id /\ e.id # 0
           /\ ~LinkUp(e) /\ ~LinkDown(e)
           /\ Last(e) <=> s = 1
           /\ EndRefused(e) <=> s = 1 /\ c.req = Disconn
           /\ LinkRefused(e) <=> s = 1 /\ c.req = CreateConn
  <1> DEFINE e == CommandStatus(c, s)
  <1>1. /\ e.evt = EVT_CMD_STATUS /\ e.opcode = c.req.opcode
        /\ e.status = s /\ e.id = c.id
    BY DEF CommandStatus
  <1>e. e \in Event
    BY DEF Event
  <1> HIDE DEF e
  <1>2. c.id # 0 /\ (c.req = CreateConn \/ c.req = Disconn)
    BY LinksAssumption DEF Command
  <1>3. ~LinkUp(e) /\ ~LinkDown(e)
    BY <1>1 DEF LinkUp, LinkDown, EVT_CMD_STATUS, EVT_LE_META_EVENT,
       EVT_DISCONN_COMPLETE
  <1>4. Last(e) <=> s = 1
    BY <1>1, <1>2 DEF Last
  <1>5. /\ EndRefused(e) <=> s = 1 /\ c.req = Disconn
        /\ LinkRefused(e) <=> s = 1 /\ c.req = CreateConn
    BY <1>1, <1>2, RequestFacts DEF EndRefused, LinkRefused
  <1> QED
    BY <1>1, <1>e, <1>2, <1>3, <1>4, <1>5 DEF e

\* An LE connection complete event tells of a link that is up.
LEMMA ConnectedEvent ==
    ASSUME NEW id \in 0 .. MaxAsked, NEW s \in {0, 1},
           NEW d \in Devices \cup Others, NEW h \in Handles
    PROVE  LET e == Connected(id, s, d, h) IN
           /\ e \in Event
           /\ e.id = id /\ e.status = s /\ e.handle = h
           /\ LinkUp(e) /\ ~LinkDown(e)
           /\ Last(e) <=> id # 0
           /\ ~EndRefused(e) /\ ~LinkRefused(e)
  BY DEF Connected, Event, LinkUp, LinkDown, Last, EndRefused, LinkRefused,
     EVT_CMD_STATUS, EVT_LE_META_EVENT, EVT_DISCONN_COMPLETE

\* A disconnection complete event tells of a link that is down.
LEMMA DisconnectedEvent ==
    ASSUME NEW id \in 0 .. MaxAsked, NEW h \in Handles
    PROVE  LET e == Disconnected(id, h) IN
           /\ e \in Event
           /\ e.id = id
           /\ ~LinkUp(e) /\ LinkDown(e)
           /\ Last(e) <=> id # 0
           /\ ~EndRefused(e) /\ ~LinkRefused(e)
  BY DEF Disconnected, Event, LinkUp, LinkDown, Last, EndRefused, LinkRefused,
     EVT_CMD_STATUS, EVT_LE_META_EVENT, EVT_DISCONN_COMPLETE

\* A look-alike tells nothing about a link.
LEMMA ForeignEvent ==
    ASSUME NEW e \in Lookalike
    PROVE  /\ e \in Event
           /\ e.id = 0
           /\ ~LinkUp(e) /\ ~LinkDown(e) /\ ~Last(e)
           /\ ~EndRefused(e) /\ ~LinkRefused(e)
  BY DEF Lookalike, Event, LinkUp, LinkDown, Last, EndRefused, LinkRefused,
     EVT_CMD_STATUS, EVT_LE_META_EVENT, EVT_DISCONN_COMPLETE,
     EVT_INQUIRY_COMPLETE, EVT_LE_LTK_REQUEST, EVT_LE_CONN_COMPLETE

\* The event that answers the command of the call under way.
LEMMA OwnAnswer ==
    ASSUME NEW e \in Event, pc \in {"connect", "disconnect"},
           Answers(Current, e), asked > 0, e.id = asked, asked \in Nat
    PROVE  /\ Last(e)
           /\ pc = "connect" => LinkUp(e) /\ HandleIn(e) = {e.handle}
           /\ pc = "disconnect" => LinkDown(e) /\ e.status = 0
  <1>1. /\ Current.req.event \in {1, 5}
        /\ pc = "connect" => Current.req.event = 1
        /\ pc = "disconnect" => Current.req.event = 5
        /\ pc = "connect" => Current.req.opcode = 8205
    BY RequestFacts DEF Current, EVT_LE_CONN_COMPLETE, EVT_DISCONN_COMPLETE
  <1>2. CASE \E c \in Command, s \in {0, 1} : e = CommandStatus(c, s)
    BY <1>1, <1>2 DEF CommandStatus, Answers, EVT_CMD_STATUS, EVT_CMD_COMPLETE,
       EVT_REMOTE_NAME_REQ_COMPLETE, EVT_LE_META_EVENT
  <1>3. CASE \E id \in 0 .. MaxAsked, s \in {0, 1},
                d \in Devices \cup Others, h \in Handles :
                   e = Connected(id, s, d, h)
    BY <1>1, <1>3 DEF Connected, Answers, EVT_CMD_STATUS, EVT_CMD_COMPLETE,
       Last, EVT_REMOTE_NAME_REQ_COMPLETE, EVT_LE_META_EVENT, LinkUp, HandleIn,
       EVT_LE_CONN_COMPLETE
  <1>4. CASE \E id \in 0 .. MaxAsked, h \in Handles : e = Disconnected(id, h)
    BY <1>1, <1>4 DEF Disconnected, Answers, EVT_CMD_STATUS, EVT_CMD_COMPLETE,
       Last, EVT_REMOTE_NAME_REQ_COMPLETE, EVT_LE_META_EVENT, LinkDown,
       EVT_DISCONN_COMPLETE
  <1>5. CASE e \in Lookalike
    BY <1>5, ForeignEvent
  <1> QED
    BY <1>2, <1>3, <1>4, <1>5 DEF Event

\* The events that hci_send_req takes for a refusal of the call's command.
LEMMA OwnRefusal ==
    ASSUME NEW e \in Event, pc \in {"connect", "disconnect"}
    PROVE  /\ pc = "connect" => (Refuses(Current, e) <=> LinkRefused(e))
           /\ pc = "disconnect" => (Refuses(Current, e) <=> EndRefused(e))
           /\ Refuses(Current, e) => Last(e)
  <1>1. Current.req = Req[pc] /\ Current.req.event # EVT_CMD_STATUS
    BY RequestFacts DEF Current, EVT_LE_CONN_COMPLETE, EVT_DISCONN_COMPLETE,
       EVT_CMD_STATUS
  <1>2. e.evt = EVT_CMD_STATUS => e.id # 0
    BY LinksAssumption DEF Event, CommandStatus, Connected, Disconnected,
       Lookalike, Command, EVT_CMD_STATUS, EVT_LE_META_EVENT,
       EVT_DISCONN_COMPLETE, EVT_INQUIRY_COMPLETE
  <1> QED
    BY <1>1, <1>2, RequestFacts DEF Refuses, EndRefused, LinkRefused, Last

\* No event is both an answer and a refusal.
LEMMA NotBoth == \A c, e : ~(Answers(c, e) /\ Refuses(c, e))
  BY DEF Answers, Refuses, EVT_CMD_STATUS, EVT_CMD_COMPLETE,
     EVT_REMOTE_NAME_REQ_COMPLETE, EVT_LE_META_EVENT

\* The number of an event is a number.
LEMMA EventNumber == \A e \in Event : e.id \in Nat
  BY CommandType, ForeignEvent
     DEF Event, CommandStatus, Connected, Disconnected

\* An event that tells of a link has a handle.
LEMMA UpHandle == \A e \in Event : LinkUp(e) => e.handle \in Handles
  BY ForeignEvent, StatusEvent, DisconnectedEvent, ConnectedEvent DEF Event

\* A refusal is of a command of this process, and its last event.
LEMMA OwnLast ==
    \A e \in Event :
        /\ EndRefused(e) \/ LinkRefused(e) => Last(e) /\ e.id # 0
        /\ e.id # 0 /\ (LinkUp(e) \/ LinkDown(e)) => Last(e)
  <1>1. \A e \in Event : e.evt = EVT_CMD_STATUS => e.id # 0
    BY LinksAssumption DEF Event, CommandStatus, Connected, Disconnected,
       Lookalike, Command, EVT_CMD_STATUS, EVT_LE_META_EVENT,
       EVT_DISCONN_COMPLETE, EVT_INQUIRY_COMPLETE
  <1> QED
    BY <1>1, LastKinds DEF EndRefused, LinkRefused

\* A handle that the library finds is one that the controller uses.
LEMMA EventHandle ==
    ASSUME NEW e \in Event PROVE HandleIn(e) \subseteq Handles
  BY DEF Event, HandleIn, CommandStatus, Connected, Disconnected, Lookalike

-----------------------------------------------------------------------------
(* The queues                                                              *)

\* What is in the queues changes with them only.
LEMMA Same ==
    /\ rxq' = rxq => Queued' = Queued /\ LastsDiffer(rxq') = LastsDiffer(rxq)
    /\ cmdq' = cmdq => Waits' = Waits
    /\ cmdq' = cmdq /\ asked' = asked => Taken' = Taken
  BY DEF Queued, Waits, Taken

\* An event delivered lies at the end of the queue, or is lost.
LEMMA Delivered ==
    ASSUME Types, NEW e \in Event, Deliver(e)
    PROVE  /\ rxq' \in Seq(Event)
           /\ Len(rxq') <= QueueLen
           /\ Queued' \subseteq Queued \cup {e}
           /\ LastsDiffer(rxq) /\ (\A x \in Queued : Last(e) /\ Last(x) =>
                                     x.id # e.id)
              => LastsDiffer(rxq')
  <1>1. CASE rxq' = rxq
    BY <1>1 DEF Types, ProcType, CtrlType, Queued
  <1>2. CASE rxq' = Append(rxq, e) /\ Len(rxq) < QueueLen
    <2>1. /\ rxq \in Seq(Event)
          /\ rxq' \in Seq(Event)
          /\ Len(rxq') = Len(rxq) + 1
          /\ \A i \in 1 .. Len(rxq) : rxq'[i] = rxq[i]
          /\ rxq'[Len(rxq) + 1] = e
          /\ Len(rxq) \in Nat
      BY <1>2 DEF Types, ProcType, CtrlType
    <2>2. Queued' \subseteq Queued \cup {e}
      BY <2>1 DEF Queued, Elements
    <2>3. ASSUME LastsDiffer(rxq),
                 \A x \in Queued : Last(e) /\ Last(x) => x.id # e.id,
                 NEW i \in 1 .. Len(rxq'), NEW j \in 1 .. Len(rxq'),
                 Last(rxq'[i]), Last(rxq'[j]), rxq'[i].id = rxq'[j].id, i # j
          PROVE  FALSE
      <3>1. CASE i \in 1 .. Len(rxq) /\ j \in 1 .. Len(rxq)
        BY <2>1, <2>3, <3>1 DEF LastsDiffer
      <3>2. CASE i = Len(rxq) + 1 /\ j \in 1 .. Len(rxq)
        BY <2>1, <2>3, <3>2 DEF Queued, Elements
      <3>3. CASE j = Len(rxq) + 1 /\ i \in 1 .. Len(rxq)
        BY <2>1, <2>3, <3>3 DEF Queued, Elements
      <3> QED
        BY <2>1, <2>3, <3>1, <3>2, <3>3
    <2> QED
      BY <1>2, <2>1, <2>2, <2>3, LinksAssumption DEF LastsDiffer
  <1> QED
    BY <1>1, <1>2 DEF Deliver

\* The event read was at the head of the queue, and leaves the others.
LEMMA Read ==
    ASSUME Types, EndsOnce, rxq # <<>>, rxq' = Tail(rxq)
    PROVE  /\ Head(rxq) \in Event /\ Head(rxq) \in Queued
           /\ rxq' \in Seq(Event)
           /\ Len(rxq') <= QueueLen
           /\ Queued' \subseteq Queued
           /\ LastsDiffer(rxq')
           /\ \A x \in Queued' : Last(x) /\ Last(Head(rxq)) =>
                x.id # Head(rxq).id
  <1>1. /\ rxq \in Seq(Event)
        /\ Len(rxq) \in Nat \ {0}
        /\ Head(rxq) = rxq[1] /\ Head(rxq) \in Event
        /\ rxq' \in Seq(Event)
        /\ Len(rxq') = Len(rxq) - 1
        /\ \A i \in 1 .. Len(rxq') :
              rxq'[i] = rxq[i + 1] /\ i + 1 \in 1 .. Len(rxq)
    BY DEF Types, ProcType, CtrlType
  <1>2. Queued' \subseteq Queued /\ Head(rxq) \in Queued
    BY <1>1 DEF Queued, Elements
  <1>3. LastsDiffer(rxq')
    BY <1>1 DEF EndsOnce, LastsDiffer
  <1>4. \A x \in Queued' : Last(x) /\ Last(Head(rxq)) => x.id # Head(rxq).id
    BY <1>1 DEF EndsOnce, LastsDiffer, Queued, Elements
  <1> QED
    BY <1>1, <1>2, <1>3, <1>4, LinksAssumption DEF Types, ProcType, CtrlType

\* The commands that wait are numbered behind those that were taken.
LEMMA Ordered ==
    ASSUME Types, Numbered
    PROVE  /\ Taken \in Nat /\ Taken <= asked /\ asked \in Nat
           /\ \A c \in Waits :
                c \in Command /\ c.id \in Nat /\ c.id > Taken /\ c.id <= asked
           /\ \A c \in pending \cup closing : c \in Command /\ c.id \in Nat
           /\ \A e \in Queued : e \in Event /\ e.id \in Nat
  <1>1. /\ asked \in Nat
        /\ \A c \in pending \cup closing : c \in Command /\ c.id \in Nat
    BY CommandType DEF Types, ProcType, CtrlType
  <1>2. \A e \in Queued : e \in Event /\ e.id \in Nat
    BY EventNumber DEF Types, CtrlType, Queued, Elements
  <1>3. /\ Taken \in Nat /\ Taken <= asked
        /\ \A c \in Waits :
             c \in Command /\ c.id \in Nat /\ c.id > Taken /\ c.id <= asked
    BY <1>1 DEF Types, CtrlType, Numbered, Taken, Waits, Elements
  <1> QED
    BY <1>1, <1>2, <1>3

\* The command taken was the first to wait, and the others keep their numbers.
LEMMA CommandTaken ==
    ASSUME Types, Numbered, cmdq # <<>>, cmdq' = Tail(cmdq), asked' = asked
    PROVE  /\ Head(cmdq) \in Command /\ Head(cmdq) \in Waits
           /\ cmdq' \in Seq(Command)
           /\ Head(cmdq).id = Taken + 1
           /\ Taken' = Taken + 1
           /\ Len(cmdq') <= asked'
           /\ \A i \in 1 .. Len(cmdq') : cmdq'[i].id = Taken' + i
           /\ Waits' \subseteq Waits
           /\ Waits \subseteq Waits' \cup {Head(cmdq)}
           /\ \A c \in Waits' : c.id > Taken'
  <1>1. /\ cmdq \in Seq(Command)
        /\ Len(cmdq) \in Nat \ {0}
        /\ Head(cmdq) = cmdq[1] /\ Head(cmdq) \in Command
        /\ cmdq' \in Seq(Command)
        /\ Len(cmdq') = Len(cmdq) - 1
        /\ \A i \in 1 .. Len(cmdq') :
              cmdq'[i] = cmdq[i + 1] /\ i + 1 \in 1 .. Len(cmdq)
        /\ asked \in Nat
    BY LinksAssumption DEF Types, ProcType, CtrlType
  <1>2. /\ Waits' \subseteq Waits /\ Head(cmdq) \in Waits
    BY <1>1 DEF Waits, Elements
  <1>3. Waits \subseteq Waits' \cup {Head(cmdq)}
    <2> SUFFICES ASSUME NEW i \in 1 .. Len(cmdq), i # 1
                 PROVE  cmdq[i] \in Waits'
      BY <1>1 DEF Waits, Elements
    <2>1. i - 1 \in 1 .. Len(cmdq') /\ cmdq'[i - 1] = cmdq[i]
      BY <1>1
    <2> QED
      BY <2>1 DEF Waits, Elements
  <1>4. Taken' = Taken + 1 /\ Head(cmdq).id = Taken + 1 /\ Len(cmdq') <= asked'
    BY <1>1 DEF Taken, Numbered
  <1>5. \A i \in 1 .. Len(cmdq') : cmdq'[i].id = Taken' + i
    BY <1>1, <1>4 DEF Numbered, Taken
  <1>6. \A c \in Waits' : c.id > Taken'
    BY <1>1, <1>4, <1>5 DEF Waits, Elements, Taken
  <1> QED
    BY <1>1, <1>2, <1>3, <1>4, <1>5, <1>6

\* The command of a call waits behind the others, under the next number.
LEMMA CommandWritten ==
    ASSUME Types, Numbered, NEW call \in {"connect", "disconnect"},
           NEW d \in Devices, Ask(call, d)
    PROVE  \E c \in Command :
           /\ c.id = asked' /\ c.req = Req[call] /\ c.arg = d
           /\ c.handle = handle[d]
           /\ cmdq' \in Seq(Command)
           /\ Taken' = Taken
           /\ Len(cmdq') <= asked'
           /\ \A i \in 1 .. Len(cmdq') : cmdq'[i].id = Taken' + i
           /\ Waits' = Waits \cup {c}
           /\ asked' = asked + 1 /\ asked' \in 1 .. MaxAsked
  <1> DEFINE c == [id |-> asked + 1, req |-> Req[call], arg |-> d,
                   handle |-> handle[d]]
  <1>1. /\ asked \in Nat /\ asked' = asked + 1 /\ asked' \in 1 .. MaxAsked
        /\ cmdq' = Append(cmdq, c)
    BY LinksAssumption DEF Ask, Types, ProcType, CtrlType
  <1>2. c \in Command
    BY <1>1, RequestFacts DEF Types, ProcType, CtrlType, Command
  <1>3. /\ c.id = asked' /\ c.req = Req[call] /\ c.arg = d
        /\ c.handle = handle[d]
    BY <1>1
  <1> HIDE DEF c
  <1>4. /\ cmdq \in Seq(Command)
        /\ cmdq' \in Seq(Command)
        /\ Len(cmdq) \in Nat
        /\ Len(cmdq') = Len(cmdq) + 1
        /\ \A i \in 1 .. Len(cmdq) : cmdq'[i] = cmdq[i]
        /\ cmdq'[Len(cmdq) + 1] = c
    BY <1>1, <1>2 DEF Types, ProcType, CtrlType
  <1>5. Taken' = Taken /\ Len(cmdq') <= asked'
    BY <1>1, <1>4 DEF Taken, Numbered
  <1>6. \A i \in 1 .. Len(cmdq') : cmdq'[i].id = Taken' + i
    <2>1. cmdq'[Len(cmdq) + 1].id = Taken + (Len(cmdq) + 1)
      BY <1>1, <1>3, <1>4 DEF Taken
    <2>2. ASSUME NEW i \in 1 .. Len(cmdq)
          PROVE  cmdq'[i].id = Taken + i
      BY <1>4, <2>2 DEF Numbered
    <2> QED
      BY <1>4, <1>5, <2>1, <2>2
  <1>7. Waits' = Waits \cup {c}
    BY <1>4 DEF Waits, Elements
  <1> QED
    BY <1>1, <1>2, <1>3, <1>4, <1>5, <1>6, <1>7

-----------------------------------------------------------------------------
(* What the controller's steps do to the queues                            *)

\* Event e is delivered, or lost; the process does not move.
Added(e) ==
    /\ UNCHANGED <<pc, who, handle, asked, filter>>
    /\ Queued' \subseteq Queued \cup {e}
    /\ LastsDiffer(rxq) /\ (\A x \in Queued : Last(e) /\ Last(x) =>
                              x.id # e.id)
       => LastsDiffer(rxq')

\* An event about no link, about one that comes, and about one that goes.
NoNews(e) ==
    ~LinkUp(e) /\ ~LinkDown(e) /\ ~EndRefused(e) /\ ~LinkRefused(e)
UpNews(e) ==
    LinkUp(e) /\ ~LinkDown(e) /\ ~EndRefused(e) /\ ~LinkRefused(e)
DownNews(e) ==
    ~LinkUp(e) /\ LinkDown(e) /\ ~EndRefused(e) /\ ~LinkRefused(e)

\* Command c was the first to wait, and is taken.
TakenNext(c) ==
    /\ c \in Waits
    /\ c.id = Taken + 1 /\ Taken' = Taken + 1
    /\ Len(cmdq') <= asked'
    /\ \A i \in 1 .. Len(cmdq') : cmdq'[i].id = Taken' + i
    /\ Waits' \subseteq Waits
    /\ Waits \subseteq Waits' \cup {c}
    /\ \A b \in Waits' : b.id > Taken'

\* No command is taken.
NoneTaken ==
    /\ Waits' = Waits
    /\ Taken' = Taken
    /\ UNCHANGED cmdq

\* Command c is accepted, and event e says so.
Accepts(c, e) ==
    /\ TakenNext(c)
    /\ Added(e)
    /\ c.req = CreateConn => /\ pending = {} /\ pending' = {c}
                             /\ closing' = closing
                             /\ ~Linked(c.arg)
    /\ c.req = Disconn => closing' = closing \cup {c} /\ pending' = pending
    /\ e.id = c.id /\ NoNews(e) /\ ~Last(e)
    /\ UNCHANGED <<links, cause>>

\* The command accepted was the first to wait, and is under way.
LEMMA AcceptEffect ==
    ASSUME Types, Numbered, Accept
    PROVE  \E c \in Command, e \in Event : Accepts(c, e)
  <1> DEFINE c == Head(cmdq)
             e == CommandStatus(c, 0)
  <1>1. TakenNext(c) /\ c \in Command
    BY CommandTaken DEF Accept, procVars, TakenNext
  <1>2. e \in Event /\ e.id = c.id /\ NoNews(e) /\ ~Last(e)
    BY <1>1, StatusEvent DEF NoNews
  <1>3. Added(e)
    BY <1>2, Delivered DEF Accept, Added, procVars
  <1>4. /\ c.req = CreateConn => /\ pending = {} /\ pending' = {c}
                                 /\ closing' = closing
                                 /\ ~Linked(c.arg)
        /\ c.req = Disconn => closing' = closing \cup {c} /\ pending' = pending
        /\ UNCHANGED <<links, cause>>
    BY RequestFacts DEF Accept, Allowed
  <1> HIDE DEF c, e
  <1> QED
    BY <1>1, <1>2, <1>3, <1>4 DEF Accepts

\* Command c is refused, and event e says so.
Declines(c, e) ==
    /\ TakenNext(c)
    /\ Added(e)
    /\ e.id = c.id /\ ~LinkUp(e) /\ ~LinkDown(e) /\ Last(e)
    /\ EndRefused(e) <=> c.req = Disconn
    /\ LinkRefused(e) <=> c.req = CreateConn
    /\ UNCHANGED <<pending, closing, links, cause>>

\* The command refused was the first to wait, and its last event is out.
LEMMA RefuseEffect ==
    ASSUME Types, Numbered, Refuse
    PROVE  \E c \in Command, e \in Event : Declines(c, e)
  <1> DEFINE c == Head(cmdq)
             e == CommandStatus(c, 1)
  <1>1. TakenNext(c) /\ c \in Command
    BY CommandTaken DEF Refuse, procVars, TakenNext
  <1>2. /\ e \in Event /\ e.id = c.id /\ ~LinkUp(e) /\ ~LinkDown(e) /\ Last(e)
        /\ EndRefused(e) <=> c.req = Disconn
        /\ LinkRefused(e) <=> c.req = CreateConn
    BY <1>1, StatusEvent
  <1>3. Added(e)
    BY <1>2, Delivered DEF Refuse, Added, procVars
  <1>4. UNCHANGED <<pending, closing, links, cause>>
    BY DEF Refuse
  <1> HIDE DEF c, e
  <1> QED
    BY <1>1, <1>2, <1>3, <1>4 DEF Declines

\* Delivery of an LE connection complete event.
LEMMA LinkUpEffect ==
    ASSUME Types, NEW id \in 0 .. MaxAsked, NEW s \in {0, 1},
           NEW d \in Devices \cup Others, NEW h \in Handles,
           Deliver(Connected(id, s, d, h)),
           UNCHANGED <<procVars, filter, cmdq>>
    PROVE  \E e \in Event :
           /\ Added(e)
           /\ e.id = id /\ e.status = s /\ e.handle = h /\ UpNews(e)
           /\ Last(e) <=> id # 0
  BY ConnectedEvent, Delivered DEF Added, UpNews, procVars

\* The link of command c is set up with handle h, and event e says so.
Establishes(c, h, e) ==
    /\ NoneTaken
    /\ Added(e)
    /\ links[h] = NoDevice
    /\ pending' = {}
    /\ links' = [links EXCEPT ![h] = c.arg]
    /\ e.id = c.id /\ e.status = 0 /\ e.handle = h
    /\ UpNews(e) /\ Last(e)
    /\ UNCHANGED <<closing, cause>>

\* The link set up gets a handle that was free.
LEMMA EstablishEffect ==
    ASSUME Types, NEW c \in pending, NEW h \in Handles, Establish(c, h)
    PROVE  \E e \in Event : Establishes(c, h, e)
  <1>1. /\ c.id \in 0 .. MaxAsked /\ c.id # 0 /\ c.arg \in Devices \cup Others
        /\ Deliver(Connected(c.id, 0, c.arg, h))
    BY CommandType DEF Types, CtrlType, Establish
  <1>2. PICK e \in Event : /\ Added(e)
                           /\ e.id = c.id /\ e.status = 0 /\ e.handle = h
                           /\ UpNews(e) /\ Last(e)
    BY <1>1, LinkUpEffect DEF Establish
  <1> QED
    BY <1>2, Same DEF Establish, Establishes, NoneTaken, procVars

\* Command c sets up no link, and event e says so.
FailsToEstablish(c, e) ==
    /\ NoneTaken
    /\ Added(e)
    /\ pending' = {}
    /\ e.id = c.id /\ e.status = 1
    /\ UpNews(e) /\ Last(e)
    /\ UNCHANGED <<closing, links, cause>>

\* The connection that fails leaves the links alone.
LEMMA EstablishFailsEffect ==
    ASSUME Types, NEW c \in pending, EstablishFails(c)
    PROVE  \E e \in Event : FailsToEstablish(c, e)
  <1>1. c.id \in 0 .. MaxAsked /\ c.id # 0 /\ c.arg \in Devices \cup Others
    BY CommandType DEF Types, CtrlType
  <1>2. PICK h \in Handles : Deliver(Connected(c.id, 1, c.arg, h))
    BY DEF EstablishFails
  <1>3. PICK e \in Event : /\ Added(e)
                           /\ e.id = c.id /\ e.status = 1
                           /\ UpNews(e) /\ Last(e)
    BY <1>1, <1>2, LinkUpEffect DEF EstablishFails
  <1> QED
    BY <1>3, Same DEF EstablishFails, FailsToEstablish, NoneTaken, procVars

\* Device d of another program gets a link.
LinksForOther(d, h, e) ==
    /\ NoneTaken
    /\ Added(e)
    /\ links[h] = NoDevice
    /\ links' = [links EXCEPT ![h] = d]
    /\ e.id = 0 /\ UpNews(e) /\ ~Last(e)
    /\ UNCHANGED <<pending, closing, cause>>

\* The link of another program gets a handle that was free.
LEMMA OtherConnectsEffect ==
    ASSUME Types, NEW d \in Others, NEW h \in Handles, OtherConnects(d, h)
    PROVE  \E e \in Event : LinksForOther(d, h, e)
  <1>1. 0 \in 0 .. MaxAsked /\ Deliver(Connected(0, 0, d, h))
    BY CommandType DEF OtherConnects
  <1>2. PICK e \in Event : Added(e) /\ e.id = 0 /\ UpNews(e) /\ ~Last(e)
    BY <1>1, LinkUpEffect DEF OtherConnects
  <1> QED
    BY <1>2, Same DEF OtherConnects, LinksForOther, NoneTaken, procVars

\* Delivery of a disconnection complete event.
LEMMA LinkDownEffect ==
    ASSUME Types, NEW id \in 0 .. MaxAsked, NEW h \in Handles,
           Deliver(Disconnected(id, h)), UNCHANGED <<procVars, filter, cmdq>>
    PROVE  \E e \in Event :
           /\ Added(e)
           /\ e.id = id /\ DownNews(e)
           /\ Last(e) <=> id # 0
  BY DisconnectedEvent, Delivered DEF Added, DownNews, procVars

\* The link of command c is ended, and event e says so.
Ends(c, e) ==
    /\ NoneTaken
    /\ Added(e)
    /\ closing' = closing \ {c}
    /\ links' = [links EXCEPT ![c.handle] = NoDevice]
    /\ e.id = c.id /\ DownNews(e) /\ Last(e)
    /\ UNCHANGED <<pending, cause>>

\* The command ends the link of its handle.
LEMMA EndEffect ==
    ASSUME Types, NEW c \in closing, End(c)
    PROVE  \E e \in Event : Ends(c, e)
  <1>1. /\ c.id \in 0 .. MaxAsked /\ c.id # 0 /\ c.handle \in Handles
        /\ Deliver(Disconnected(c.id, c.handle))
    BY CommandType DEF Types, CtrlType, End
  <1>2. PICK e \in Event : Added(e) /\ e.id = c.id /\ DownNews(e) /\ Last(e)
    BY <1>1, LinkDownEffect DEF End
  <1> QED
    BY <1>2, Same DEF End, Ends, NoneTaken, procVars

\* The link with handle h goes, whoever wanted it.
Drops(h, e) ==
    /\ NoneTaken
    /\ Added(e)
    /\ links[h] \in Others \/ "lost" \in cause'
    /\ links' = [links EXCEPT ![h] = NoDevice]
    /\ closing' = {c \in closing : c.handle # h}
    /\ e.id = 0 /\ DownNews(e) /\ ~Last(e)
    /\ cause' = cause \/ cause' = cause \cup {"lost"}
    /\ UNCHANGED pending

\* A link that goes by itself was another program's, or is lost.
LEMMA DropEffect ==
    ASSUME Types, NEW h \in Handles, Lose(h) \/ OtherDisconnects(h)
    PROVE  \E e \in Event : Drops(h, e)
  <1>1. 0 \in 0 .. MaxAsked /\ Deliver(Disconnected(0, h))
    BY CommandType DEF Lose, OtherDisconnects
  <1>2. PICK e \in Event : Added(e) /\ e.id = 0 /\ DownNews(e) /\ ~Last(e)
    BY <1>1, LinkDownEffect DEF Lose, OtherDisconnects
  <1> QED
    BY <1>2, Same DEF Lose, OtherDisconnects, Drops, NoneTaken, procVars

\* A step after which only the queue may differ, by an event nobody asked for.
Quiet ==
    /\ NoneTaken
    /\ UNCHANGED <<pc, who, handle, asked, pending, closing, links, cause>>
    /\ \A x \in Queued' : x \in Queued \/ (x.id = 0 /\ NoNews(x) /\ ~Last(x))
    /\ LastsDiffer(rxq) => LastsDiffer(rxq')

\* A stutter, or an event that tells nothing about a link.
LEMMA QuietEffect ==
    ASSUME Types, UNCHANGED vars \/ \E e \in Lookalike : Unsolicited(e)
    PROVE  Quiet
  <1>1. CASE UNCHANGED vars
    BY <1>1, Same DEF vars, procVars, ctrlVars, Quiet, NoneTaken
  <1>2. ASSUME NEW e \in Lookalike, Unsolicited(e)
        PROVE  Quiet
    <2>1. e \in Event /\ e.id = 0 /\ NoNews(e) /\ ~Last(e)
      BY ForeignEvent DEF NoNews
    <2>2. Added(e)
      BY <1>2, <2>1, Delivered DEF Unsolicited, Added, procVars
    <2> QED
      BY <1>2, <2>1, <2>2, Same
         DEF Unsolicited, Added, Quiet, NoneTaken, procVars, ctrlVars
  <1> QED
    BY <1>1, <1>2

\* A call begins with its command, which waits behind the others.
Asks(call, d, c) ==
    /\ pc = "idle" /\ pc' = call /\ who' = d
    /\ asked' = asked + 1 /\ asked' \in Nat
    /\ c.id = asked' /\ c.req = Req[call] /\ c.arg = d /\ c.handle = handle[d]
    /\ Waits' = Waits \cup {c} /\ Taken' = Taken
    /\ Len(cmdq') <= asked'
    /\ \A i \in 1 .. Len(cmdq') : cmdq'[i].id = Taken' + i
    /\ call = "connect" => handle[d] = 0
    /\ call = "disconnect" => handle[d] # 0 \/ "unconnected" \in cause'
    /\ cause' = cause \/ cause' = cause \cup {"unconnected"}
    /\ Queued' = Queued /\ LastsDiffer(rxq') = LastsDiffer(rxq)
    /\ UNCHANGED <<handle, pending, closing, links>>

\* The command of a call is the last to wait, under the next number.
LEMMA AskEffect ==
    ASSUME Types, Numbered, NEW d \in Devices, Connect(d) \/ Disconnect(d)
    PROVE  \E call \in {"connect", "disconnect"}, c \in Command :
              Asks(call, d, c)
  <1>1. PICK call \in {"connect", "disconnect"} :
          /\ Ask(call, d)
          /\ call = "connect" => handle[d] = 0
          /\ call = "disconnect" => handle[d] # 0 \/ "unconnected" \in cause'
          /\ cause' = cause \/ cause' = cause \cup {"unconnected"}
    BY DEF Connect, Disconnect
  <1> QED
    BY <1>1, CommandWritten, Same DEF Ask, Asks

\* The handles change places, and the receive queue is emptied.
Mixes ==
    /\ pc = "idle"
    /\ NoneTaken
    /\ handle' \in [Devices -> Handles \cup {0}]
    /\ rxq' = <<>> /\ Queued' = {} /\ LastsDiffer(rxq')
    /\ cause' = cause \cup {"rescan"}
    /\ UNCHANGED <<pc, who, asked, filter, pending, closing, links>>

\* Each entry has the handle of some entry.
LEMMA RescanEffect ==
    ASSUME Types, Rescan
    PROVE  Mixes
  <1>1. handle' \in [Devices -> Handles \cup {0}]
    BY DEF Rescan, Types, ProcType
  <1>2. rxq' = <<>> /\ Queued' = {} /\ LastsDiffer(rxq')
    BY DEF Rescan, Queued, Elements, LastsDiffer
  <1> QED
    BY <1>1, <1>2, Same DEF Rescan, Mixes, NoneTaken, ctrlVars

\* Every step does one of these things to what the invariant speaks of.
LEMMA StepEffect ==
    ASSUME Types, Numbered, [Next]_vars
    PROVE  \/ \E call \in {"connect", "disconnect"}, d \in Devices,
                 c \in Command :
                Asks(call, d, c)
           \/ Wait \/ GiveUp
           \/ \E c \in Command, e \in Event : Accepts(c, e)
           \/ \E c \in Command, e \in Event : Declines(c, e)
           \/ \E c \in pending, h \in Handles, e \in Event :
                 Establishes(c, h, e)
           \/ \E c \in pending, e \in Event : FailsToEstablish(c, e)
           \/ \E c \in closing, e \in Event : Ends(c, e)
           \/ \E h \in Handles, e \in Event : Drops(h, e)
           \/ \E d \in Others, h \in Handles, e \in Event :
                 LinksForOther(d, h, e)
           \/ Quiet \/ Mixes
  <1>1. CASE \E d \in Devices : Connect(d) \/ Disconnect(d)
    BY <1>1, AskEffect
  <1>2. CASE Accept \/ Refuse
    BY <1>2, AcceptEffect, RefuseEffect
  <1>3. CASE \/ \E c \in pending, h \in Handles : Establish(c, h)
             \/ \E c \in pending : EstablishFails(c)
    BY <1>3, EstablishEffect, EstablishFailsEffect
  <1>4. CASE \E c \in closing : End(c)
    BY <1>4, EndEffect
  <1>5. CASE \E h \in Handles : Lose(h) \/ OtherDisconnects(h)
    BY <1>5, DropEffect
  <1>6. CASE \E d \in Others, h \in Handles : OtherConnects(d, h)
    BY <1>6, OtherConnectsEffect
  <1>7. CASE UNCHANGED vars \/ \E e \in Lookalike : Unsolicited(e)
    BY <1>7, QuietEffect
  <1>8. CASE Rescan
    BY <1>8, RescanEffect
  <1> QED
    BY <1>1, <1>2, <1>3, <1>4, <1>5, <1>6, <1>7, <1>8 DEF Next

-----------------------------------------------------------------------------
(* Every step preserves each part of the invariant                         *)

\* Every step keeps the types of what the process has.
LEMMA StepProcType ==
    ASSUME Types, [Next]_vars
    PROVE  ProcType'
  <1> USE DEF procVars, ctrlVars
  <1>1. ASSUME NEW d \in Devices, Connect(d)
       PROVE  ProcType'
    <2>1. asked' \in 0 .. MaxAsked /\ asked' > 0
      BY <1>1, LinksAssumption DEF Connect, Ask, Types, ProcType
    <2> QED
      BY <1>1, <2>1, FilterType DEF Connect, Ask, Types, ProcType
  <1>2. ASSUME NEW d \in Devices, Disconnect(d)
       PROVE  ProcType'
    <2>1. asked' \in 0 .. MaxAsked /\ asked' > 0
      BY <1>2, LinksAssumption DEF Disconnect, Ask, Types, ProcType
    <2>2. cause' \subseteq Causes
      BY <1>2 DEF Disconnect, Types, ProcType, Causes
    <2> QED
      BY <1>2, <2>1, <2>2, FilterType DEF Disconnect, Ask, Types, ProcType
  <1>3. CASE Wait
    <2>1. Head(rxq) \in Event
      BY <1>3 DEF Wait, Types, CtrlType
    <2>2. HandleIn(Head(rxq)) \subseteq Handles
      BY <2>1, EventHandle
    <2>3. {"crossed", "garbage", Late[pc]} \subseteq Causes
      <3>1. Late["connect"] = "late link" /\ Late["disconnect"] = "late end"
        BY DEF Late
      <3> QED
        BY <1>3, <3>1 DEF Wait, Types, ProcType, Causes
    <2>4. cause' \subseteq Causes
      BY <1>3, <2>3 DEF Wait, ReturnGarbage, Types, ProcType, CtrlType
    <2> QED
      BY <1>3, <2>2, <2>3, <2>4, FilterType DEF Wait, Return, ReturnGarbage,
         Types, ProcType, CtrlType, ProcType
  <1>4. CASE GiveUp
    <2>1. {"garbage", Late[pc]} \subseteq Causes
      <3>1. Late["connect"] = "late link" /\ Late["disconnect"] = "late end"
        BY DEF Late
      <3> QED
        BY <1>4, <3>1 DEF GiveUp, Types, ProcType, Causes
    <2>2. cause' \subseteq Causes
      BY <1>4, <2>1 DEF GiveUp, ReturnGarbage, Types, ProcType, CtrlType
    <2> QED
      BY <1>4, <2>1, <2>2, FilterType DEF GiveUp, Return, ReturnGarbage, Types,
         ProcType, CtrlType, ProcType
  <1>5. CASE Accept
    BY <1>5, FilterType, LinksAssumption DEF Accept, Allowed, Types, ProcType,
       CtrlType
  <1>6. CASE Refuse
    BY <1>6, FilterType, LinksAssumption DEF Refuse, Allowed, Types, ProcType,
       CtrlType
  <1>7. ASSUME NEW c \in pending, NEW h \in Handles, Establish(c, h)
       PROVE  ProcType'
    BY <1>7, FilterType, LinksAssumption DEF Establish, Types, ProcType,
       CtrlType
  <1>8. ASSUME NEW c \in pending, EstablishFails(c)
       PROVE  ProcType'
    BY <1>8, FilterType, LinksAssumption DEF EstablishFails, Types, ProcType,
       CtrlType
  <1>9. ASSUME NEW c \in closing, End(c)
       PROVE  ProcType'
    BY <1>9, FilterType, LinksAssumption DEF End, Types, ProcType, CtrlType
  <1>10. ASSUME NEW h \in Handles, Lose(h)
        PROVE  ProcType'
    BY <1>10, FilterType, LinksAssumption DEF Lose, Types, ProcType, CtrlType,
       Causes
  <1>11. ASSUME NEW h \in Handles, OtherDisconnects(h)
        PROVE  ProcType'
    BY <1>11, FilterType, LinksAssumption DEF OtherDisconnects, Types,
       ProcType, CtrlType
  <1>12. ASSUME NEW d \in Others, NEW h \in Handles, OtherConnects(d, h)
        PROVE  ProcType'
    BY <1>12, FilterType, LinksAssumption DEF OtherConnects, Types, ProcType,
       CtrlType
  <1>13. ASSUME NEW e \in Lookalike, Unsolicited(e)
        PROVE  ProcType'
    BY <1>13, FilterType, LinksAssumption DEF Unsolicited, Types, ProcType,
       CtrlType
  <1>14. CASE UNCHANGED vars
    BY <1>14, FilterType, LinksAssumption DEF vars, Types, ProcType, CtrlType
  <1>15. CASE Rescan
    <2>1. Mixes /\ cause' \subseteq Causes
      BY <1>15, RescanEffect DEF Mixes, Types, ProcType, Causes
    <2> QED
      BY <2>1 DEF Mixes, Types, ProcType
  <1> QED
    BY <1>1, <1>2, <1>3, <1>4, <1>5, <1>6, <1>7, <1>8, <1>9, <1>10, <1>11,
       <1>12, <1>13, <1>14, <1>15 DEF Next

\* Every step keeps the types of the queues and of the controller's state.
LEMMA StepCtrlType ==
    ASSUME Types, Numbered, EndsOnce, [Next]_vars
    PROVE  CtrlType'
  <1> USE DEF procVars, ctrlVars
  <1>1. ASSUME NEW d \in Devices, Connect(d)
       PROVE  CtrlType'
    BY <1>1, CommandWritten, Same, Ordered, CommandType DEF Connect, Ask,
       Types, CtrlType
  <1>2. ASSUME NEW d \in Devices, Disconnect(d)
       PROVE  CtrlType'
    BY <1>2, CommandWritten, Same, Ordered, CommandType DEF Disconnect, Ask,
       Types, CtrlType
  <1>3. CASE Wait
    BY <1>3, Read, Same, Ordered, CommandType DEF Wait, Return, ReturnGarbage,
       Types, CtrlType
  <1>4. CASE GiveUp
    BY <1>4, Same, Ordered, CommandType DEF GiveUp, Return, ReturnGarbage,
       Types, CtrlType
  <1>5. CASE Accept
    <2> DEFINE c == Head(cmdq)
    <2>1. c \in Command /\ cmdq' \in Seq(Command)
      BY <1>5, CommandTaken DEF Accept
    <2>2. rxq' \in Seq(Event) /\ Len(rxq') <= QueueLen
      BY <1>5, <2>1, StatusEvent, Delivered DEF Accept
    <2>3. CASE c.req = CreateConn
      BY <1>5, <2>1, <2>2, <2>3 DEF Accept, Types, CtrlType
    <2>4. CASE c.req = Disconn
      BY <1>5, <2>1, <2>2, <2>4, RequestFacts DEF Accept, Allowed, Types,
         CtrlType
    <2> QED
      BY <2>1, <2>3, <2>4, CommandType
  <1>6. CASE Refuse
    BY <1>6, CommandTaken, StatusEvent, Delivered, Same, Ordered,
       CommandType DEF Refuse, Allowed, Types, CtrlType
  <1>7. ASSUME NEW c \in pending, NEW h \in Handles, Establish(c, h)
       PROVE  CtrlType'
    BY <1>7, ConnectedEvent, Delivered, Same, Ordered, CommandType DEF
       Establish, Types, CtrlType
  <1>8. ASSUME NEW c \in pending, EstablishFails(c)
       PROVE  CtrlType'
    BY <1>8, ConnectedEvent, Delivered, Same, Ordered, CommandType DEF
       EstablishFails, Types, CtrlType
  <1>9. ASSUME NEW c \in closing, End(c)
       PROVE  CtrlType'
    BY <1>9, DisconnectedEvent, Delivered, Same, Ordered, CommandType DEF End,
       Types, CtrlType
  <1>10. ASSUME NEW h \in Handles, Lose(h)
        PROVE  CtrlType'
    BY <1>10, DisconnectedEvent, Delivered, Same, Ordered, CommandType DEF
       Lose, Types, CtrlType
  <1>11. ASSUME NEW h \in Handles, OtherDisconnects(h)
        PROVE  CtrlType'
    BY <1>11, DisconnectedEvent, Delivered, Same, Ordered, CommandType DEF
       OtherDisconnects, Types, CtrlType
  <1>12. ASSUME NEW d \in Others, NEW h \in Handles, OtherConnects(d, h)
        PROVE  CtrlType'
    BY <1>12, ConnectedEvent, Delivered, Same, Ordered, CommandType DEF
       OtherConnects, Types, CtrlType
  <1>13. ASSUME NEW e \in Lookalike, Unsolicited(e)
        PROVE  CtrlType'
    BY <1>13, ForeignEvent, Delivered, Same, Ordered, CommandType DEF
       Unsolicited, Types, CtrlType
  <1>14. CASE UNCHANGED vars
    BY <1>14, Same, Ordered, CommandType DEF vars, Types, CtrlType
  <1>15. CASE Rescan
    BY <1>15, LinksAssumption DEF Rescan, Types, CtrlType
  <1> QED
    BY <1>1, <1>2, <1>3, <1>4, <1>5, <1>6, <1>7, <1>8, <1>9, <1>10, <1>11,
       <1>12, <1>13, <1>14, <1>15 DEF Next

\* Every step keeps the numbers in order.
LEMMA StepNumbered ==
    ASSUME Types, Numbered, EndsOnce, [Next]_vars
    PROVE  Numbered'
  <1> USE DEF procVars, ctrlVars
  <1>1. ASSUME NEW call \in {"connect", "disconnect"}, NEW d \in Devices,
             NEW c \in Command, Asks(call, d, c)
       PROVE  Numbered'
    BY <1>1, Same, Ordered, CommandType DEF Asks, Numbered
  <1>2. CASE Wait
    BY <1>2, Read, Same, Ordered, CommandType DEF Wait, Return, ReturnGarbage,
       Numbered
  <1>3. CASE GiveUp
    BY <1>3, Same, Ordered, CommandType DEF GiveUp, Return, ReturnGarbage,
       Numbered
  <1>4. ASSUME NEW c \in Command, NEW e \in Event, Accepts(c, e)
       PROVE  Numbered'
    <2>1. /\ \A x \in Queued : x.id # e.id
          /\ \A b \in pending \cup closing : b.id < c.id
      BY <1>4, Ordered DEF Accepts, TakenNext, Numbered
    <2> QED
      BY <1>4, <2>1, Ordered, CommandType DEF Accepts, TakenNext, Added,
         Numbered
  <1>5. ASSUME NEW c \in Command, NEW e \in Event, Declines(c, e)
       PROVE  Numbered'
    <2>1. /\ pending' = pending /\ closing' = closing
          /\ Taken' = Taken + 1 /\ e.id = Taken + 1
          /\ Queued' \subseteq Queued \cup {e}
      BY <1>5 DEF Declines, TakenNext, Added
    <2>2. \A x \in Queued' : x.id <= Taken'
      BY <2>1, Ordered DEF Numbered
    <2>3. \A b \in pending \cup closing : b.id <= Taken'
      BY <2>1, Ordered DEF Numbered
    <2> QED
      BY <1>5, <2>1, <2>2, <2>3 DEF Declines, TakenNext, Numbered
  <1>6. ASSUME NEW c \in pending, NEW h \in Handles, NEW e \in Event,
             Establishes(c, h, e)
       PROVE  Numbered'
    BY <1>6, Same, Ordered, CommandType DEF Establishes, NoneTaken, Added,
       UpNews, Numbered
  <1>7. ASSUME NEW c \in pending, NEW e \in Event, FailsToEstablish(c, e)
       PROVE  Numbered'
    BY <1>7, Same, Ordered, CommandType DEF FailsToEstablish, NoneTaken, Added,
       UpNews, Numbered
  <1>8. ASSUME NEW c \in closing, NEW e \in Event, Ends(c, e)
       PROVE  Numbered'
    BY <1>8, Same, Ordered, CommandType DEF Ends, NoneTaken, Added, DownNews,
       Numbered
  <1>9. ASSUME NEW h \in Handles, NEW e \in Event, Drops(h, e)
       PROVE  Numbered'
    BY <1>9, Same, Ordered, CommandType DEF Drops, NoneTaken, Added, DownNews,
       Numbered
  <1>10. ASSUME NEW d \in Others, NEW h \in Handles, NEW e \in Event,
              LinksForOther(d, h, e)
        PROVE  Numbered'
    BY <1>10, Same, Ordered, CommandType DEF LinksForOther, NoneTaken, Added,
       UpNews, Numbered
  <1>11. CASE Quiet
    BY <1>11, Same, Ordered, CommandType DEF Quiet, NoneTaken, NoNews, Numbered
  <1>12. CASE Mixes
    BY <1>12 DEF Mixes, NoneTaken, Numbered
  <1> QED
    BY <1>1, <1>2, <1>3, <1>4, <1>5, <1>6, <1>7, <1>8, <1>9, <1>10, <1>11,
       <1>12, StepEffect

\* No step reports the end of a command twice.
LEMMA StepEndsOnce ==
    ASSUME Types, Numbered, EndsOnce, [Next]_vars
    PROVE  EndsOnce'
  <1> USE DEF procVars, ctrlVars
  <1>1. ASSUME NEW call \in {"connect", "disconnect"}, NEW d \in Devices,
             NEW c \in Command, Asks(call, d, c)
       PROVE  EndsOnce'
    BY <1>1, Same, Ordered, CommandType DEF Asks, EndsOnce
  <1>2. CASE Wait
    BY <1>2, Read, Same, Ordered, CommandType DEF Wait, Return, ReturnGarbage,
       EndsOnce
  <1>3. CASE GiveUp
    BY <1>3, Same, Ordered, CommandType DEF GiveUp, Return, ReturnGarbage,
       EndsOnce
  <1>4. ASSUME NEW c \in Command, NEW e \in Event, Accepts(c, e)
       PROVE  EndsOnce'
    <2>1. /\ \A x \in Queued : x.id # e.id
          /\ \A b \in pending \cup closing : b.id < c.id
      BY <1>4, Ordered DEF Accepts, TakenNext, Numbered
    <2> QED
      BY <1>4, <2>1, Ordered, CommandType DEF Accepts, TakenNext, Added,
         EndsOnce
  <1>5. ASSUME NEW c \in Command, NEW e \in Event, Declines(c, e)
       PROVE  EndsOnce'
    <2>1. /\ \A x \in Queued : x.id # e.id
          /\ \A b \in pending \cup closing : b.id < c.id
      BY <1>5, Ordered DEF Declines, TakenNext, Numbered
    <2> QED
      BY <1>5, <2>1, Ordered, CommandType DEF Declines, TakenNext, Added,
         EndsOnce
  <1>6. ASSUME NEW c \in pending, NEW h \in Handles, NEW e \in Event,
             Establishes(c, h, e)
       PROVE  EndsOnce'
    <2>1. \A x \in Queued : Last(x) => x.id # e.id
      BY <1>6 DEF Establishes, EndsOnce
    <2> QED
      BY <1>6, <2>1, Ordered DEF Establishes, Added, EndsOnce, Numbered
  <1>7. ASSUME NEW c \in pending, NEW e \in Event, FailsToEstablish(c, e)
       PROVE  EndsOnce'
    <2>1. \A x \in Queued : Last(x) => x.id # e.id
      BY <1>7 DEF FailsToEstablish, EndsOnce
    <2> QED
      BY <1>7, <2>1, Ordered DEF FailsToEstablish, Added, EndsOnce, Numbered
  <1>8. ASSUME NEW c \in closing, NEW e \in Event, Ends(c, e)
       PROVE  EndsOnce'
    <2>1. \A x \in Queued : Last(x) => x.id # e.id
      BY <1>8 DEF Ends, EndsOnce
    <2> QED
      BY <1>8, <2>1, Ordered DEF Ends, Added, EndsOnce, Numbered
  <1>9. ASSUME NEW h \in Handles, NEW e \in Event, Drops(h, e)
       PROVE  EndsOnce'
    BY <1>9, Same, Ordered, CommandType DEF Drops, NoneTaken, Added, DownNews,
       EndsOnce
  <1>10. ASSUME NEW d \in Others, NEW h \in Handles, NEW e \in Event,
              LinksForOther(d, h, e)
        PROVE  EndsOnce'
    BY <1>10, Same, Ordered, CommandType DEF LinksForOther, NoneTaken, Added,
       UpNews, EndsOnce
  <1>11. CASE Quiet
    BY <1>11, Same, Ordered, CommandType DEF Quiet, NoneTaken, NoNews, EndsOnce
  <1>12. CASE Mixes
    BY <1>12 DEF Mixes, EndsOnce
  <1> QED
    BY <1>1, <1>2, <1>3, <1>4, <1>5, <1>6, <1>7, <1>8, <1>9, <1>10, <1>11,
       <1>12, StepEffect

\* The command of the call is not changed on its way.
LEMMA StepOfCall ==
    ASSUME Types, Numbered, OfCall, [Next]_vars
    PROVE  OfCall'
  <1> USE DEF procVars, ctrlVars
  <1>1. ASSUME NEW call \in {"connect", "disconnect"}, NEW d \in Devices,
             NEW c \in Command, Asks(call, d, c)
       PROVE  OfCall'
    <2>1. \A b \in Waits \cup pending \cup closing : b.id # asked'
      BY <1>1, Ordered DEF Asks, Numbered
    <2> QED
      BY <1>1, <2>1 DEF Asks, OfCall
  <1>2. CASE Wait
    BY <1>2, Same, Ordered, CommandType DEF Wait, Return, ReturnGarbage, OfCall
  <1>3. CASE GiveUp
    BY <1>3, Same, Ordered, CommandType DEF GiveUp, Return, ReturnGarbage,
       OfCall
  <1>4. ASSUME NEW c \in Command, NEW e \in Event, Accepts(c, e)
       PROVE  OfCall'
    BY <1>4, Same, Ordered, CommandType DEF Accepts, TakenNext, Added, NoNews,
       OfCall
  <1>5. ASSUME NEW c \in Command, NEW e \in Event, Declines(c, e)
       PROVE  OfCall'
    BY <1>5, Same, Ordered, CommandType DEF Declines, TakenNext, Added, OfCall
  <1>6. ASSUME NEW c \in pending, NEW h \in Handles, NEW e \in Event,
             Establishes(c, h, e)
       PROVE  OfCall'
    BY <1>6, Same, Ordered, CommandType DEF Establishes, NoneTaken, Added,
       UpNews, OfCall
  <1>7. ASSUME NEW c \in pending, NEW e \in Event, FailsToEstablish(c, e)
       PROVE  OfCall'
    BY <1>7, Same, Ordered, CommandType DEF FailsToEstablish, NoneTaken, Added,
       UpNews, OfCall
  <1>8. ASSUME NEW c \in closing, NEW e \in Event, Ends(c, e)
       PROVE  OfCall'
    BY <1>8, Same, Ordered, CommandType DEF Ends, NoneTaken, Added, DownNews,
       OfCall
  <1>9. ASSUME NEW h \in Handles, NEW e \in Event, Drops(h, e)
       PROVE  OfCall'
    BY <1>9, Same, Ordered, CommandType DEF Drops, NoneTaken, Added, DownNews,
       OfCall
  <1>10. ASSUME NEW d \in Others, NEW h \in Handles, NEW e \in Event,
              LinksForOther(d, h, e)
        PROVE  OfCall'
    BY <1>10, Same, Ordered, CommandType DEF LinksForOther, NoneTaken, Added,
       UpNews, OfCall
  <1>11. CASE Quiet
    BY <1>11, Same, Ordered, CommandType DEF Quiet, NoneTaken, NoNews, OfCall
  <1>12. CASE Mixes
    BY <1>12 DEF Mixes, OfCall
  <1> QED
    BY <1>1, <1>2, <1>3, <1>4, <1>5, <1>6, <1>7, <1>8, <1>9, <1>10, <1>11,
       <1>12, StepEffect

\* No device gets a link while one to it is being set up.
LEMMA StepFree ==
    ASSUME Types, Numbered, Free, [Next]_vars
    PROVE  Free'
  <1> USE DEF procVars, ctrlVars
  <1>1. ASSUME NEW call \in {"connect", "disconnect"}, NEW d \in Devices,
             NEW c \in Command, Asks(call, d, c)
       PROVE  Free'
    BY <1>1, Same, LinksAssumption DEF Asks, Free, Linked
  <1>2. CASE Wait
    BY <1>2, Same, LinksAssumption DEF Wait, Return, ReturnGarbage, Free,
       Linked
  <1>3. CASE GiveUp
    BY <1>3, Same, LinksAssumption DEF GiveUp, Return, ReturnGarbage, Free,
       Linked
  <1>4. ASSUME NEW c \in Command, NEW e \in Event, Accepts(c, e)
       PROVE  Free'
    BY <1>4, Same, LinksAssumption, CommandType DEF Accepts, TakenNext, Added,
       NoNews, Free, Linked
  <1>5. ASSUME NEW c \in Command, NEW e \in Event, Declines(c, e)
       PROVE  Free'
    BY <1>5, Same, LinksAssumption DEF Declines, TakenNext, Added, Free, Linked
  <1>6. ASSUME NEW c \in pending, NEW h \in Handles, NEW e \in Event,
             Establishes(c, h, e)
       PROVE  Free'
    BY <1>6, Same, LinksAssumption DEF Establishes, NoneTaken, Added, UpNews,
       Free, Linked, Types, CtrlType
  <1>7. ASSUME NEW c \in pending, NEW e \in Event, FailsToEstablish(c, e)
       PROVE  Free'
    BY <1>7, Same, LinksAssumption DEF FailsToEstablish, NoneTaken, Added,
       UpNews, Free, Linked
  <1>8. ASSUME NEW c \in closing, NEW e \in Event, Ends(c, e)
       PROVE  Free'
    <2>1. \A b \in pending : b.arg # NoDevice
      BY CommandType, LinksAssumption DEF Types, CtrlType
    <2>2. /\ pending' = pending
          /\ \A k \in Handles : links'[k] = links[k] \/ links'[k] = NoDevice
      BY <1>8 DEF Ends, Types, CtrlType
    <2> QED
      BY <2>1, <2>2 DEF Free, Linked
  <1>9. ASSUME NEW h \in Handles, NEW e \in Event, Drops(h, e)
       PROVE  Free'
    <2>1. \A b \in pending : b.arg # NoDevice
      BY CommandType, LinksAssumption DEF Types, CtrlType
    <2>2. /\ pending' = pending
          /\ \A k \in Handles : links'[k] = links[k] \/ links'[k] = NoDevice
      BY <1>9 DEF Drops, Types, CtrlType
    <2> QED
      BY <2>1, <2>2 DEF Free, Linked
  <1>10. ASSUME NEW d \in Others, NEW h \in Handles, NEW e \in Event,
              LinksForOther(d, h, e)
        PROVE  Free'
    <2>1. \A b \in pending : b.arg # d
      BY CommandType, LinksAssumption DEF Types, CtrlType
    <2>2. /\ pending' = pending
          /\ \A k \in Handles : links'[k] = links[k] \/ links'[k] = d
      BY <1>10 DEF LinksForOther, Types, CtrlType
    <2> QED
      BY <2>1, <2>2 DEF Free, Linked
  <1>11. CASE Quiet
    BY <1>11, Same, LinksAssumption DEF Quiet, NoneTaken, NoNews, Free, Linked
  <1>12. CASE Mixes
    BY <1>12 DEF Mixes, Free, Linked
  <1> QED
    BY <1>1, <1>2, <1>3, <1>4, <1>5, <1>6, <1>7, <1>8, <1>9, <1>10, <1>11,
       <1>12, StepEffect

\* As long as no disconnect is left behind, there is one at a time.
LEMMA StepOneEnd ==
    ASSUME Types, Numbered, EndsOnce, OneEnd, [Next]_vars
    PROVE  OneEnd'
  <1> USE DEF procVars, ctrlVars
  <1>1. ASSUME NEW call \in {"connect", "disconnect"}, NEW d \in Devices,
             NEW c \in Command, Asks(call, d, c)
       PROVE  OneEnd'
    BY <1>1, OtherRequest DEF Asks, OneEnd, NoLateEnd
  <1>2. CASE Wait
    <2> DEFINE e == Head(rxq)
    <2>1. /\ e \in Event /\ e \in Queued /\ Queued' \subseteq Queued
          /\ \A x \in Queued' : Last(x) /\ Last(e) => x.id # e.id
      BY <1>2, Read DEF Wait
    <2>2. /\ UNCHANGED <<asked, cmdq, pending, closing>>
          /\ NoLateEnd' => NoLateEnd
          /\ pc # "idle" /\ asked > 0
      BY <1>2 DEF Wait, ReturnGarbage, NoLateEnd, Types, ProcType
    <2>3. CASE NoLateEnd' /\ Last(e) /\ e.id = asked
      <3>1. \A x \in Queued' : ~(x.id # 0 /\ (LinkDown(x) \/ EndRefused(x)))
        BY <2>1, <2>2, <2>3 DEF OneEnd, Last, EndRefused, LinkDown,
           EVT_CMD_STATUS, EVT_LE_META_EVENT, EVT_DISCONN_COMPLETE
      <3>2. \A c \in Waits \cup closing : c.id # asked
        BY <2>1, <2>3, Ordered DEF EndsOnce, Numbered
      <3> QED
        BY <2>2, <2>3, <3>1, <3>2, Same DEF OneEnd
    <2>4. CASE pc' = pc
      BY <2>1, <2>2, <2>4, Same DEF OneEnd
    <2>5. CASE NoLateEnd' /\ pc' # pc /\ ~(Last(e) /\ e.id = asked)
      <3>1. CASE Answers(Current, e)
        <4>1. e.id # asked
          BY <2>1, <2>2, <2>5, <3>1, OwnAnswer DEF Types, ProcType
        <4> QED
          BY <1>2, <2>5, <3>1, <4>1, NotBoth DEF Wait, NoLateEnd
      <3>2. CASE Refuses(Current, e)
        <4>1. Last(e) /\ (pc = "disconnect" => EndRefused(e))
          BY <2>2, <3>2, <2>1, OwnRefusal DEF Types, ProcType
        <4>2. pc # "disconnect"
          BY <2>1, <2>2, <2>5, <4>1 DEF OneEnd, Last
        <4> QED
          BY <2>1, <2>2, <2>5, <4>2, Same DEF OneEnd
      <3> QED
        BY <1>2, <2>5, <3>1, <3>2 DEF Wait
    <2> QED
      BY <2>3, <2>4, <2>5 DEF OneEnd
  <1>3. CASE GiveUp
    <2>1. UNCHANGED <<asked, rxq, cmdq, pending, closing>> /\ pc # "idle"
      BY <1>3 DEF GiveUp
    <2>2. cause \cup {Late[pc]} \subseteq cause'
      BY <1>3 DEF GiveUp, ReturnGarbage
    <2>3. CASE pc = "disconnect"
      <3>1. "late end" \in cause'
        BY <2>2, <2>3 DEF Late
      <3> QED
        BY <3>1 DEF OneEnd, NoLateEnd
    <2>4. CASE pc # "disconnect"
      <3>1. NoLateEnd' => NoLateEnd
        BY <2>2 DEF NoLateEnd
      <3> QED
        BY <2>1, <2>4, <3>1, Same DEF OneEnd
    <2> QED
      BY <2>3, <2>4
  <1>4. ASSUME NEW c \in Command, NEW e \in Event, Accepts(c, e)
       PROVE  OneEnd'
    BY <1>4, OtherRequest DEF Accepts, TakenNext, Added, NoNews, OneEnd,
       NoLateEnd
  <1>5. ASSUME NEW c \in Command, NEW e \in Event, Declines(c, e)
       PROVE  OneEnd'
    BY <1>5, Same DEF Declines, TakenNext, Added, OneEnd, NoLateEnd
  <1>6. ASSUME NEW c \in pending, NEW h \in Handles, NEW e \in Event,
             Establishes(c, h, e)
       PROVE  OneEnd'
    BY <1>6, Same DEF Establishes, NoneTaken, Added, UpNews, OneEnd, NoLateEnd
  <1>7. ASSUME NEW c \in pending, NEW e \in Event, FailsToEstablish(c, e)
       PROVE  OneEnd'
    BY <1>7, Same DEF FailsToEstablish, NoneTaken, Added, UpNews, OneEnd,
       NoLateEnd
  <1>8. ASSUME NEW c \in closing, NEW e \in Event, Ends(c, e)
       PROVE  OneEnd'
    BY <1>8 DEF Ends, NoneTaken, Added, DownNews, OneEnd, NoLateEnd, Types,
       CtrlType
  <1>9. ASSUME NEW h \in Handles, NEW e \in Event, Drops(h, e)
       PROVE  OneEnd'
    BY <1>9, Same DEF Drops, NoneTaken, Added, DownNews, OneEnd, NoLateEnd
  <1>10. ASSUME NEW d \in Others, NEW h \in Handles, NEW e \in Event,
              LinksForOther(d, h, e)
        PROVE  OneEnd'
    BY <1>10, Same DEF LinksForOther, NoneTaken, Added, UpNews, OneEnd,
       NoLateEnd
  <1>11. CASE Quiet
    BY <1>11, Same DEF Quiet, NoneTaken, NoNews, OneEnd, NoLateEnd
  <1>12. CASE Mixes
    BY <1>12 DEF Mixes, OneEnd, NoLateEnd
  <1> QED
    BY <1>1, <1>2, <1>3, <1>4, <1>5, <1>6, <1>7, <1>8, <1>9, <1>10, <1>11,
       <1>12, StepEffect

\* As long as no connect is left behind, there is one at a time.
LEMMA StepOneLink ==
    ASSUME Types, Numbered, EndsOnce, OneLink, [Next]_vars
    PROVE  OneLink'
  <1> USE DEF procVars, ctrlVars
  <1>1. ASSUME NEW call \in {"connect", "disconnect"}, NEW d \in Devices,
             NEW c \in Command, Asks(call, d, c)
       PROVE  OneLink'
    BY <1>1, OtherRequest DEF Asks, OneLink, NoLateLink
  <1>2. CASE Wait
    <2> DEFINE e == Head(rxq)
    <2>1. /\ e \in Event /\ e \in Queued /\ Queued' \subseteq Queued
          /\ \A x \in Queued' : Last(x) /\ Last(e) => x.id # e.id
      BY <1>2, Read DEF Wait
    <2>2. /\ UNCHANGED <<asked, cmdq, pending, closing>>
          /\ NoLateLink' => NoLateLink
          /\ pc # "idle" /\ asked > 0
      BY <1>2 DEF Wait, ReturnGarbage, NoLateLink, Types, ProcType
    <2>3. CASE NoLateLink' /\ Last(e) /\ e.id = asked
      <3>1. \A x \in Queued' : ~(x.id # 0 /\ (LinkUp(x) \/ LinkRefused(x)))
        BY <2>1, <2>2, <2>3 DEF OneLink, Last, LinkRefused, LinkUp,
           EVT_CMD_STATUS, EVT_LE_META_EVENT, EVT_DISCONN_COMPLETE
      <3>2. \A c \in Waits \cup pending : c.id # asked
        BY <2>1, <2>3, Ordered DEF EndsOnce, Numbered
      <3> QED
        BY <2>2, <2>3, <3>1, <3>2, Same DEF OneLink
    <2>4. CASE pc' = pc
      BY <2>1, <2>2, <2>4, Same DEF OneLink
    <2>5. CASE NoLateLink' /\ pc' # pc /\ ~(Last(e) /\ e.id = asked)
      <3>1. CASE Answers(Current, e)
        <4>1. e.id # asked
          BY <2>1, <2>2, <2>5, <3>1, OwnAnswer DEF Types, ProcType
        <4> QED
          BY <1>2, <2>5, <3>1, <4>1, NotBoth DEF Wait, NoLateLink
      <3>2. CASE Refuses(Current, e)
        <4>1. Last(e) /\ (pc = "connect" => LinkRefused(e))
          BY <2>2, <3>2, <2>1, OwnRefusal DEF Types, ProcType
        <4>2. pc # "connect"
          BY <2>1, <2>2, <2>5, <4>1 DEF OneLink, Last
        <4> QED
          BY <2>1, <2>2, <2>5, <4>2, Same DEF OneLink
      <3> QED
        BY <1>2, <2>5, <3>1, <3>2 DEF Wait
    <2> QED
      BY <2>3, <2>4, <2>5 DEF OneLink
  <1>3. CASE GiveUp
    <2>1. UNCHANGED <<asked, rxq, cmdq, pending, closing>> /\ pc # "idle"
      BY <1>3 DEF GiveUp
    <2>2. cause \cup {Late[pc]} \subseteq cause'
      BY <1>3 DEF GiveUp, ReturnGarbage
    <2>3. CASE pc = "connect"
      <3>1. "late link" \in cause'
        BY <2>2, <2>3 DEF Late
      <3> QED
        BY <3>1 DEF OneLink, NoLateLink
    <2>4. CASE pc # "connect"
      <3>1. NoLateLink' => NoLateLink
        BY <2>2 DEF NoLateLink
      <3> QED
        BY <2>1, <2>4, <3>1, Same DEF OneLink
    <2> QED
      BY <2>3, <2>4
  <1>4. ASSUME NEW c \in Command, NEW e \in Event, Accepts(c, e)
       PROVE  OneLink'
    BY <1>4, OtherRequest DEF Accepts, TakenNext, Added, NoNews, OneLink,
       NoLateLink
  <1>5. ASSUME NEW c \in Command, NEW e \in Event, Declines(c, e)
       PROVE  OneLink'
    BY <1>5, Same DEF Declines, TakenNext, Added, OneLink, NoLateLink
  <1>6. ASSUME NEW c \in pending, NEW h \in Handles, NEW e \in Event,
             Establishes(c, h, e)
       PROVE  OneLink'
    BY <1>6 DEF Establishes, NoneTaken, Added, UpNews, OneLink, NoLateLink,
       Types, CtrlType
  <1>7. ASSUME NEW c \in pending, NEW e \in Event, FailsToEstablish(c, e)
       PROVE  OneLink'
    BY <1>7 DEF FailsToEstablish, NoneTaken, Added, UpNews, OneLink,
       NoLateLink, Types, CtrlType
  <1>8. ASSUME NEW c \in closing, NEW e \in Event, Ends(c, e)
       PROVE  OneLink'
    BY <1>8, Same DEF Ends, NoneTaken, Added, DownNews, OneLink, NoLateLink
  <1>9. ASSUME NEW h \in Handles, NEW e \in Event, Drops(h, e)
       PROVE  OneLink'
    BY <1>9, Same DEF Drops, NoneTaken, Added, DownNews, OneLink, NoLateLink
  <1>10. ASSUME NEW d \in Others, NEW h \in Handles, NEW e \in Event,
              LinksForOther(d, h, e)
        PROVE  OneLink'
    BY <1>10, Same DEF LinksForOther, NoneTaken, Added, UpNews, OneLink,
       NoLateLink
  <1>11. CASE Quiet
    BY <1>11, Same DEF Quiet, NoneTaken, NoNews, OneLink, NoLateLink
  <1>12. CASE Mixes
    BY <1>12 DEF Mixes, OneLink, NoLateLink
  <1> QED
    BY <1>1, <1>2, <1>3, <1>4, <1>5, <1>6, <1>7, <1>8, <1>9, <1>10, <1>11,
       <1>12, StepEffect

\* Every step keeps the handles those of links to their devices.
LEMMA StepHandlesHold ==
    ASSUME Types, Numbered, EndsOnce, OfCall, OneEnd, HandlesHold,
           LinksHold, [Next]_vars
    PROVE  HandlesHold'
  <1> USE DEF procVars, ctrlVars
  <1>1. ASSUME NEW call \in {"connect", "disconnect"}, NEW d \in Devices,
             NEW c \in Command, Asks(call, d, c)
       PROVE  HandlesHold'
    BY <1>1 DEF Asks, HandlesHold, Tracked, NoLateEnd, Ended
  <1>2. CASE Wait
    <2> DEFINE e == Head(rxq)
    <2>1. /\ e \in Event /\ e \in Queued /\ Queued' \subseteq Queued
      BY <1>2, Read DEF Wait
    <2>2. /\ UNCHANGED <<asked, cmdq, pending, closing, links>>
          /\ Tracked' => Tracked
      BY <1>2 DEF Wait, ReturnGarbage, Tracked, NoLateEnd
    <2>3. /\ pc \in {"connect", "disconnect"} /\ asked > 0 /\ asked \in Nat
          /\ who \in Devices /\ handle \in [Devices -> Handles \cup {0}]
      BY <1>2 DEF Wait, Types, ProcType
    <2>4. CASE Answers(Current, e) /\ e.id = asked /\ Tracked'
      <3>1. /\ pc = "connect" => LinkUp(e) /\ HandleIn(e) = {e.handle}
            /\ pc = "disconnect" => LinkDown(e) /\ e.status = 0
        BY <2>1, <2>2, <2>3, <2>4, OwnAnswer
      <3>2. PICK h \in HandleIn(e) : Return(e.status = 0, h)
        BY <1>2, <2>4, NotBoth DEF Wait
      <3>3. CASE pc = "connect"
        <4>1. e.status = 0 => links[e.handle] = who
          BY <2>1, <2>2, <2>3, <2>4, <3>1, <3>3 DEF LinksHold
        <4> QED
          BY <2>2, <2>3, <2>4, <3>1, <3>2, <3>3, <4>1 DEF Return, HandlesHold,
             Ended
      <3>4. CASE pc = "disconnect"
        BY <2>2, <2>3, <2>4, <3>1, <3>2, <3>4 DEF Return, HandlesHold, Ended
      <3> QED
        BY <2>2, <2>3, <3>3, <3>4
    <2>5. CASE Answers(Current, e) /\ e.id # asked
      BY <1>2, <2>5, NotBoth DEF Wait, HandlesHold, Tracked, NoLateEnd
    <2>6. CASE Refuses(Current, e) /\ Tracked'
      <3>1. ~Ended
        BY <2>1, <2>2, <2>3, <2>6, OwnRefusal DEF Ended
      <3>2. handle' = handle
        BY <1>2, <2>6, NotBoth DEF Wait, ReturnGarbage, Return, Tracked,
           NoLateEnd
      <3> QED
        BY <2>2, <2>3, <2>6, <3>1, <3>2 DEF HandlesHold
    <2>7. CASE ~Answers(Current, e) /\ ~Refuses(Current, e)
      <3>1. UNCHANGED <<pc, who, handle>>
        BY <1>2, <2>7 DEF Wait
      <3> QED
        BY <2>1, <2>2, <2>3, <3>1, Same DEF HandlesHold, Ended
    <2> QED
      BY <2>4, <2>5, <2>6, <2>7 DEF HandlesHold
  <1>3. CASE GiveUp
    <2>1. links' = links /\ cause \cup {Late[pc]} \subseteq cause'
      BY <1>3 DEF GiveUp, ReturnGarbage, ctrlVars
    <2>2. CASE pc = "disconnect"
      <3>1. "late end" \in cause'
        BY <2>1, <2>2 DEF Late
      <3> QED
        BY <3>1 DEF HandlesHold, Tracked, NoLateEnd
    <2>3. CASE pc # "disconnect" /\ Tracked'
      <3>1. handle' = handle /\ Tracked
        BY <1>3, <2>1, <2>3 DEF GiveUp, ReturnGarbage, Return, Tracked,
           NoLateEnd
      <3> QED
        BY <2>1, <2>3, <3>1 DEF HandlesHold, Ended
    <2> QED
      BY <2>2, <2>3 DEF HandlesHold
  <1>4. ASSUME NEW c \in Command, NEW e \in Event, Accepts(c, e)
       PROVE  HandlesHold'
    <2>1. /\ closing' \subseteq closing \cup {c}
          /\ Waits' \subseteq Waits /\ c \in Waits
      BY <1>4, OtherRequest DEF Accepts, TakenNext
    <2>2. Ended => Ended'
      BY <1>4, <2>1 DEF Accepts, Added, NoNews, Ended
    <2> QED
      BY <1>4, <2>2 DEF Accepts, Added, HandlesHold, Tracked, NoLateEnd
  <1>5. ASSUME NEW c \in Command, NEW e \in Event, Declines(c, e)
       PROVE  HandlesHold'
    <2>1. NoLateEnd /\ Ended => Ended'
      BY <1>5 DEF Declines, TakenNext, Added, Ended, OneEnd
    <2> QED
      BY <1>5, <2>1 DEF Declines, Added, HandlesHold, Tracked, NoLateEnd
  <1>6. ASSUME NEW c \in pending, NEW h \in Handles, NEW e \in Event,
             Establishes(c, h, e)
       PROVE  HandlesHold'
    <2>1. /\ pc # "idle" => who \in Devices /\ asked > 0
          /\ handle \in [Devices -> Handles \cup {0}]
          /\ links \in [Handles -> Devices \cup Others \cup {NoDevice}]
      BY DEF Types, ProcType, CtrlType
    <2>2. Ended => Ended'
      BY <1>6 DEF Establishes, NoneTaken, Added, UpNews, DownNews, Ended
    <2>3. ASSUME Tracked', NEW d1 \in Devices, handle[d1] # 0,
                 links[handle[d1]] = d1
          PROVE  links'[handle[d1]] = d1
      BY <2>1, <1>6, <2>3, LinksAssumption DEF Establishes, Tracked
    <2>4. (Tracked' => Tracked) /\ UNCHANGED <<who, handle>>
      BY <1>6 DEF Establishes, Added, Tracked, NoLateEnd
    <2> QED
      BY <2>2, <2>3, <2>4 DEF HandlesHold
  <1>7. ASSUME NEW c \in pending, NEW e \in Event, FailsToEstablish(c, e)
       PROVE  HandlesHold'
    <2>1. /\ pc # "idle" => who \in Devices /\ asked > 0
          /\ handle \in [Devices -> Handles \cup {0}]
          /\ links \in [Handles -> Devices \cup Others \cup {NoDevice}]
      BY DEF Types, ProcType, CtrlType
    <2>2. Ended => Ended'
      BY <1>7 DEF FailsToEstablish, NoneTaken, Added, UpNews, DownNews, Ended
    <2>3. ASSUME Tracked', NEW d1 \in Devices, handle[d1] # 0,
                 links[handle[d1]] = d1
          PROVE  links'[handle[d1]] = d1
      BY <2>1, <1>7, <2>3, LinksAssumption DEF FailsToEstablish, Tracked
    <2>4. (Tracked' => Tracked) /\ UNCHANGED <<who, handle>>
      BY <1>7 DEF FailsToEstablish, Added, Tracked, NoLateEnd
    <2> QED
      BY <2>2, <2>3, <2>4 DEF HandlesHold
  <1>8. ASSUME NEW c \in closing, NEW e \in Event, Ends(c, e)
       PROVE  HandlesHold'
    <2>1. /\ pc # "idle" => who \in Devices /\ asked > 0
          /\ handle \in [Devices -> Handles \cup {0}]
          /\ links \in [Handles -> Devices \cup Others \cup {NoDevice}]
      BY DEF Types, ProcType, CtrlType
    <2> SUFFICES ASSUME Tracked'
                 PROVE  HandlesHold'
      BY DEF HandlesHold
    <2>2. Tracked /\ UNCHANGED <<pc, who, handle, asked>>
      BY <1>8 DEF Ends, Added, Tracked, NoLateEnd
    <2>3. /\ pc = "disconnect" /\ c.id = asked /\ c.handle = handle[who]
          /\ c.handle \in Handles
      BY <2>2 DEF Tracked, OneEnd, OfCall, Types, CtrlType
    <2>4. \A d \in Devices : handle[d] # 0 => links[handle[d]] = d
      BY <2>2, <2>3 DEF HandlesHold, Ended
    <2>5. Ended'
      <3>1. \A b \in Waits' \cup closing' : b.id # asked'
        BY <1>8, <2>2, <2>3, Ordered DEF Ends, NoneTaken, Numbered
      <3>2. \A x \in Queued' : ~EndRefused(x)
        <4>1. \A x \in Queued : ~EndRefused(x)
          <5>1. \A x \in Queued : EndRefused(x) => Last(x) /\ x.id # 0
            BY OwnLast, Ordered
          <5>2. \A x \in Queued : EndRefused(x) => x.id = asked
            BY <5>1, <2>2 DEF Tracked, OneEnd
          <5>3. \A x \in Queued : Last(x) => x.id # asked
            BY <2>3 DEF EndsOnce
          <5> QED
            BY <5>1, <5>2, <5>3
        <4> QED
          BY <1>8, <4>1 DEF Ends, Added, DownNews
      <3> QED
        BY <2>2, <2>3, <3>1, <3>2 DEF Ended
    <2>6. \A d \in Devices \ {who} : handle[d] # 0 => links'[handle[d]] = d
      BY <2>1, <1>8, <2>3, <2>4 DEF Ends
    <2> QED
      BY <2>2, <2>5, <2>6 DEF HandlesHold
  <1>9. ASSUME NEW h \in Handles, NEW e \in Event, Drops(h, e)
       PROVE  HandlesHold'
    <2>1. /\ pc # "idle" => who \in Devices /\ asked > 0
          /\ handle \in [Devices -> Handles \cup {0}]
          /\ links \in [Handles -> Devices \cup Others \cup {NoDevice}]
      BY DEF Types, ProcType, CtrlType
    <2>2. Ended => Ended'
      BY <1>9 DEF Drops, NoneTaken, Added, UpNews, DownNews, Ended
    <2>3. ASSUME Tracked', NEW d1 \in Devices, handle[d1] # 0,
                 links[handle[d1]] = d1
          PROVE  links'[handle[d1]] = d1
      BY <2>1, <1>9, <2>3, LinksAssumption DEF Drops, Tracked
    <2>4. (Tracked' => Tracked) /\ UNCHANGED <<who, handle>>
      BY <1>9 DEF Drops, Added, Tracked, NoLateEnd
    <2> QED
      BY <2>2, <2>3, <2>4 DEF HandlesHold
  <1>10. ASSUME NEW d \in Others, NEW h \in Handles, NEW e \in Event,
              LinksForOther(d, h, e)
        PROVE  HandlesHold'
    <2>1. /\ pc # "idle" => who \in Devices /\ asked > 0
          /\ handle \in [Devices -> Handles \cup {0}]
          /\ links \in [Handles -> Devices \cup Others \cup {NoDevice}]
      BY DEF Types, ProcType, CtrlType
    <2>2. Ended => Ended'
      BY <1>10 DEF LinksForOther, NoneTaken, Added, UpNews, DownNews, Ended
    <2>3. ASSUME Tracked', NEW d1 \in Devices, handle[d1] # 0,
                 links[handle[d1]] = d1
          PROVE  links'[handle[d1]] = d1
      BY <2>1, <1>10, <2>3, LinksAssumption DEF LinksForOther, Tracked
    <2>4. (Tracked' => Tracked) /\ UNCHANGED <<who, handle>>
      BY <1>10 DEF LinksForOther, Added, Tracked, NoLateEnd
    <2> QED
      BY <2>2, <2>3, <2>4 DEF HandlesHold
  <1>11. CASE Quiet
    <2>1. Ended => Ended'
      BY <1>11 DEF Quiet, NoneTaken, NoNews, Ended
    <2> QED
      BY <1>11, <2>1 DEF Quiet, HandlesHold, Tracked, NoLateEnd
  <1>12. CASE Mixes
    BY <1>12 DEF Mixes, HandlesHold, Tracked, NoLateEnd
  <1> QED
    BY <1>1, <1>2, <1>3, <1>4, <1>5, <1>6, <1>7, <1>8, <1>9, <1>10, <1>11,
       <1>12, StepEffect

\* Every step keeps a handle about to be read that of a link.
LEMMA StepLinksHold ==
    ASSUME Types, Numbered, EndsOnce, OfCall, OneEnd, LinksHold,
           [Next]_vars
    PROVE  LinksHold'
  <1> USE DEF procVars, ctrlVars
  <1>1. ASSUME NEW call \in {"connect", "disconnect"}, NEW d \in Devices,
             NEW c \in Command, Asks(call, d, c)
       PROVE  LinksHold'
    <2>1. \A x \in Queued : x.id # asked'
      BY <1>1, Ordered DEF Asks, Numbered
    <2> QED
      BY <1>1, <2>1 DEF Asks, LinksHold
  <1>2. CASE Wait
    <2>1. Queued' \subseteq Queued
      BY <1>2, Read DEF Wait
    <2>2. UNCHANGED <<asked, links>> /\ (Tracked' => Tracked)
      BY <1>2 DEF Wait, ReturnGarbage, Tracked, NoLateEnd
    <2>3. pc' = "idle" \/ UNCHANGED <<pc, who>>
      BY <1>2 DEF Wait, ReturnGarbage, Return
    <2> QED
      BY <2>1, <2>2, <2>3 DEF LinksHold
  <1>3. CASE GiveUp
    BY <1>3 DEF GiveUp, Return, ReturnGarbage, LinksHold
  <1>4. ASSUME NEW c \in Command, NEW e \in Event, Accepts(c, e)
       PROVE  LinksHold'
    BY <1>4 DEF Accepts, Added, NoNews, LinksHold, Tracked, NoLateEnd
  <1>5. ASSUME NEW c \in Command, NEW e \in Event, Declines(c, e)
       PROVE  LinksHold'
    BY <1>5 DEF Declines, Added, NoNews, LinksHold, Tracked, NoLateEnd
  <1>6. ASSUME NEW c \in pending, NEW h \in Handles, NEW e \in Event,
             Establishes(c, h, e)
       PROVE  LinksHold'
    <2>1. /\ pc # "idle" => who \in Devices /\ asked > 0
          /\ handle \in [Devices -> Handles \cup {0}]
          /\ links \in [Handles -> Devices \cup Others \cup {NoDevice}]
      BY DEF Types, ProcType, CtrlType
    <2>2. SUFFICES ASSUME Tracked', pc = "connect", NEW x \in Queued',
                          LinkUp(x), x.id = asked, x.status = 0
                   PROVE  links'[x.handle] = who
      BY <1>6 DEF Establishes, Added, LinksHold
    <2>3. Tracked
      BY <1>6, <2>2 DEF Establishes, Tracked, NoLateEnd
    <2>4. CASE x \in Queued
      <3>1. links[x.handle] = who /\ x.handle \in Handles
        BY <2>2, <2>3, <2>4, UpHandle, Ordered DEF LinksHold
      <3> QED
        BY <2>1, <1>6, <2>2, <3>1, LinksAssumption DEF Establishes, Tracked
    <2>5. CASE x = e
      BY <2>1, <1>6, <2>2, <2>5 DEF Establishes, OfCall
    <2> QED
      BY <1>6, <2>2, <2>4, <2>5 DEF Establishes, Added
  <1>7. ASSUME NEW c \in pending, NEW e \in Event, FailsToEstablish(c, e)
       PROVE  LinksHold'
    <2>1. /\ pc # "idle" => who \in Devices /\ asked > 0
          /\ handle \in [Devices -> Handles \cup {0}]
          /\ links \in [Handles -> Devices \cup Others \cup {NoDevice}]
      BY DEF Types, ProcType, CtrlType
    <2>2. SUFFICES ASSUME Tracked', pc = "connect", NEW x \in Queued',
                          LinkUp(x), x.id = asked, x.status = 0
                   PROVE  links'[x.handle] = who
      BY <1>7 DEF FailsToEstablish, Added, LinksHold
    <2>3. Tracked
      BY <1>7, <2>2 DEF FailsToEstablish, Tracked, NoLateEnd
    <2>4. CASE x \in Queued
      <3>1. links[x.handle] = who /\ x.handle \in Handles
        BY <2>2, <2>3, <2>4, UpHandle, Ordered DEF LinksHold
      <3> QED
        BY <2>1, <1>7, <2>2, <3>1, LinksAssumption DEF FailsToEstablish,
           Tracked
    <2>5. CASE x = e
      BY <2>1, <1>7, <2>2, <2>5 DEF FailsToEstablish, UpNews
    <2> QED
      BY <1>7, <2>2, <2>4, <2>5 DEF FailsToEstablish, Added
  <1>8. ASSUME NEW c \in closing, NEW e \in Event, Ends(c, e)
       PROVE  LinksHold'
    <2>1. Tracked' => Tracked /\ pc' # "connect"
      BY <1>8 DEF Ends, Added, Tracked, NoLateEnd, OneEnd, Types, CtrlType
    <2> QED
      BY <2>1 DEF LinksHold
  <1>9. ASSUME NEW h \in Handles, NEW e \in Event, Drops(h, e)
       PROVE  LinksHold'
    <2>1. /\ pc # "idle" => who \in Devices /\ asked > 0
          /\ handle \in [Devices -> Handles \cup {0}]
          /\ links \in [Handles -> Devices \cup Others \cup {NoDevice}]
      BY DEF Types, ProcType, CtrlType
    <2>2. SUFFICES ASSUME Tracked', pc = "connect", NEW x \in Queued',
                          LinkUp(x), x.id = asked, x.status = 0
                   PROVE  links'[x.handle] = who
      BY <1>9 DEF Drops, Added, LinksHold
    <2>3. Tracked
      BY <1>9, <2>2 DEF Drops, Tracked, NoLateEnd
    <2>4. CASE x \in Queued
      <3>1. links[x.handle] = who /\ x.handle \in Handles
        BY <2>2, <2>3, <2>4, UpHandle, Ordered DEF LinksHold
      <3> QED
        BY <2>1, <1>9, <2>2, <3>1, LinksAssumption DEF Drops, Tracked
    <2>5. CASE x = e
      BY <2>1, <1>9, <2>2, <2>5 DEF Drops, DownNews
    <2> QED
      BY <1>9, <2>2, <2>4, <2>5 DEF Drops, Added
  <1>10. ASSUME NEW d \in Others, NEW h \in Handles, NEW e \in Event,
              LinksForOther(d, h, e)
        PROVE  LinksHold'
    <2>1. /\ pc # "idle" => who \in Devices /\ asked > 0
          /\ handle \in [Devices -> Handles \cup {0}]
          /\ links \in [Handles -> Devices \cup Others \cup {NoDevice}]
      BY DEF Types, ProcType, CtrlType
    <2>2. SUFFICES ASSUME Tracked', pc = "connect", NEW x \in Queued',
                          LinkUp(x), x.id = asked, x.status = 0
                   PROVE  links'[x.handle] = who
      BY <1>10 DEF LinksForOther, Added, LinksHold
    <2>3. Tracked
      BY <1>10, <2>2 DEF LinksForOther, Tracked, NoLateEnd
    <2>4. CASE x \in Queued
      <3>1. links[x.handle] = who /\ x.handle \in Handles
        BY <2>2, <2>3, <2>4, UpHandle, Ordered DEF LinksHold
      <3> QED
        BY <2>1, <1>10, <2>2, <3>1, LinksAssumption DEF LinksForOther, Tracked
    <2>5. CASE x = e
      BY <2>1, <1>10, <2>2, <2>5 DEF LinksForOther, UpNews
    <2> QED
      BY <1>10, <2>2, <2>4, <2>5 DEF LinksForOther, Added
  <1>11. CASE Quiet
    BY <1>11, Same DEF Quiet, NoneTaken, NoNews, LinksHold, Tracked, NoLateEnd
  <1>12. CASE Mixes
    BY <1>12 DEF Mixes, LinksHold, Tracked, NoLateEnd
  <1> QED
    BY <1>1, <1>2, <1>3, <1>4, <1>5, <1>6, <1>7, <1>8, <1>9, <1>10, <1>11,
       <1>12, StepEffect

\* Every step keeps the links known to the process.
LEMMA StepLinksKnown ==
    ASSUME Types, Numbered, EndsOnce, OfCall, OneLink, LinksKnown,
           NewsKnown, EndsKnown, [Next]_vars
    PROVE  LinksKnown'
  <1> USE DEF procVars, ctrlVars
  <1>1. ASSUME NEW call \in {"connect", "disconnect"}, NEW d \in Devices,
             NEW c \in Command, Asks(call, d, c)
       PROVE  LinksKnown'
    BY <1>1 DEF Asks, LinksKnown, NoLateLink, Established
  <1>2. CASE Wait
    <2> DEFINE e == Head(rxq)
    <2>1. /\ e \in Event /\ e \in Queued /\ Queued' \subseteq Queued
      BY <1>2, Read DEF Wait
    <2>2. /\ UNCHANGED <<asked, cmdq, pending, closing, links>>
          /\ NoLateLink' => NoLateLink
      BY <1>2 DEF Wait, ReturnGarbage, NoLateLink
    <2>3. /\ pc \in {"connect", "disconnect"} /\ asked > 0 /\ asked \in Nat
          /\ who \in Devices /\ handle \in [Devices -> Handles \cup {0}]
      BY <1>2 DEF Wait, Types, ProcType
    <2>4. CASE Answers(Current, e) /\ e.id = asked /\ NoLateLink'
      <3>1. /\ pc = "connect" => LinkUp(e) /\ HandleIn(e) = {e.handle}
            /\ pc = "disconnect" => LinkDown(e) /\ e.status = 0
        BY <2>1, <2>2, <2>3, <2>4, OwnAnswer
      <3>2. PICK h \in HandleIn(e) : Return(e.status = 0, h)
        BY <1>2, <2>4, NotBoth DEF Wait
      <3>3. CASE pc = "connect" /\ e.status = 0
        <4>1. \A k \in Handles : links[k] = who => k = e.handle
          BY <2>1, <2>2, <2>3, <2>4, <3>1, <3>3 DEF NewsKnown
        <4> QED
          BY <2>2, <2>3, <2>4, <3>1, <3>2, <3>3, <4>1 DEF Return, LinksKnown
      <3>4. CASE pc = "connect" /\ e.status # 0
        <4>1. ~Established
          BY <2>1, <2>4, <3>1, <3>4 DEF Established
        <4> QED
          BY <2>2, <2>3, <2>4, <3>2, <3>4, <4>1 DEF Return, LinksKnown
      <3>5. CASE pc = "disconnect"
        <4>1. \A k \in Handles : links[k] # who
          BY <2>1, <2>2, <2>3, <2>4, <3>1, <3>5 DEF EndsKnown
        <4> QED
          BY <2>2, <2>3, <2>4, <3>1, <3>2, <3>5, <4>1 DEF Return, LinksKnown
      <3> QED
        BY <2>2, <2>3, <3>3, <3>4, <3>5
    <2>5. CASE Answers(Current, e) /\ e.id # asked
      BY <1>2, <2>5, NotBoth DEF Wait, LinksKnown, NoLateLink
    <2>6. CASE Refuses(Current, e) /\ NoLateLink'
      <3>1. ~Established
        BY <2>1, <2>2, <2>3, <2>6, OwnRefusal DEF Established
      <3>2. handle' = handle
        BY <1>2, <2>6, NotBoth DEF Wait, ReturnGarbage, Return, NoLateLink
      <3> QED
        BY <2>2, <2>3, <2>6, <3>1, <3>2 DEF LinksKnown
    <2>7. CASE ~Answers(Current, e) /\ ~Refuses(Current, e)
      <3>1. UNCHANGED <<pc, who, handle>>
        BY <1>2, <2>7 DEF Wait
      <3> QED
        BY <2>1, <2>2, <2>3, <3>1, Same DEF LinksKnown, Established
    <2> QED
      BY <2>4, <2>5, <2>6, <2>7 DEF LinksKnown
  <1>3. CASE GiveUp
    <2>1. links' = links /\ cause \cup {Late[pc]} \subseteq cause'
      BY <1>3 DEF GiveUp, ReturnGarbage, ctrlVars
    <2>2. CASE pc = "connect"
      <3>1. "late link" \in cause'
        BY <2>1, <2>2 DEF Late
      <3> QED
        BY <3>1 DEF LinksKnown, NoLateLink
    <2>3. CASE pc # "connect" /\ NoLateLink'
      <3>1. handle' = handle /\ NoLateLink
        BY <1>3, <2>1, <2>3 DEF GiveUp, ReturnGarbage, Return, NoLateLink
      <3> QED
        BY <2>1, <2>3, <3>1 DEF LinksKnown, Established
    <2> QED
      BY <2>2, <2>3 DEF LinksKnown
  <1>4. ASSUME NEW c \in Command, NEW e \in Event, Accepts(c, e)
       PROVE  LinksKnown'
    <2>1. /\ pending' \subseteq pending \cup {c}
          /\ Waits' \subseteq Waits /\ c \in Waits
      BY <1>4, OtherRequest DEF Accepts, TakenNext
    <2>2. Established => Established'
      BY <1>4, <2>1 DEF Accepts, Added, NoNews, Established
    <2> QED
      BY <1>4, <2>2 DEF Accepts, Added, LinksKnown, NoLateLink
  <1>5. ASSUME NEW c \in Command, NEW e \in Event, Declines(c, e)
       PROVE  LinksKnown'
    <2>1. NoLateLink /\ Established => Established'
      BY <1>5 DEF Declines, TakenNext, Added, Established, OneLink
    <2> QED
      BY <1>5, <2>1 DEF Declines, Added, LinksKnown, NoLateLink
  <1>6. ASSUME NEW c \in pending, NEW h \in Handles, NEW e \in Event,
             Establishes(c, h, e)
       PROVE  LinksKnown'
    <2>1. /\ pc # "idle" => who \in Devices /\ asked > 0
          /\ handle \in [Devices -> Handles \cup {0}]
          /\ links \in [Handles -> Devices \cup Others \cup {NoDevice}]
      BY DEF Types, ProcType, CtrlType
    <2> SUFFICES ASSUME NoLateLink'
                 PROVE  LinksKnown'
      BY DEF LinksKnown
    <2>2. NoLateLink /\ UNCHANGED <<pc, who, handle, asked>>
      BY <1>6 DEF Establishes, Added, NoLateLink
    <2>3. pc = "connect" /\ c.id = asked /\ c.arg = who
      BY <2>2 DEF OneLink, OfCall, Types, CtrlType
    <2>4. \A k \in Handles : links[k] \in Devices => handle[links[k]] = k
      BY <2>2, <2>3 DEF LinksKnown, Established
    <2>5. Established'
      <3>1. \A b \in Waits' \cup pending' : b.id # asked'
        BY <1>6, <2>2, <2>3, Ordered DEF Establishes, NoneTaken, Numbered
      <3>2. \A x \in Queued : ~LinkRefused(x) /\ ~(LinkUp(x) /\ x.id = asked)
        <4>1. \A x \in Queued :
                /\ LinkRefused(x) => Last(x) /\ x.id # 0
                /\ LinkUp(x) /\ x.id = asked => Last(x)
          BY <2>1, <2>3, OwnLast, Ordered
        <4>2. \A x \in Queued : LinkRefused(x) => x.id = asked
          BY <4>1, <2>2 DEF OneLink
        <4>3. \A x \in Queued : Last(x) => x.id # asked
          BY <2>3 DEF EndsOnce
        <4> QED
          BY <4>1, <4>2, <4>3
      <3>3. \A x \in Queued' : ~LinkRefused(x)
        BY <1>6, <3>2 DEF Establishes, Added, UpNews
      <3>4. \A x \in Queued' : LinkUp(x) /\ x.id = asked' => x.status = 0
        BY <1>6, <2>2, <3>2 DEF Establishes, Added
      <3> QED
        BY <2>2, <2>3, <3>1, <3>3, <3>4 DEF Established
    <2>6. \A k \in Handles \ {h} : links'[k] = links[k]
      BY <2>1, <1>6 DEF Establishes
    <2>7. links'[h] = who
      BY <2>1, <1>6, <2>3 DEF Establishes
    <2> QED
      BY <2>2, <2>4, <2>5, <2>6, <2>7 DEF LinksKnown
  <1>7. ASSUME NEW c \in pending, NEW e \in Event, FailsToEstablish(c, e)
       PROVE  LinksKnown'
    <2>1. NoLateLink => ~Established
      BY DEF Established, OneLink, Types, CtrlType
    <2> QED
      BY <1>7, <2>1 DEF FailsToEstablish, Added, LinksKnown, NoLateLink
  <1>8. ASSUME NEW c \in closing, NEW e \in Event, Ends(c, e)
       PROVE  LinksKnown'
    <2>1. /\ pc # "idle" => who \in Devices /\ asked > 0
          /\ handle \in [Devices -> Handles \cup {0}]
          /\ links \in [Handles -> Devices \cup Others \cup {NoDevice}]
      BY DEF Types, ProcType, CtrlType
    <2>2. Established => Established'
      BY <2>1, <1>8 DEF Ends, NoneTaken, Added, UpNews, DownNews, Established
    <2>3. \A k \in Handles : links'[k] \in Devices => links'[k] = links[k]
      BY <2>1, <1>8, LinksAssumption DEF Ends
    <2>4. (NoLateLink' => NoLateLink) /\ UNCHANGED <<who, handle>>
      BY <1>8 DEF Ends, Added, NoLateLink
    <2> QED
      BY <2>2, <2>3, <2>4 DEF LinksKnown
  <1>9. ASSUME NEW h \in Handles, NEW e \in Event, Drops(h, e)
       PROVE  LinksKnown'
    <2>1. /\ pc # "idle" => who \in Devices /\ asked > 0
          /\ handle \in [Devices -> Handles \cup {0}]
          /\ links \in [Handles -> Devices \cup Others \cup {NoDevice}]
      BY DEF Types, ProcType, CtrlType
    <2>2. Established => Established'
      BY <2>1, <1>9 DEF Drops, NoneTaken, Added, UpNews, DownNews, Established
    <2>3. \A k \in Handles : links'[k] \in Devices => links'[k] = links[k]
      BY <2>1, <1>9, LinksAssumption DEF Drops
    <2>4. (NoLateLink' => NoLateLink) /\ UNCHANGED <<who, handle>>
      BY <1>9 DEF Drops, Added, NoLateLink
    <2> QED
      BY <2>2, <2>3, <2>4 DEF LinksKnown
  <1>10. ASSUME NEW d \in Others, NEW h \in Handles, NEW e \in Event,
              LinksForOther(d, h, e)
        PROVE  LinksKnown'
    <2>1. /\ pc # "idle" => who \in Devices /\ asked > 0
          /\ handle \in [Devices -> Handles \cup {0}]
          /\ links \in [Handles -> Devices \cup Others \cup {NoDevice}]
      BY DEF Types, ProcType, CtrlType
    <2>2. Established => Established'
      BY <2>1, <1>10 DEF LinksForOther, NoneTaken, Added, UpNews, DownNews,
         Established
    <2>3. \A k \in Handles : links'[k] \in Devices => links'[k] = links[k]
      BY <2>1, <1>10, LinksAssumption DEF LinksForOther
    <2>4. (NoLateLink' => NoLateLink) /\ UNCHANGED <<who, handle>>
      BY <1>10 DEF LinksForOther, Added, NoLateLink
    <2> QED
      BY <2>2, <2>3, <2>4 DEF LinksKnown
  <1>11. CASE Quiet
    <2>1. Established => Established'
      BY <1>11 DEF Quiet, NoneTaken, NoNews, Established
    <2> QED
      BY <1>11, <2>1 DEF Quiet, LinksKnown, NoLateLink
  <1>12. CASE Mixes
    BY <1>12 DEF Mixes, LinksKnown, NoLateLink
  <1> QED
    BY <1>1, <1>2, <1>3, <1>4, <1>5, <1>6, <1>7, <1>8, <1>9, <1>10, <1>11,
       <1>12, StepEffect

\* Every step keeps the link told of the only one to its device.
LEMMA StepNewsKnown ==
    ASSUME Types, Numbered, EndsOnce, OfCall, Free, OneLink, NewsKnown,
           [Next]_vars
    PROVE  NewsKnown'
  <1> USE DEF procVars, ctrlVars
  <1>1. ASSUME NEW call \in {"connect", "disconnect"}, NEW d \in Devices,
             NEW c \in Command, Asks(call, d, c)
       PROVE  NewsKnown'
    <2>1. \A x \in Queued : x.id # asked'
      BY <1>1, Ordered DEF Asks, Numbered
    <2> QED
      BY <1>1, <2>1 DEF Asks, NewsKnown
  <1>2. CASE Wait
    <2>1. Queued' \subseteq Queued
      BY <1>2, Read DEF Wait
    <2>2. UNCHANGED <<asked, links>> /\ (NoLateLink' => NoLateLink)
      BY <1>2 DEF Wait, ReturnGarbage, NoLateLink
    <2>3. pc' = "idle" \/ UNCHANGED <<pc, who>>
      BY <1>2 DEF Wait, ReturnGarbage, Return
    <2> QED
      BY <2>1, <2>2, <2>3 DEF NewsKnown
  <1>3. CASE GiveUp
    BY <1>3 DEF GiveUp, Return, ReturnGarbage, NewsKnown
  <1>4. ASSUME NEW c \in Command, NEW e \in Event, Accepts(c, e)
       PROVE  NewsKnown'
    BY <1>4 DEF Accepts, Added, NoNews, NewsKnown, NoLateLink
  <1>5. ASSUME NEW c \in Command, NEW e \in Event, Declines(c, e)
       PROVE  NewsKnown'
    BY <1>5 DEF Declines, Added, NoNews, NewsKnown, NoLateLink
  <1>6. ASSUME NEW c \in pending, NEW h \in Handles, NEW e \in Event,
             Establishes(c, h, e)
       PROVE  NewsKnown'
    <2>1. /\ pc # "idle" => who \in Devices /\ asked > 0
          /\ handle \in [Devices -> Handles \cup {0}]
          /\ links \in [Handles -> Devices \cup Others \cup {NoDevice}]
      BY DEF Types, ProcType, CtrlType
    <2> SUFFICES ASSUME NoLateLink', pc = "connect"
                 PROVE  NewsKnown'
      BY <1>6 DEF NewsKnown, Establishes, Added
    <2>2. NoLateLink /\ UNCHANGED <<pc, who, asked>>
      BY <1>6 DEF Establishes, Added, NoLateLink
    <2>3. c.id = asked /\ c.arg = who
      BY <2>2 DEF OneLink, OfCall, Types, CtrlType
    <2>4. \A x \in Queued : ~(LinkUp(x) /\ x.id = asked)
      BY <2>1, <2>3, OwnLast, Ordered DEF EndsOnce
    <2>5. \A k \in Handles : links'[k] = who => k = h
      BY <2>1, <1>6, <2>3 DEF Establishes, Free, Linked
    <2> QED
      BY <1>6, <2>2, <2>4, <2>5 DEF NewsKnown, Establishes, Added
  <1>7. ASSUME NEW c \in pending, NEW e \in Event, FailsToEstablish(c, e)
       PROVE  NewsKnown'
    <2>1. /\ pc # "idle" => who \in Devices /\ asked > 0
          /\ handle \in [Devices -> Handles \cup {0}]
          /\ links \in [Handles -> Devices \cup Others \cup {NoDevice}]
      BY DEF Types, ProcType, CtrlType
    <2>2. (NoLateLink' => NoLateLink) /\ UNCHANGED <<pc, who, asked>>
      BY <1>7 DEF FailsToEstablish, Added, NoLateLink
    <2>3. pc = "connect" => \A k \in Handles : links'[k] = who =>
                              links[k] = who
      BY <2>1, <1>7, LinksAssumption DEF FailsToEstablish
    <2>4. pc = "connect" => \A x \in Queued' :
            x \in Queued \/ x.id # asked \/ x.status # 0
      BY <2>1, <1>7 DEF FailsToEstablish, Added, UpNews, DownNews
    <2> QED
      BY <2>2, <2>3, <2>4 DEF NewsKnown
  <1>8. ASSUME NEW c \in closing, NEW e \in Event, Ends(c, e)
       PROVE  NewsKnown'
    <2>1. /\ pc # "idle" => who \in Devices /\ asked > 0
          /\ handle \in [Devices -> Handles \cup {0}]
          /\ links \in [Handles -> Devices \cup Others \cup {NoDevice}]
      BY DEF Types, ProcType, CtrlType
    <2>2. (NoLateLink' => NoLateLink) /\ UNCHANGED <<pc, who, asked>>
      BY <1>8 DEF Ends, Added, NoLateLink
    <2>3. pc = "connect" => \A k \in Handles : links'[k] = who =>
                              links[k] = who
      BY <2>1, <1>8, LinksAssumption DEF Ends
    <2>4. pc = "connect" => \A x \in Queued' :
            x \in Queued \/ x.id # asked \/ ~LinkUp(x)
      BY <2>1, <1>8 DEF Ends, Added, UpNews, DownNews
    <2> QED
      BY <2>2, <2>3, <2>4 DEF NewsKnown
  <1>9. ASSUME NEW h \in Handles, NEW e \in Event, Drops(h, e)
       PROVE  NewsKnown'
    <2>1. /\ pc # "idle" => who \in Devices /\ asked > 0
          /\ handle \in [Devices -> Handles \cup {0}]
          /\ links \in [Handles -> Devices \cup Others \cup {NoDevice}]
      BY DEF Types, ProcType, CtrlType
    <2>2. (NoLateLink' => NoLateLink) /\ UNCHANGED <<pc, who, asked>>
      BY <1>9 DEF Drops, Added, NoLateLink
    <2>3. pc = "connect" => \A k \in Handles : links'[k] = who =>
                              links[k] = who
      BY <2>1, <1>9, LinksAssumption DEF Drops
    <2>4. pc = "connect" => \A x \in Queued' :
            x \in Queued \/ x.id # asked \/ ~LinkUp(x)
      BY <2>1, <1>9 DEF Drops, Added, UpNews, DownNews
    <2> QED
      BY <2>2, <2>3, <2>4 DEF NewsKnown
  <1>10. ASSUME NEW d \in Others, NEW h \in Handles, NEW e \in Event,
              LinksForOther(d, h, e)
        PROVE  NewsKnown'
    <2>1. /\ pc # "idle" => who \in Devices /\ asked > 0
          /\ handle \in [Devices -> Handles \cup {0}]
          /\ links \in [Handles -> Devices \cup Others \cup {NoDevice}]
      BY DEF Types, ProcType, CtrlType
    <2>2. (NoLateLink' => NoLateLink) /\ UNCHANGED <<pc, who, asked>>
      BY <1>10 DEF LinksForOther, Added, NoLateLink
    <2>3. pc = "connect" => \A k \in Handles : links'[k] = who =>
                              links[k] = who
      BY <2>1, <1>10, LinksAssumption DEF LinksForOther
    <2>4. pc = "connect" => \A x \in Queued' :
            x \in Queued \/ x.id # asked \/ ~LinkUp(x)
      BY <2>1, <1>10 DEF LinksForOther, Added, UpNews, DownNews
    <2> QED
      BY <2>2, <2>3, <2>4 DEF NewsKnown
  <1>11. CASE Quiet
    BY <1>11, Same DEF Quiet, NoneTaken, NoNews, NewsKnown, NoLateLink
  <1>12. CASE Mixes
    BY <1>12 DEF Mixes, NewsKnown, NoLateLink
  <1> QED
    BY <1>1, <1>2, <1>3, <1>4, <1>5, <1>6, <1>7, <1>8, <1>9, <1>10, <1>11,
       <1>12, StepEffect

\* Every step keeps the device without a link once its end is told.
LEMMA StepEndsKnown ==
    ASSUME Types, Numbered, EndsOnce, OfCall, OneLink, LinksKnown,
           EndsKnown, [Next]_vars
    PROVE  EndsKnown'
  <1> USE DEF procVars, ctrlVars
  <1>1. ASSUME NEW call \in {"connect", "disconnect"}, NEW d \in Devices,
             NEW c \in Command, Asks(call, d, c)
       PROVE  EndsKnown'
    <2>1. \A x \in Queued : x.id # asked'
      BY <1>1, Ordered DEF Asks, Numbered
    <2> QED
      BY <1>1, <2>1 DEF Asks, EndsKnown
  <1>2. CASE Wait
    <2>1. Queued' \subseteq Queued
      BY <1>2, Read DEF Wait
    <2>2. UNCHANGED <<asked, links>> /\ (NoLateLink' => NoLateLink)
      BY <1>2 DEF Wait, ReturnGarbage, NoLateLink
    <2>3. pc' = "idle" \/ UNCHANGED <<pc, who>>
      BY <1>2 DEF Wait, ReturnGarbage, Return
    <2> QED
      BY <2>1, <2>2, <2>3 DEF EndsKnown
  <1>3. CASE GiveUp
    BY <1>3 DEF GiveUp, Return, ReturnGarbage, EndsKnown
  <1>4. ASSUME NEW c \in Command, NEW e \in Event, Accepts(c, e)
       PROVE  EndsKnown'
    BY <1>4 DEF Accepts, Added, NoNews, EndsKnown, NoLateLink
  <1>5. ASSUME NEW c \in Command, NEW e \in Event, Declines(c, e)
       PROVE  EndsKnown'
    BY <1>5 DEF Declines, Added, NoNews, EndsKnown, NoLateLink
  <1>6. ASSUME NEW c \in pending, NEW h \in Handles, NEW e \in Event,
             Establishes(c, h, e)
       PROVE  EndsKnown'
    <2>1. NoLateLink' => pc' # "disconnect"
      BY <1>6 DEF Establishes, Added, NoLateLink, OneLink, Types, CtrlType
    <2> QED
      BY <2>1 DEF EndsKnown
  <1>7. ASSUME NEW c \in pending, NEW e \in Event, FailsToEstablish(c, e)
       PROVE  EndsKnown'
    <2>1. /\ pc # "idle" => who \in Devices /\ asked > 0
          /\ handle \in [Devices -> Handles \cup {0}]
          /\ links \in [Handles -> Devices \cup Others \cup {NoDevice}]
      BY DEF Types, ProcType, CtrlType
    <2>2. (NoLateLink' => NoLateLink) /\ UNCHANGED <<pc, who, asked>>
      BY <1>7 DEF FailsToEstablish, Added, NoLateLink
    <2>3. pc = "disconnect" => \A k \in Handles : links'[k] = who =>
                                 links[k] = who
      BY <2>1, <1>7, LinksAssumption DEF FailsToEstablish
    <2>4. pc = "disconnect" => \A x \in Queued' :
            x \in Queued \/ x.id # asked \/ ~LinkDown(x)
      BY <2>1, <1>7 DEF FailsToEstablish, Added, UpNews, DownNews
    <2> QED
      BY <2>2, <2>3, <2>4 DEF EndsKnown
  <1>8. ASSUME NEW c \in closing, NEW e \in Event, Ends(c, e)
       PROVE  EndsKnown'
    <2>1. /\ pc # "idle" => who \in Devices /\ asked > 0
          /\ handle \in [Devices -> Handles \cup {0}]
          /\ links \in [Handles -> Devices \cup Others \cup {NoDevice}]
      BY DEF Types, ProcType, CtrlType
    <2> SUFFICES ASSUME NoLateLink', pc = "disconnect"
                 PROVE  EndsKnown'
      BY <1>8 DEF EndsKnown, Ends, Added
    <2>2. NoLateLink /\ UNCHANGED <<pc, who, asked>>
      BY <1>8 DEF Ends, Added, NoLateLink
    <2>3. \A k \in Handles : links'[k] = who => links[k] = who /\ k # c.handle
      BY <2>1, <1>8, LinksAssumption DEF Ends
    <2>4. CASE c.id = asked
      <3>1. c.handle = handle[who]
        BY <2>4 DEF OfCall
      <3>2. \A k \in Handles : links[k] = who => k = handle[who]
        BY <2>1, <2>2 DEF LinksKnown, Established
      <3> QED
        BY <2>2, <2>3, <3>1, <3>2 DEF EndsKnown
    <2>5. CASE c.id # asked
      BY <1>8, <2>2, <2>3, <2>5 DEF EndsKnown, Ends, Added
    <2> QED
      BY <2>4, <2>5
  <1>9. ASSUME NEW h \in Handles, NEW e \in Event, Drops(h, e)
       PROVE  EndsKnown'
    <2>1. /\ pc # "idle" => who \in Devices /\ asked > 0
          /\ handle \in [Devices -> Handles \cup {0}]
          /\ links \in [Handles -> Devices \cup Others \cup {NoDevice}]
      BY DEF Types, ProcType, CtrlType
    <2>2. (NoLateLink' => NoLateLink) /\ UNCHANGED <<pc, who, asked>>
      BY <1>9 DEF Drops, Added, NoLateLink
    <2>3. pc = "disconnect" => \A k \in Handles : links'[k] = who =>
                                 links[k] = who
      BY <2>1, <1>9, LinksAssumption DEF Drops
    <2>4. pc = "disconnect" => \A x \in Queued' :
            x \in Queued \/ x.id # asked \/ ~LinkDown(x)
      BY <2>1, <1>9 DEF Drops, Added, UpNews, DownNews
    <2> QED
      BY <2>2, <2>3, <2>4 DEF EndsKnown
  <1>10. ASSUME NEW d \in Others, NEW h \in Handles, NEW e \in Event,
              LinksForOther(d, h, e)
        PROVE  EndsKnown'
    <2>1. /\ pc # "idle" => who \in Devices /\ asked > 0
          /\ handle \in [Devices -> Handles \cup {0}]
          /\ links \in [Handles -> Devices \cup Others \cup {NoDevice}]
      BY DEF Types, ProcType, CtrlType
    <2>2. (NoLateLink' => NoLateLink) /\ UNCHANGED <<pc, who, asked>>
      BY <1>10 DEF LinksForOther, Added, NoLateLink
    <2>3. pc = "disconnect" => \A k \in Handles : links'[k] = who =>
                                 links[k] = who
      BY <2>1, <1>10, LinksAssumption DEF LinksForOther
    <2>4. pc = "disconnect" => \A x \in Queued' :
            x \in Queued \/ x.id # asked \/ ~LinkDown(x)
      BY <2>1, <1>10 DEF LinksForOther, Added, UpNews, DownNews
    <2> QED
      BY <2>2, <2>3, <2>4 DEF EndsKnown
  <1>11. CASE Quiet
    BY <1>11, Same DEF Quiet, NoneTaken, NoNews, EndsKnown, NoLateLink
  <1>12. CASE Mixes
    BY <1>12 DEF Mixes, EndsKnown, NoLateLink
  <1> QED
    BY <1>1, <1>2, <1>3, <1>4, <1>5, <1>6, <1>7, <1>8, <1>9, <1>10, <1>11,
       <1>12, StepEffect

-----------------------------------------------------------------------------
(* The theorems                                                            *)

\* The invariant holds initially, ...
LEMMA InitIInv == Init => IInv
  <1> SUFFICES ASSUME Init PROVE IInv
    OBVIOUS
  <1>1. Len(rxq) = 0 /\ Len(cmdq) = 0 /\ Queued = {} /\ Waits = {}
        /\ rxq \in Seq(Event) /\ cmdq \in Seq(Command) /\ asked = 0
    BY DEF Init, Queued, Waits, Elements
  <1>2. ProcType
    BY FilterType, LinksAssumption DEF Init, ProcType
  <1>3. CtrlType
    BY <1>1, LinksAssumption DEF Init, CtrlType
  <1>4. Numbered /\ EndsOnce
    BY <1>1 DEF Init, Numbered, EndsOnce, LastsDiffer
  <1>5. OfCall /\ Free /\ OneEnd /\ OneLink
    BY <1>1 DEF Init, OfCall, Free, OneEnd, OneLink
  <1>6. HandlesHold /\ LinksHold /\ LinksKnown /\ NewsKnown /\ EndsKnown
    BY LinksAssumption DEF Init, HandlesHold, LinksHold, LinksKnown, NewsKnown,
       EndsKnown
  <1> QED
    BY <1>2, <1>3, <1>4, <1>5, <1>6 DEF IInv, Types

\* ... every step preserves it, ...
LEMMA StepIInv == IInv /\ [Next]_vars => IInv'
  <1> SUFFICES ASSUME IInv, [Next]_vars
               PROVE  IInv'
    OBVIOUS
  <1> USE DEF IInv
  <1>1. ProcType' /\ CtrlType'
    BY StepProcType, StepCtrlType
  <1>2. Numbered' /\ EndsOnce' /\ OfCall' /\ Free'
    BY StepNumbered, StepEndsOnce, StepOfCall, StepFree
  <1>3. OneEnd' /\ OneLink'
    BY StepOneEnd, StepOneLink
  <1>4. HandlesHold' /\ LinksHold'
    BY StepHandlesHold, StepLinksHold
  <1>5. LinksKnown' /\ NewsKnown' /\ EndsKnown'
    BY StepLinksKnown, StepNewsKnown, StepEndsKnown
  <1> QED
    BY <1>1, <1>2, <1>3, <1>4, <1>5 DEF Types

\* ... and so it holds always.
LEMMA IInvCorrect == Spec => []IInv
  BY InitIInv, StepIInv, PTL DEF Spec

\* Every variable has its type, and one connection at most is being set up, as
\* the controller takes one command of ble_connect (ble.c:349) at a time.
THEOREM LinksTypeCorrect == Spec => []TypeOK
  <1>1. IInv => TypeOK
    <2> SUFFICES ASSUME Types PROVE TypeOK
      BY DEF IInv
    <2>1. pending \subseteq Command /\ Cardinality(pending) <= 1
      <3>1. CASE pending = {}
        BY <3>1, FS_EmptySet
      <3>2. ASSUME NEW c \in Command, pending = {c}
            PROVE  pending \subseteq Command /\ Cardinality(pending) <= 1
        BY <3>2, FS_Singleton
      <3> QED
        BY <3>1, <3>2 DEF Types, CtrlType
    <2> QED
      BY <2>1 DEF Types, ProcType, CtrlType, TypeOK
  <1> QED
    BY <1>1, IInvCorrect, PTL

\* Between two calls the handle in a BLEDevice (ble.c:379, ble.c:393) is that
\* of a link to this device, apart from the causes NoStaleHandle names.
THEOREM HandlesAreOfLinks == Spec => []NoStaleHandle
  <1>1. IInv => NoStaleHandle
    BY DEF IInv, HandlesHold, Ended, Tracked, NoLateEnd, NoStaleHandle
  <1> QED
    BY <1>1, IInvCorrect, PTL

\* Between two calls every link to a device of the caller has its handle in the
\* BLEDevice (ble.c:379), apart from the causes NoOrphan names.
THEOREM LinksAreKnown == Spec => []NoOrphan
  <1>1. IInv => NoOrphan
    BY DEF IInv, LinksKnown, Established, NoLateLink, NoOrphan
  <1> QED
    BY <1>1, IInvCorrect, PTL

\* The command of ble_disconnect (ble.c:385) ends the link of its own device,
\* apart from the causes EndsOwnLink names.
THEOREM DisconnectEndsOwnLink == Spec => EndsOwnLink
  <1> DEFINE Own(c) == \/ links[c.handle] = c.arg
                       \/ cause \cap {"lost", "late end", "crossed", "garbage",
                                      "rescan", "unconnected"} # {}
  <1>1. ASSUME IInv, NEW c \in closing
        PROVE  Own(c)
    <2> SUFFICES ASSUME Tracked, "unconnected" \notin cause
                 PROVE  links[c.handle] = c.arg
      BY DEF Tracked, NoLateEnd
    <2>1. pc = "disconnect" /\ c.id = asked
      BY <1>1 DEF IInv, Tracked, OneEnd, Types, CtrlType
    <2>2. /\ c.arg = who /\ c.handle = handle[who]
          /\ handle[who] # 0 /\ who \in Devices
      BY <1>1, <2>1 DEF IInv, OfCall, Types, ProcType
    <2>3. ~Ended
      BY <2>1 DEF Ended
    <2> QED
      BY <1>1, <2>2, <2>3 DEF IInv, HandlesHold
  <1>2. IInv => \A c \in closing :
          (c \notin closing' /\ links'[c.handle] # links[c.handle]) => Own(c)
    BY <1>1
  <1> QED
    BY <1>2, IInvCorrect, PTL DEF EndsOwnLink

-----------------------------------------------------------------------------
(* The requests of ble_connect and ble_disconnect are exchanges            *)

Unchanging == UNCHANGED <<asked, ctrlVars>>

\* The request under way drops an event, as Skip of HciExchange does.
Skips ==
    /\ rxq # <<>>
    /\ ~Answers(Current, Head(rxq))
    /\ ~Refuses(Current, Head(rxq))
    /\ rxq' = Tail(rxq)
    /\ UNCHANGED <<pc, who, filter, handle, cause>>
    /\ Unchanging

\* The caller finds a handle beside status 0 in a buffer nothing was copied to.
Invented(v) == IF v = "ok" THEN {"garbage"} ELSE {}

\* It ends with verdict v, as End of HciExchange does; what ends it decides
\* which handle the call finds, and what the history holds against it.
EndsAs(v) ==
    /\ \/ /\ EndsByAnswer(Current, rxq, v, rxq')
          /\ \E h \in HandleIn(Head(rxq)) : Return(v = "ok", h)
          /\ cause' = IF Head(rxq).id = asked THEN cause
                      ELSE cause \cup {"crossed", Late[pc]}
       \/ /\ EndsByRefusal(Current, rxq, v, rxq')
          /\ \E h \in Handles : Return(v = "ok", h)
          /\ cause' = cause \cup Invented(v)
       \/ /\ "timeout" \in Faults
          /\ EndsInTime(Current, rxq, v, rxq')
          /\ Return(FALSE, 0)
          /\ cause' = cause \cup {Late[pc]}
       \/ /\ "read" \in Faults
          /\ EndsUnread(Current, rxq, v, rxq')
          /\ \E h \in Handles : Return(v = "ok", h)
          /\ cause' = cause \cup {Late[pc]} \cup Invented(v)
    /\ Unchanging

\* Both requests look at their status, and neither clears it; so a buffer that
\* nothing was copied to says either.
LEMMA LinksRequestsChecked ==
    ASSUME pc \in {"connect", "disconnect"}
    PROVE  /\ Unanswered(Current.req) = {"ok", "EIO"}
           /\ \A e : Verdict(Current.req, e) =
                        IF e.status = 0 THEN "ok" ELSE "EIO"
  <1>1. /\ CreateConn.checked /\ ~CreateConn.zeroed
        /\ Disconn.checked /\ ~Disconn.zeroed
    BY DEF CreateConn, Disconn, Waiting
  <1>2. Current.req \in {CreateConn, Disconn}
    BY RequestFacts DEF Current
  <1>3. Current.req.checked /\ ~Current.req.zeroed
    BY <1>1, <1>2
  <1> QED
    BY <1>3 DEF Unanswered, Verdict

\* What a call makes of a buffer that nothing was copied to, by the verdict.
LEMMA GarbageIs ==
    ASSUME NEW why
    PROVE  ReturnGarbage(why) <=>
             \E v \in {"ok", "EIO"}, h \in Handles :
                /\ Return(v = "ok", h)
                /\ cause' = cause \cup why \cup Invented(v)
  <1>1. ASSUME NEW ok \in BOOLEAN, NEW h \in Handles, Return(ok, h),
               cause' = cause \cup why \cup (IF ok THEN {"garbage"} ELSE {})
        PROVE  \E v \in {"ok", "EIO"} :
                  /\ Return(v = "ok", h)
                  /\ cause' = cause \cup why \cup Invented(v)
    <2>1. CASE ok = TRUE
      <3>1. /\ Return("ok" = "ok", h)
            /\ cause' = cause \cup why \cup Invented("ok")
        BY <1>1, <2>1 DEF Invented
      <3> QED
        BY <3>1
    <2>2. CASE ok = FALSE
      <3>1. ("EIO" = "ok") = FALSE
        OBVIOUS
      <3>2. /\ Return("EIO" = "ok", h)
            /\ cause' = cause \cup why \cup Invented("EIO")
        BY <1>1, <2>2, <3>1 DEF Invented
      <3> QED
        BY <3>2
    <2> QED
      BY <2>1, <2>2
  <1>2. ASSUME NEW v \in {"ok", "EIO"}, NEW h \in Handles,
               Return(v = "ok", h),
               cause' = cause \cup why \cup Invented(v)
        PROVE  ReturnGarbage(why)
    <2> DEFINE ok == v = "ok"
    <2>1. ok \in BOOLEAN
      OBVIOUS
    <2>2. cause' = cause \cup why \cup (IF ok THEN {"garbage"} ELSE {})
      BY <1>2 DEF Invented
    <2>3. Return(ok, h)
      BY <1>2
    <2> HIDE DEF ok
    <2> QED
      BY <2>1, <2>2, <2>3 DEF ReturnGarbage
  <1> QED
    BY <1>1, <1>2 DEF ReturnGarbage

\* While the request of ble_connect (ble.c:349) or ble_disconnect (ble.c:385)
\* waits, it does what a request of HciExchange may do, and all of it.
THEOREM LinksRequestsAreExchanges ==
    ASSUME TypeOK, pc # "idle"
    PROVE  (Wait \/ GiveUp) <=> (Skips \/ \E v \in Verdicts : EndsAs(v))
  <1> DEFINE e == Head(rxq)
  <1>1. pc \in {"connect", "disconnect"}
    BY DEF TypeOK
  <1>2. /\ Unanswered(Current.req) = {"ok", "EIO"}
        /\ Verdict(Current.req, e) = IF e.status = 0 THEN "ok" ELSE "EIO"
    BY <1>1, LinksRequestsChecked
  <1>3. (e.status = 0) = (Verdict(Current.req, e) = "ok")
    BY <1>2
  <1>4. {"ok", "EIO"} \subseteq Verdicts /\ "other" \in Verdicts
    BY DEF Verdicts
  <1>5. ASSUME Wait PROVE Skips \/ \E v \in Verdicts : EndsAs(v)
    <2>1. rxq # <<>> /\ rxq' = Tail(rxq) /\ Unchanging
      BY <1>5 DEF Wait, Unchanging
    <2>2. CASE ~Answers(Current, e) /\ ~Refuses(Current, e)
      BY <1>5, <2>1, <2>2 DEF Wait, Skips
    <2>3. CASE /\ Answers(Current, e)
               /\ \E h \in HandleIn(e) : Return(e.status = 0, h)
               /\ cause' = IF e.id = asked THEN cause
                           ELSE cause \cup {"crossed", Late[pc]}
      <3> DEFINE v == Verdict(Current.req, e)
      <3>1. v \in Verdicts
        BY DEF Verdict, Verdicts
      <3>2. \E h \in HandleIn(e) : Return(v = "ok", h)
        BY <1>3, <2>3
      <3>3. EndsByAnswer(Current, rxq, v, rxq')
        BY <2>1, <2>3 DEF EndsByAnswer
      <3> HIDE DEF v
      <3> QED
        BY <2>1, <2>3, <3>1, <3>2, <3>3, Zenon DEF EndsAs
    <2>4. CASE Refuses(Current, e) /\ ReturnGarbage({})
      <3>1. PICK v \in {"ok", "EIO"}, h \in Handles :
                /\ Return(v = "ok", h)
                /\ cause' = cause \cup {} \cup Invented(v)
        BY <2>4, GarbageIs
      <3>2. EndsByRefusal(Current, rxq, v, rxq')
        BY <1>2, <2>1, <2>4 DEF EndsByRefusal
      <3>3. cause' = cause \cup Invented(v)
        BY <3>1
      <3> QED
        BY <1>4, <2>1, <3>1, <3>2, <3>3, Zenon DEF EndsAs
    <2> QED
      BY <1>5, <2>2, <2>3, <2>4 DEF Wait
  <1>6. ASSUME GiveUp PROVE \E v \in Verdicts : EndsAs(v)
    <2>1. rxq' = rxq /\ Unchanging
      BY <1>6 DEF GiveUp, Unchanging
    <2>2. CASE /\ "timeout" \in Faults /\ Return(FALSE, 0)
               /\ cause' = cause \cup {Late[pc]}
      BY <1>4, <2>1, <2>2, Zenon DEF EndsAs, EndsInTime
    <2>3. CASE "read" \in Faults /\ ReturnGarbage({Late[pc]})
      <3>1. PICK v \in {"ok", "EIO"}, h \in Handles :
                /\ Return(v = "ok", h)
                /\ cause' = cause \cup {Late[pc]} \cup Invented(v)
        BY <2>3, GarbageIs
      <3>2. EndsUnread(Current, rxq, v, rxq')
        BY <1>2, <2>1 DEF EndsUnread
      <3> QED
        BY <1>4, <2>1, <2>3, <3>1, <3>2, Zenon DEF EndsAs
    <2> QED
      BY <1>6, <2>2, <2>3 DEF GiveUp
  <1>7. ASSUME Skips PROVE Wait
    BY <1>7, pc # "idle" DEF Wait, Skips, Unchanging
  <1>8. ASSUME NEW v \in Verdicts, EndsAs(v) PROVE Wait \/ GiveUp
    <2>1. Unchanging
      BY <1>8 DEF EndsAs
    <2>2. CASE /\ EndsByAnswer(Current, rxq, v, rxq')
               /\ \E h \in HandleIn(e) : Return(v = "ok", h)
               /\ cause' = IF e.id = asked THEN cause
                           ELSE cause \cup {"crossed", Late[pc]}
      <3>1. /\ rxq # <<>> /\ Answers(Current, e) /\ rxq' = Tail(rxq)
            /\ (v = "ok") = (e.status = 0)
        BY <1>3, <2>2 DEF EndsByAnswer
      <3>2. \E h \in HandleIn(e) : Return(e.status = 0, h)
        BY <2>2, <3>1
      <3> QED
        BY <2>1, <2>2, <3>1, <3>2, Zenon DEF Wait, Unchanging
    <2>3. CASE /\ EndsByRefusal(Current, rxq, v, rxq')
               /\ \E h \in Handles : Return(v = "ok", h)
               /\ cause' = cause \cup Invented(v)
      <3>1. /\ rxq # <<>> /\ Refuses(Current, e) /\ rxq' = Tail(rxq)
            /\ v \in {"ok", "EIO"}
        BY <1>2, <2>3 DEF EndsByRefusal
      <3>2. cause' = cause \cup {} \cup Invented(v)
        BY <2>3
      <3>3. ReturnGarbage({})
        BY <2>3, <3>1, <3>2, GarbageIs
      <3> QED
        BY <2>1, <3>1, <3>3, Zenon DEF Wait, Unchanging
    <2>4. CASE /\ "timeout" \in Faults /\ EndsInTime(Current, rxq, v, rxq')
               /\ Return(FALSE, 0) /\ cause' = cause \cup {Late[pc]}
      BY <2>1, <2>4 DEF GiveUp, EndsInTime, Unchanging
    <2>5. CASE /\ "read" \in Faults /\ EndsUnread(Current, rxq, v, rxq')
               /\ \E h \in Handles : Return(v = "ok", h)
               /\ cause' = cause \cup {Late[pc]} \cup Invented(v)
      <3>1. v \in {"ok", "EIO"} /\ rxq' = rxq
        BY <1>2, <2>5 DEF EndsUnread
      <3>2. ReturnGarbage({Late[pc]})
        BY <2>5, <3>1, GarbageIs
      <3> QED
        BY <2>1, <2>5, <3>1, <3>2 DEF GiveUp, Unchanging
    <2> QED
      BY <1>8, <2>2, <2>3, <2>4, <2>5 DEF EndsAs
  <1> QED
    BY <1>5, <1>6, <1>7, <1>8
===============================================================================
