----------------------------- MODULE BleScanProofs -----------------------------
(***************************************************************************)
(* Proofs about BleScan: the list a scan fills is what it heard, no report *)
(* of another scan gets into it, and a scan whose requests were answered   *)
(* starts and leaves no trace, for any devices, any length of the list, of *)
(* the queue and of the scan, any faults, and any number of scans.  The    *)
(* last theorem compares its requests with those of module HciExchange.    *)
(***************************************************************************)
EXTENDS BleScan, QueueProofs, HciOutcome

-----------------------------------------------------------------------------
(* The inductive invariant                                                 *)

\* What lies in the receive queue.
Queued == Elements(rxq)

\* How many requests a scan has made at most before it comes to a label.
Made == [params |-> 0, disable |-> 1, again |-> 2, enable |-> 3,
         loop |-> 4, select |-> 4, stop |-> 4,
         reset |-> 5, fail |-> 5, idle |-> 5]

TypeInv ==
    /\ TypeOK
    /\ waiting => pc \in Asking
    /\ counter = -1 => pc \in {"stop", "reset", "idle"}
    /\ pc # "idle" => scans > 0
    /\ asked + 5 <= 5 * scans + Made[pc] + (IF waiting THEN 1 ELSE 0)

\* Commands are executed in the order of their numbers: this one was the last.
Executed == asked - Len(cmdq)

\* The last command in the queue is that of the request under way.
Numbered ==
    /\ Len(cmdq) <= asked
    /\ \A k \in DOMAIN cmdq : cmdq[k].id = Executed + k
    /\ \A e \in Queued : ~IsReport(e) => e.id <= Executed
    /\ waiting /\ cmdq # <<>> => cmdq[Len(cmdq)] = Request(pc, asked)

\* The command of the request under way has been executed.
Done == waiting /\ cmdq = <<>>

\* The answer to it.
OwnAnswer(e) == ~IsReport(e) /\ e.id = asked

\* The labels of a scan whose first request has been answered.
Later == {"disable", "again", "enable", "loop", "select", "stop"}

\* Then no command of an earlier scan waits any more, ...
Emptied == clean /\ pc \in Later \cup {"reset", "idle"} =>
    Len(cmdq) <= IF waiting THEN 1 ELSE 0

\* ... what was asked for is done, ...
Granted == clean /\ waiting /\ pc # "params" =>
    \A e \in Queued : OwnAnswer(e) => e.status = 0

\* ... the controller does not scan where it has been told not to, ...
Off ==
    /\ clean /\ pc \in {"again", "reset", "idle"} => ~scanning
    /\ clean /\ pc \in {"disable", "stop"} /\ Done => ~scanning

\* ... and what the queue holds is of this scan.  Before that, what stands
\* behind the answer to the first request is.
OnlyNew ==
    /\ clean /\ pc \in Later => \A e \in Queued : IsReport(e) => e.id = scans
    /\ clean /\ pc = "params" /\ waiting => \A j, k \in DOMAIN rxq :
          j < k /\ OwnAnswer(rxq[j]) /\ IsReport(rxq[k]) => rxq[k].id = scans

SavedFilter == clean /\ pc = "idle" => filter = hci_of

\* What holds of a scan as long as it is clean.
OfClean ==
    /\ Emptied /\ Granted /\ Off
    /\ OnlyNew /\ NoStaleReport
    /\ CleanScanStarts /\ SavedFilter

CleanInv == Numbered /\ OfClean

\* The first and the last report of a device in what was heard.
Devs(h) == {h[k].arg : k \in DOMAIN h}
IsFirst(h, dev, k) == /\ h[k].arg = dev
                      /\ \A j \in 1 .. k - 1 : h[j].arg # dev
IsLast(h, dev, k) == /\ h[k].arg = dev
                     /\ \A j \in k + 1 .. Len(h) : h[j].arg # dev
FirstIn(h, dev) == CHOOSE k \in DOMAIN h : IsFirst(h, dev, k)
LastIn(h, dev) == CHOOSE k \in DOMAIN h : IsLast(h, dev, k)

\* Each device that was heard has both.
Orderly(h) == \A dev \in Devs(h) :
    /\ \E k \in DOMAIN h : IsFirst(h, dev, k)
    /\ \E k \in DOMAIN h : IsLast(h, dev, k)

HeardInv == Orderly(heard)

ListInv == HeardInv /\ ListIsWhatWasHeard

-----------------------------------------------------------------------------
(* The requests and the filters                                            *)

LEMMA RequestFacts ==
    /\ SetParams # SetEnable
    /\ SetParams.event = 0 /\ SetEnable.event = 0
    /\ SetParams.opcode \in Nat /\ SetEnable.opcode \in Nat
  BY DEF SetParams, SetEnable, Plain, Waiting, cmd_opcode_pack, OGF_LE_CTL

LEMMA AskFacts ==
    /\ Asking = {"params", "disable", "again", "enable", "stop"}
    /\ \A l \in Asking : Ask[l].req \in {SetParams, SetEnable}
    /\ \A l \in Asking : l \in {"params", "again"} => Ask[l].req = SetParams
    /\ \A l \in Asking :
          l \in {"disable", "stop"} =>
             Ask[l].req = SetEnable /\ Ask[l].arg = "off"
    /\ Ask["enable"].req = SetEnable
  BY DEF Asking, Ask

LEMMA FilterFacts ==
    /\ ScanFilter \in Filter
    /\ \A l \in Asking : RequestFilter(Ask[l].req) \in Filter
  <1>1. ScanFilter \in Filter
    BY DEF ScanFilter, Filter, HCI_EVENT_PKT, FilterBit, EVT_LE_META_EVENT
  <1>2. ASSUME NEW r \in {SetParams, SetEnable}
        PROVE  RequestFilter(r) \in Filter
    <2>1. r.event = 0 /\ r.opcode \in Nat
      BY RequestFacts
    <2>2. RequestFilter(r).events \subseteq Nat
      BY <2>1 DEF RequestFilter, FilterBit, EVT_CMD_STATUS, EVT_CMD_COMPLETE,
                  EVT_LE_META_EVENT
    <2> QED
      BY <2>1, <2>2 DEF RequestFilter, Filter, HCI_EVENT_PKT
  <1> QED
    BY <1>1, <1>2, AskFacts

\* What a report is, and what an answer is.
LEMMA EventFacts ==
    /\ \A e \in Event : IsReport(e) =>
          /\ e.arg \in Devices /\ e.status \in Rssi /\ e.id \in 0 .. MaxScans
    /\ \A e \in Event : ~IsReport(e) => e.id \in 1 .. MaxAsked
    /\ \A c, s : ~IsReport(Answer(c, s)) /\ Answer(c, s).id = c.id
                 /\ Answer(c, s).status = s
    /\ \A d, r, b, n : IsReport(Report(d, r, b, n)) /\ Report(d, r, b, n).id = n
  <1>1. \A c, s : ~IsReport(Answer(c, s)) /\ Answer(c, s).id = c.id
                  /\ Answer(c, s).status = s
    BY DEF Answer, IsReport, EVT_CMD_COMPLETE, EVT_LE_META_EVENT
  <1>2. \A d, r, b, n : /\ IsReport(Report(d, r, b, n))
                        /\ Report(d, r, b, n).id = n
                        /\ Report(d, r, b, n).arg = d
                        /\ Report(d, r, b, n).status = r
    BY DEF Report, IsReport
  <1>3. \A c \in Command : c.id \in 1 .. MaxAsked
    BY DEF Command, Request
  <1> QED
    BY <1>1, <1>2, <1>3 DEF Event

\* The answer to a request is not a report.
LEMMA AnswerFacts ==
    ASSUME pc \in Asking, NEW e \in Event, IsAnswer(e)
    PROVE  ~IsReport(e)
  <1>1. Request(pc, asked).req.event = 0
    BY AskFacts, RequestFacts DEF Request
  <1> QED
    BY <1>1 DEF IsAnswer, Answers, IsReport, EVT_CMD_STATUS, EVT_CMD_COMPLETE,
       EVT_REMOTE_NAME_REQ_COMPLETE, EVT_LE_META_EVENT,
       EVT_LE_ADVERTISING_REPORT

\* What is put back of what was skipped: nothing.
LEMMA SkippedNothing ==
    ASSUME NEW e \in Event, rxq \in Seq(Event), rxq # <<>>
    PROVE  Tail(rxq) \o Skipped(e) = Tail(rxq)
  <1>1. Tail(rxq) \in Seq(Event)
    BY TailElements
  <1> QED
    BY <1>1 DEF Skipped

\* Where a scan goes on.
LEMMA AfterFacts ==
    ASSUME NEW l \in Asking, NEW r \in {"ok", "EIO", "other"}
    PROVE  /\ After(l, r) \in Pcs /\ After(l, r) # "idle"
           /\ After(l, r) \notin {"params", "select"}
           /\ Made[After(l, r)] >= Made[l] + 1
           /\ After(l, r) \in Later \cup {"reset", "fail"}
           /\ After(l, r) = "fail" => l # "stop" /\ r # "ok"
           /\ After(l, r) = "fail" /\ l = "params" => r # "EIO"
           /\ After(l, r) = "again" => l = "disable"
           /\ After(l, r) = "reset" => l = "stop"
  BY AskFacts DEF After, Pcs, Made, Later

-----------------------------------------------------------------------------
(* What a step does to the queues                                          *)

LEMMA QueueTail ==
    ASSUME TypeOK, rxq # <<>>, rxq' = Tail(rxq)
    PROVE  /\ Head(rxq) \in Event /\ rxq' \in Seq(Event)
           /\ Queued = {Head(rxq)} \cup Queued'
           /\ Len(rxq) \in Nat /\ DOMAIN rxq = 1 .. Len(rxq)
           /\ 1 \in DOMAIN rxq /\ Head(rxq) = rxq[1]
           /\ \A k \in DOMAIN rxq' :
                 rxq'[k] = rxq[k + 1] /\ k + 1 \in DOMAIN rxq /\ k >= 1
  <1>1. rxq \in Seq(Event)
    BY DEF TypeOK
  <1>2. /\ Elements(rxq) = {Head(rxq)} \cup Elements(rxq')
        /\ Head(rxq) \in Event /\ rxq' \in Seq(Event)
    BY <1>1, TailElements
  <1>3. Queued = {Head(rxq)} \cup Queued'
    BY <1>2 DEF Queued, Elements
  <1>4. /\ Len(rxq) \in Nat /\ DOMAIN rxq = 1 .. Len(rxq)
        /\ 1 \in DOMAIN rxq /\ Head(rxq) = rxq[1]
        /\ DOMAIN rxq' = 1 .. (Len(rxq) - 1)
        /\ \A k \in 1 .. (Len(rxq) - 1) : rxq'[k] = rxq[k + 1]
    BY <1>1
  <1> QED
    BY <1>2, <1>3, <1>4

LEMMA QueueDeliver ==
    ASSUME TypeOK, NEW e \in Event, Deliver(e)
    PROVE  /\ rxq' \in Seq(Event)
           /\ Queued' \subseteq Queued \cup {e}
           /\ \A k \in DOMAIN rxq' : k \in Nat
           /\ \A k \in DOMAIN rxq' :
                 (k \in DOMAIN rxq /\ rxq'[k] = rxq[k]) \/ rxq'[k] = e
           /\ \A j, k \in DOMAIN rxq' :
                 j < k => j \in DOMAIN rxq /\ rxq'[j] = rxq[j]
  <1>1. rxq \in Seq(Event)
    BY DEF TypeOK
  <1>2. rxq' = rxq \/ rxq' = Append(rxq, e)
    BY DEF Deliver
  <1>3. Queued' \subseteq Queued \cup {e} /\ rxq' \in Seq(Event)
    <2>1. Elements(rxq') \subseteq Elements(rxq) \cup {e} /\ rxq' \in Seq(Event)
      BY <1>1, <1>2, AppendElements
    <2> QED
      BY <2>1 DEF Queued, Elements
  <1>4. /\ Len(rxq) \in Nat /\ DOMAIN rxq = 1 .. Len(rxq)
        /\ DOMAIN Append(rxq, e) = 1 .. (Len(rxq) + 1)
        /\ \A k \in 1 .. Len(rxq) : Append(rxq, e)[k] = rxq[k]
        /\ Append(rxq, e)[Len(rxq) + 1] = e
    BY <1>1
  <1>5. CASE rxq' = rxq
    BY <1>3, <1>4, <1>5
  <1>6. CASE rxq' = Append(rxq, e)
    <2>1. \A k \in DOMAIN rxq' : k \in 1 .. Len(rxq) \/ k = Len(rxq) + 1
      BY <1>4, <1>6
    <2>2. \A j, k \in DOMAIN rxq' : j < k => j \in 1 .. Len(rxq)
      BY <1>4, <1>6
    <2> QED
      BY <1>3, <1>4, <1>6, <2>1, <2>2
  <1> QED
    BY <1>2, <1>5, <1>6

\* The controller takes the first command.  If it is that of the request under
\* way then no other waits.
LEMMA TakeFirst ==
    ASSUME TypeOK, Numbered, cmdq # <<>>, cmdq' = Tail(cmdq), asked' = asked
    PROVE  /\ Head(cmdq) \in Command /\ cmdq' \in Seq(Command)
           /\ Executed' = Executed + 1 /\ Head(cmdq).id = Executed'
           /\ Len(cmdq') = Len(cmdq) - 1 /\ Len(cmdq) \in Nat
           /\ \A k \in DOMAIN cmdq' : cmdq'[k].id = Executed' + k
           /\ cmdq' # <<>> => cmdq'[Len(cmdq')] = cmdq[Len(cmdq)]
           /\ Head(cmdq).id = asked <=> cmdq' = <<>>
           /\ waiting /\ Head(cmdq).id = asked =>
                 Head(cmdq) = Request(pc, asked)
  <1>1. /\ cmdq \in Seq(Command) /\ asked \in Int
    BY DEF TypeOK
  <1>2. /\ Len(cmdq) \in Nat /\ Len(cmdq) >= 1 /\ DOMAIN cmdq = 1 .. Len(cmdq)
        /\ Head(cmdq) = cmdq[1] /\ Head(cmdq) \in Command
        /\ cmdq' \in Seq(Command) /\ Len(cmdq') = Len(cmdq) - 1
        /\ DOMAIN cmdq' = 1 .. (Len(cmdq) - 1)
        /\ \A k \in 1 .. (Len(cmdq) - 1) : cmdq'[k] = cmdq[k + 1]
    BY <1>1
  <1>3. Executed' = Executed + 1 /\ Executed \in Int
    BY <1>1, <1>2 DEF Executed
  <1>4. Head(cmdq).id = Executed'
    BY <1>2, <1>3 DEF Numbered
  <1>5. \A k \in DOMAIN cmdq' : cmdq'[k].id = Executed' + k
    <2>1. \A k \in 1 .. (Len(cmdq) - 1) : k + 1 \in DOMAIN cmdq
      BY <1>2
    <2>2. \A k \in 1 .. (Len(cmdq) - 1) : cmdq[k + 1].id = Executed + (k + 1)
      BY <2>1 DEF Numbered
    <2> QED
      BY <1>2, <1>3, <2>2
  <1>6. cmdq' # <<>> => cmdq'[Len(cmdq')] = cmdq[Len(cmdq)]
    <2>1. cmdq' # <<>> => Len(cmdq') >= 1
      BY <1>2
    <2>2. cmdq' # <<>> => Len(cmdq') \in 1 .. (Len(cmdq) - 1)
                          /\ Len(cmdq') + 1 = Len(cmdq)
      BY <1>2, <2>1
    <2> QED
      BY <1>2, <2>2
  <1>7. cmdq' = <<>> <=> Len(cmdq') = 0
    <2>1. \A s \in Seq(Command) : s = <<>> <=> Len(s) = 0
      OBVIOUS
    <2> QED
      BY <1>2, <2>1
  <1>8. Executed' = asked - Len(cmdq')
    BY DEF Executed
  <1>9. Head(cmdq).id = asked <=> cmdq' = <<>>
    BY <1>1, <1>2, <1>4, <1>7, <1>8
  <1>10. waiting /\ Head(cmdq).id = asked => Head(cmdq) = Request(pc, asked)
    <2>1. Head(cmdq).id = asked => Len(cmdq) = 1
      BY <1>2, <1>7, <1>9
    <2> QED
      BY <1>2, <2>1 DEF Numbered
  <1> QED
    BY <1>2, <1>3, <1>4, <1>5, <1>6, <1>9, <1>10

-----------------------------------------------------------------------------
(* Types                                                                   *)

LEMMA TypeInit == Init => TypeInv
  <1> SUFFICES ASSUME Init PROVE TypeInv
    OBVIOUS
  <1>1. TypeOK
    <2>1. /\ pc \in Pcs /\ waiting \in BOOLEAN /\ filter \in Filter
          /\ scanning \in BOOLEAN /\ clean \in BOOLEAN
      BY ScanAssumption DEF Init, Pcs
    <2>2. rxq \in Seq(Event) /\ cmdq \in Seq(Command) /\ heard \in Seq(Event)
      BY DEF Init
    <2>3. /\ elapsed \in 0 .. scan_time + 1 /\ counter \in -1 .. ble_list_len
          /\ ret \in -1 .. ble_list_len /\ scans \in 0 .. MaxScans
          /\ asked \in 0 .. MaxAsked /\ reports \in 0 .. MaxReports
      BY ScanAssumption DEF Init, MaxAsked
    <2>4. ble_list \in [0 .. ble_list_len - 1 -> Entry \cup {NoEntry}]
      BY DEF Init
    <2> QED
      BY <2>1, <2>2, <2>3, <2>4 DEF TypeOK
  <1> QED
    BY <1>1 DEF Init, TypeInv, Made

\* What a request leaves when it ends.
LEMMA ReturnTypes ==
    ASSUME TypeInv, pc \in Asking, NEW r \in {"ok", "EIO", "other"},
           waiting' = FALSE, pc' = After(pc, r), filter' \in Filter,
           rxq' \in Seq(Event), clean' \in BOOLEAN,
           UNCHANGED <<elapsed, ble_list, counter, ret, scans, asked, heard,
                       ctrlVars>>
    PROVE  TypeInv'
  <1>1. /\ pc' \in Pcs /\ pc' # "idle" /\ Made[pc'] >= Made[pc] + 1
        /\ pc' = "select" => FALSE
        /\ counter # -1 \/ pc' = "reset"
    <2>1. counter = -1 => pc = "stop"
      BY AskFacts DEF TypeInv
    <2>2. pc = "stop" => pc' = "reset"
      BY DEF After
    <2> QED
      BY <2>1, <2>2, AfterFacts
  <1>2. pc # "idle"
    BY AskFacts
  <1>3. TypeOK'
    BY <1>1 DEF TypeInv, TypeOK, ctrlVars
  <1>4. asked' + 5 <= 5 * scans' + Made[pc'] + 0
    <2>1. Made[pc] \in Nat /\ Made[pc'] \in Nat
      BY <1>1, AskFacts DEF Made, Pcs
    <2>2. asked \in Nat /\ scans \in Nat /\ asked' = asked /\ scans' = scans
      BY DEF TypeInv, TypeOK
    <2>3. asked + 5 <= 5 * scans + Made[pc] + 1
      BY <2>1, <2>2 DEF TypeInv
    <2> QED
      BY <1>1, <2>1, <2>2, <2>3
  <1>5. ~waiting' /\ (pc' # "idle" => scans' > 0)
    BY <1>2 DEF TypeInv
  <1>6. counter' = -1 => pc' \in {"stop", "reset", "idle"}
    BY <1>1
  <1> QED
    BY <1>3, <1>4, <1>5, <1>6 DEF TypeInv

LEMMA TypeStep == TypeInv /\ [Next]_vars => TypeInv'
  <1> SUFFICES ASSUME TypeInv, [Next]_vars
               PROVE  TypeInv'
    OBVIOUS
  <1> USE DEF ctrlVars
  <1>0. /\ TypeOK
        /\ waiting \in BOOLEAN /\ asked \in Nat /\ scans \in Nat
        /\ MaxScans \in Nat /\ scans <= MaxScans
        /\ MaxAsked = 5 * MaxScans
    BY ScanAssumption DEF TypeInv, TypeOK, MaxAsked
  <1>1. CASE Begin
    <2>1. /\ pc = "idle" /\ ~waiting /\ waiting' = waiting /\ asked' = asked
          /\ scans' = scans + 1 /\ scans < MaxScans /\ counter' = 0
          /\ elapsed' = 0 /\ heard' = <<>>
          /\ pc' \in {"params", "idle"} /\ ret' \in {ret, -1}
          /\ filter' \in {ScanFilter, filter} /\ clean' \in BOOLEAN
          /\ UNCHANGED <<ble_list, rxq, cmdq, scanning, reports>>
      BY <1>1, AskFacts DEF Begin, TypeInv
    <2>2. ret' \in -1 .. ble_list_len /\ counter' \in -1 .. ble_list_len
          /\ elapsed' \in 0 .. scan_time + 1 /\ scans' \in 0 .. MaxScans
      BY <1>0, <2>1, ScanAssumption DEF TypeOK
    <2>3. heard' \in Seq(Event) /\ filter' \in Filter
      BY <1>0, <2>1, FilterFacts DEF TypeOK
    <2>4. TypeOK'
      BY <1>0, <2>1, <2>2, <2>3 DEF TypeOK, Pcs, Asking, Ask
    <2>5. asked + 5 <= 5 * scans + 5
      BY <1>0, <2>1 DEF TypeInv, Made
    <2> QED
      BY <1>0, <2>1, <2>4, <2>5 DEF TypeInv, Made
  <1>2. CASE Write
    <2>1. /\ pc \in Asking /\ ~waiting /\ waiting' = TRUE
          /\ asked' = asked + 1 /\ pc' = pc
          /\ filter' = RequestFilter(Ask[pc].req)
          /\ cmdq' = Append(cmdq, Request(pc, asked + 1))
          /\ UNCHANGED <<elapsed, ble_list, counter, ret, scans, clean, heard,
                         rxq, scanning, reports>>
      BY <1>2 DEF Write
    <2>2. Made[pc] \in Nat /\ Made[pc] <= 4
      BY <2>1, AskFacts DEF Made
    <2>3. asked + 5 <= 5 * scans + Made[pc]
      BY <1>0, <2>1, <2>2 DEF TypeInv
    <2>4. asked + 1 \in 1 .. MaxAsked
      BY <1>0, <2>2, <2>3
    <2>5. filter' \in Filter
      BY <2>1, FilterFacts
    <2>6. cmdq' \in Seq(Command)
      <3>1. Request(pc, asked + 1) \in Command
        BY <2>1, <2>4 DEF Command
      <3>2. cmdq \in Seq(Command)
        BY <1>0 DEF TypeOK
      <3> QED
        BY <2>1, <3>1, <3>2
    <2>7. TypeOK'
      BY <1>0, <2>1, <2>4, <2>5, <2>6 DEF TypeOK
    <2>8. asked' + 5 <= 5 * scans' + Made[pc'] + 1
      BY <1>0, <2>1, <2>2, <2>3
    <2> QED
      BY <2>1, <2>7, <2>8 DEF TypeInv
  <1>3. CASE WriteFails
    <2>1. PICK r \in {"EIO", "other"} : pc' = After(pc, r)
      BY <1>3 DEF WriteFails
    <2>2. /\ pc \in Asking /\ waiting' = FALSE /\ clean' \in BOOLEAN
          /\ UNCHANGED <<elapsed, ble_list, counter, ret, scans, asked, heard,
                         ctrlVars, filter, rxq>>
      BY <1>0, <1>3 DEF WriteFails
    <2>3. filter' \in Filter /\ rxq' \in Seq(Event)
      BY <1>0, <2>2 DEF TypeOK
    <2> QED
      BY <2>1, <2>2, <2>3, ReturnTypes
  <1>4. CASE Wait
    <2>1. /\ pc \in Asking /\ rxq # <<>>
          /\ UNCHANGED <<elapsed, ble_list, counter, ret, scans, asked, heard,
                         ctrlVars>>
      BY <1>4 DEF Wait
    <2>2. rxq \in Seq(Event) /\ Tail(rxq) \in Seq(Event) /\ Head(rxq) \in Event
      BY <1>0, <2>1, TailElements DEF TypeOK
    <2>3. CASE /\ Returns(IF Head(rxq).status = 0 THEN "ok" ELSE "EIO")
               /\ clean' = (clean /\ Head(rxq).id = asked)
               /\ rxq' = Tail(rxq)
      <3>1. PICK r \in {"ok", "EIO"} : Returns(r)
        BY <2>3
      <3>2. waiting' = FALSE /\ pc' = After(pc, r) /\ filter' = ScanFilter
        BY <3>1 DEF Returns
      <3>3. filter' \in Filter /\ rxq' \in Seq(Event)
        BY <2>2, <2>3, <3>2, FilterFacts
      <3>4. clean' \in BOOLEAN
        BY <1>0, <2>3 DEF TypeOK
      <3> QED
        BY <2>1, <3>2, <3>3, <3>4, ReturnTypes
    <2>4. CASE /\ rxq' = Tail(rxq) \o Skipped(Head(rxq))
               /\ UNCHANGED <<waiting, filter, pc, clean>>
      <3>1. rxq' = Tail(rxq)
        BY <2>1, <2>2, <2>4, SkippedNothing
      <3>2. TypeOK'
        BY <1>0, <2>1, <2>2, <2>4, <3>1 DEF TypeOK
      <3> QED
        BY <2>1, <2>4, <3>2 DEF TypeInv
    <2> QED
      BY <1>4, <2>3, <2>4 DEF Wait
  <1>5. CASE GiveUp
    <2>1. PICK r \in {"ok", "EIO", "other"} : Returns(r)
      BY <1>5 DEF GiveUp
    <2>2. waiting' = FALSE /\ pc' = After(pc, r) /\ filter' = ScanFilter
      BY <2>1 DEF Returns
    <2>3. /\ pc \in Asking /\ clean' \in BOOLEAN
          /\ UNCHANGED <<elapsed, ble_list, counter, ret, scans, asked, heard,
                         ctrlVars, rxq>>
      BY <1>5 DEF GiveUp
    <2>4. filter' \in Filter /\ rxq' \in Seq(Event)
      BY <1>0, <2>2, <2>3, FilterFacts DEF TypeOK
    <2> QED
      BY <2>2, <2>3, <2>4, ReturnTypes
  <1>6. CASE Fail
    <2>1. /\ pc = "fail" /\ pc' = "idle" /\ ret' = -1 /\ ~waiting
          /\ UNCHANGED <<waiting, elapsed, ble_list, counter, scans, asked,
                         clean, heard, cmdq, scanning, reports, filter, rxq>>
      BY <1>6, AskFacts DEF Fail, TypeInv
    <2>2. ret' \in -1 .. ble_list_len
      BY <2>1, ScanAssumption
    <2>3. TypeOK'
      BY <1>0, <2>1, <2>2 DEF TypeOK, Pcs
    <2> QED
      BY <2>1, <2>3 DEF TypeInv, Made
  <1>7. CASE Loop
    <2>1. /\ pc = "loop" /\ pc' \in {"stop", "select"} /\ ~waiting
          /\ UNCHANGED <<waiting, elapsed, ble_list, counter, ret, scans,
                         asked, clean, heard, cmdq, scanning, reports, filter,
                         rxq>>
      BY <1>7, AskFacts DEF Loop, TypeInv
    <2>2. TypeOK'
      BY <1>0, <2>1, AskFacts DEF TypeOK, Pcs
    <2> QED
      BY <2>1, <2>2 DEF TypeInv, Made
  <1>8. CASE Quiet
    <2>1. /\ pc = "select" /\ pc' = "loop" /\ ~waiting
          /\ UNCHANGED <<waiting, elapsed, ble_list, counter, ret, scans,
                         asked, clean, heard, cmdq, scanning, reports, filter,
                         rxq>>
      BY <1>8, AskFacts DEF Quiet, TypeInv
    <2>2. TypeOK'
      BY <1>0, <2>1 DEF TypeOK, Pcs
    <2> QED
      BY <2>1, <2>2 DEF TypeInv, Made
  <1>9. CASE LoopFails
    <2>1. /\ pc = "select" /\ pc' = "stop" /\ ~waiting
          /\ counter' \in {-1, counter}
          /\ UNCHANGED <<waiting, elapsed, ble_list, ret, scans, asked, clean,
                         heard, cmdq, scanning, reports, filter, rxq>>
      BY <1>9, AskFacts DEF LoopFails, TypeInv
    <2>2. counter' \in -1 .. ble_list_len
      BY <1>0, <2>1, ScanAssumption DEF TypeOK
    <2>3. TypeOK'
      BY <1>0, <2>1, <2>2, AskFacts DEF TypeOK, Pcs
    <2> QED
      BY <2>1, <2>3 DEF TypeInv, Made
  <1>10. CASE Read
    <2>1. /\ pc = "select" /\ pc' = "loop" /\ ~waiting /\ rxq # <<>>
          /\ rxq' = Tail(rxq)
          /\ UNCHANGED <<waiting, elapsed, ret, scans, asked, clean, cmdq,
                         scanning, reports, filter>>
      BY <1>10, AskFacts DEF Read, TypeInv
    <2>2. Tail(rxq) \in Seq(Event) /\ Head(rxq) \in Event
      BY <1>0, <2>1, TailElements DEF TypeOK
    <2>3. counter \in 0 .. ble_list_len
      BY <1>0, <2>1, ScanAssumption DEF TypeOK, TypeInv
    <2>4. /\ heard' \in Seq(Event) /\ counter' \in 0 .. ble_list_len
          /\ ble_list' \in [0 .. ble_list_len - 1 -> Entry \cup {NoEntry}]
      <3>1. CASE UNCHANGED <<heard, ble_list, counter>>
        BY <1>0, <2>3, <3>1 DEF TypeOK
      <3>2. CASE /\ IsReport(Head(rxq)) /\ heard' = Append(heard, Head(rxq))
                 /\ UNCHANGED <<ble_list, counter>>
        <4>1. heard' \in Seq(Event)
          BY <1>0, <2>2, <3>2 DEF TypeOK
        <4> QED
          BY <1>0, <2>3, <3>2, <4>1 DEF TypeOK
      <3>3. ASSUME IsReport(Head(rxq)), heard' = Append(heard, Head(rxq)),
                   NEW i \in Place(Head(rxq).arg),
                   ble_list' = [ble_list EXCEPT ![i] =
                       [dev |-> Head(rxq).arg, rssi |-> Head(rxq).status]],
                   counter' = IF i = counter THEN i + 1 ELSE counter
            PROVE  <2>4
        <4>1. heard' \in Seq(Event)
          BY <1>0, <2>2, <3>3 DEF TypeOK
        <4>2. i \in 0 .. ble_list_len - 1
          BY <2>3, ScanAssumption DEF Place, Finds
        <4>3. [dev |-> Head(rxq).arg, rssi |-> Head(rxq).status] \in Entry
          BY <2>2, <3>3, EventFacts DEF Entry
        <4>4. ble_list' \in [0 .. ble_list_len - 1 -> Entry \cup {NoEntry}]
          BY <1>0, <3>3, <4>2, <4>3 DEF TypeOK
        <4>5. counter' \in 0 .. ble_list_len
          BY <2>3, <3>3, <4>2, ScanAssumption
        <4> QED
          BY <4>1, <4>4, <4>5
      <3> QED
        BY <1>10, <3>1, <3>2, <3>3 DEF Read
    <2>5. counter' \in -1 .. ble_list_len
      BY <2>4, ScanAssumption
    <2>6. TypeOK'
      BY <1>0, <2>1, <2>2, <2>4, <2>5 DEF TypeOK, Pcs
    <2>7. counter' # -1
      BY <2>4
    <2> QED
      BY <2>1, <2>6, <2>7 DEF TypeInv, Made
  <1>11. CASE Reset
    <2>1. /\ pc = "reset" /\ pc' = "idle" /\ ~waiting /\ ret' = counter
          /\ filter' \in {hci_of, filter} /\ clean' \in {clean, FALSE}
          /\ UNCHANGED <<waiting, elapsed, ble_list, counter, scans, asked,
                         heard, cmdq, scanning, reports, rxq>>
      BY <1>11, AskFacts DEF Reset, TypeInv
    <2>2. filter' \in Filter /\ clean' \in BOOLEAN
      BY <1>0, <2>1, ScanAssumption DEF TypeOK
    <2>3. TypeOK'
      BY <1>0, <2>1, <2>2 DEF TypeOK, Pcs
    <2> QED
      BY <2>1, <2>3 DEF TypeInv, Made
  <1>12. CASE Tick
    <2>1. /\ elapsed' = elapsed + 1 /\ elapsed <= scan_time
          /\ UNCHANGED <<pc, waiting, ble_list, counter, ret, scans, asked,
                         clean, heard, cmdq, scanning, reports, filter, rxq>>
      BY <1>12 DEF Tick
    <2>2. elapsed' \in 0 .. scan_time + 1
      BY <1>0, <2>1, ScanAssumption DEF TypeOK
    <2>3. TypeOK'
      BY <1>0, <2>1, <2>2 DEF TypeOK
    <2> QED
      BY <2>1, <2>3 DEF TypeInv
  <1>13. CASE Execute
    <2>1. /\ cmdq # <<>> /\ cmdq' = Tail(cmdq)
          /\ UNCHANGED <<pc, waiting, elapsed, ble_list, counter, ret, scans,
                         asked, heard, reports, filter>>
      BY <1>13 DEF Execute
    <2>2. Head(cmdq) \in Command /\ Tail(cmdq) \in Seq(Command)
      BY <1>0, <2>1, TailElements DEF TypeOK
    <2>3. PICK s \in {0, 1} : Deliver(Answer(Head(cmdq), s))
      BY <1>13 DEF Execute
    <2>4. Answer(Head(cmdq), s) \in Event
      BY <2>2 DEF Event
    <2>5. rxq' \in Seq(Event)
      BY <1>0, <2>3, <2>4, QueueDeliver
    <2>6. scanning' \in BOOLEAN /\ clean' \in BOOLEAN
      BY <1>0, <1>13 DEF Execute, TypeOK
    <2>7. TypeOK'
      BY <1>0, <2>1, <2>2, <2>5, <2>6 DEF TypeOK
    <2> QED
      BY <2>1, <2>7 DEF TypeInv
  <1>14. ASSUME NEW dev \in Devices, NEW rssi \in Rssi, NEW named \in BOOLEAN,
                Advertise(dev, rssi, named)
         PROVE  TypeInv'
    <2>1. /\ reports' = reports + 1 /\ reports < MaxReports
          /\ UNCHANGED <<pc, waiting, elapsed, ble_list, counter, ret, scans,
                         asked, clean, heard, cmdq, scanning, filter>>
      BY <1>14 DEF Advertise, procVars
    <2>2. PICK n \in 0 .. MaxScans : Deliver(Report(dev, rssi, named, n))
      BY <1>0, <1>14 DEF Advertise
    <2>3. Report(dev, rssi, named, n) \in Event
      BY DEF Event
    <2>4. rxq' \in Seq(Event)
      BY <1>0, <2>2, <2>3, QueueDeliver
    <2>5. reports' \in 0 .. MaxReports
      BY <1>0, <2>1, ScanAssumption DEF TypeOK
    <2>6. TypeOK'
      BY <1>0, <2>1, <2>4, <2>5 DEF TypeOK
    <2> QED
      BY <2>1, <2>6 DEF TypeInv
  <1>15. CASE UNCHANGED vars
    BY <1>15 DEF vars, procVars, TypeInv, TypeOK
  <1> QED
    BY <1>1, <1>2, <1>3, <1>4, <1>5, <1>6, <1>7, <1>8, <1>9, <1>10, <1>11,
       <1>12, <1>13, <1>14, <1>15 DEF Next, Step

-----------------------------------------------------------------------------
(* The numbers of the commands and of the answers                          *)

LEMMA NumberedStep == TypeInv /\ Numbered /\ [Next]_vars => Numbered'
  <1> SUFFICES ASSUME TypeInv, Numbered, [Next]_vars
               PROVE  Numbered'
    OBVIOUS
  <1> USE DEF ctrlVars
  <1>0. TypeOK /\ asked \in Nat /\ cmdq \in Seq(Command) /\ Len(cmdq) \in Nat
    BY DEF TypeInv, TypeOK
  <1>a. ASSUME UNCHANGED <<cmdq, asked>>, Queued' \subseteq Queued,
               waiting' => waiting /\ pc' = pc
        PROVE  Numbered'
    <2>1. Executed' = Executed
      BY <1>a DEF Executed
    <2>2. \A k \in DOMAIN cmdq' : cmdq'[k].id = Executed' + k
      BY <1>a, <2>1 DEF Numbered
    <2>3. \A e \in Queued' : ~IsReport(e) => e.id <= Executed'
      BY <1>a, <2>1 DEF Numbered
    <2>4. waiting' /\ cmdq' # <<>> =>
             cmdq'[Len(cmdq')] = Request(pc', asked')
      BY <1>a DEF Numbered
    <2>5. Len(cmdq') <= asked'
      BY <1>a DEF Numbered
    <2> QED
      BY <2>2, <2>3, <2>4, <2>5 DEF Numbered
  <1>b. ASSUME UNCHANGED rxq
        PROVE  Queued' = Queued
    BY <1>b DEF Queued
  <1>c. ASSUME rxq # <<>>, rxq' = Tail(rxq)
        PROVE  Queued' \subseteq Queued
    BY <1>0, <1>c, QueueTail
  <1>1. CASE Begin
    <2>1. UNCHANGED <<cmdq, asked, rxq>> /\ ~waiting'
      BY <1>1, AskFacts DEF Begin, TypeInv
    <2> QED
      BY <1>a, <1>b, <2>1
  <1>2. CASE Write
    <2>1. /\ asked' = asked + 1 /\ pc' = pc /\ rxq' = rxq
          /\ cmdq' = Append(cmdq, Request(pc, asked + 1))
      BY <1>2 DEF Write
    <2>2. /\ Len(cmdq') = Len(cmdq) + 1
          /\ DOMAIN cmdq' = 1 .. (Len(cmdq) + 1) /\ DOMAIN cmdq = 1 .. Len(cmdq)
          /\ \A k \in 1 .. Len(cmdq) : cmdq'[k] = cmdq[k]
          /\ cmdq'[Len(cmdq) + 1] = Request(pc, asked + 1)
      BY <1>0, <2>1
    <2>3. Executed' = Executed /\ Executed = asked - Len(cmdq)
      BY <1>0, <2>1, <2>2 DEF Executed
    <2>4. \A k \in DOMAIN cmdq' : cmdq'[k].id = Executed' + k
      <3>1. \A k \in 1 .. Len(cmdq) : cmdq'[k].id = Executed' + k
        BY <2>2, <2>3 DEF Numbered
      <3>2. cmdq'[Len(cmdq) + 1].id = Executed' + (Len(cmdq) + 1)
        BY <1>0, <2>2, <2>3 DEF Request
      <3>3. \A k \in DOMAIN cmdq' : k \in 1 .. Len(cmdq) \/ k = Len(cmdq) + 1
        BY <1>0, <2>2
      <3> QED
        BY <3>1, <3>2, <3>3
    <2>5. \A e \in Queued' : ~IsReport(e) => e.id <= Executed'
      BY <1>b, <2>1, <2>3 DEF Numbered
    <2>6. cmdq'[Len(cmdq')] = Request(pc', asked')
      BY <2>1, <2>2
    <2>7. Len(cmdq') <= asked'
      BY <1>0, <2>1, <2>2 DEF Numbered
    <2> QED
      BY <2>4, <2>5, <2>6, <2>7 DEF Numbered
  <1>3. CASE WriteFails
    <2>1. UNCHANGED <<cmdq, asked, rxq>> /\ ~waiting'
      BY <1>3 DEF WriteFails
    <2> QED
      BY <1>a, <1>b, <2>1
  <1>4. CASE Wait
    <2>1. rxq \in Seq(Event) /\ rxq # <<>> /\ Head(rxq) \in Event
      BY <1>0, <1>4, TailElements DEF Wait, TypeOK
    <2>2. rxq' = Tail(rxq)
      BY <1>4, <2>1, SkippedNothing DEF Wait
    <2>3. UNCHANGED <<cmdq, asked>> /\ (waiting' => waiting /\ pc' = pc)
      BY <1>4 DEF Wait, Returns
    <2> QED
      BY <1>a, <1>c, <2>1, <2>2, <2>3
  <1>5. CASE GiveUp
    <2>1. UNCHANGED <<cmdq, asked, rxq>> /\ ~waiting'
      BY <1>5 DEF GiveUp, Returns
    <2> QED
      BY <1>a, <1>b, <2>1
  <1>6. CASE Fail
    <2>1. UNCHANGED <<cmdq, asked, rxq>> /\ ~waiting'
      BY <1>6, AskFacts DEF Fail, TypeInv
    <2> QED
      BY <1>a, <1>b, <2>1
  <1>7. CASE Loop
    <2>1. UNCHANGED <<cmdq, asked, rxq>> /\ ~waiting'
      BY <1>7, AskFacts DEF Loop, TypeInv
    <2> QED
      BY <1>a, <1>b, <2>1
  <1>8. CASE Quiet
    <2>1. UNCHANGED <<cmdq, asked, rxq>> /\ ~waiting'
      BY <1>8, AskFacts DEF Quiet, TypeInv
    <2> QED
      BY <1>a, <1>b, <2>1
  <1>9. CASE LoopFails
    <2>1. UNCHANGED <<cmdq, asked, rxq>> /\ ~waiting'
      BY <1>9, AskFacts DEF LoopFails, TypeInv
    <2> QED
      BY <1>a, <1>b, <2>1
  <1>10. CASE Read
    <2>1. /\ UNCHANGED <<cmdq, asked>> /\ ~waiting'
          /\ rxq # <<>> /\ rxq' = Tail(rxq)
      BY <1>10, AskFacts DEF Read, TypeInv
    <2> QED
      BY <1>a, <1>c, <2>1
  <1>11. CASE Reset
    <2>1. UNCHANGED <<cmdq, asked, rxq>> /\ ~waiting'
      BY <1>11, AskFacts DEF Reset, TypeInv
    <2> QED
      BY <1>a, <1>b, <2>1
  <1>12. CASE Tick
    <2>1. UNCHANGED <<cmdq, asked, rxq, waiting, pc>>
      BY <1>12 DEF Tick
    <2> QED
      BY <1>a, <1>b, <2>1
  <1>13. CASE Execute
    <2>1. /\ cmdq # <<>> /\ cmdq' = Tail(cmdq)
          /\ UNCHANGED <<pc, waiting, asked>>
      BY <1>13 DEF Execute
    <2>2. /\ Head(cmdq) \in Command /\ Executed' = Executed + 1
          /\ Head(cmdq).id = Executed' /\ Len(cmdq') = Len(cmdq) - 1
          /\ \A k \in DOMAIN cmdq' : cmdq'[k].id = Executed' + k
          /\ cmdq' # <<>> => cmdq'[Len(cmdq')] = cmdq[Len(cmdq)]
      BY <1>0, <2>1, TakeFirst
    <2>3. PICK s \in {0, 1} : Deliver(Answer(Head(cmdq), s))
      BY <1>13 DEF Execute
    <2>4. Answer(Head(cmdq), s) \in Event
      BY <2>2 DEF Event
    <2>5. Queued' \subseteq Queued \cup {Answer(Head(cmdq), s)}
      BY <1>0, <2>3, <2>4, QueueDeliver
    <2>6. Answer(Head(cmdq), s).id = Executed'
      BY <2>2, EventFacts
    <2>7. \A e \in Queued' : ~IsReport(e) => e.id <= Executed'
      <3> SUFFICES ASSUME NEW e \in Queued', ~IsReport(e)
                   PROVE  e.id <= Executed'
        OBVIOUS
      <3>1. Executed \in Int
        BY <1>0 DEF Executed
      <3>2. CASE e = Answer(Head(cmdq), s)
        BY <2>2, <2>6, <3>1, <3>2
      <3>3. CASE e \in Queued
        <4>1. e.id <= Executed
          BY <3>3 DEF Numbered
        <4>2. e \in Event
          BY <1>0, <3>3 DEF Queued, Elements, TypeOK
        <4>3. e.id \in Nat
          BY <4>2, EventFacts, ScanAssumption DEF MaxAsked
        <4> QED
          BY <2>2, <3>1, <4>1, <4>3
      <3> QED
        BY <2>5, <3>2, <3>3
    <2>8. Len(cmdq') <= asked'
      BY <1>0, <2>1, <2>2 DEF Numbered
    <2>9. waiting' /\ cmdq' # <<>> => cmdq'[Len(cmdq')] = Request(pc', asked')
      BY <2>1, <2>2 DEF Numbered
    <2> QED
      BY <2>2, <2>7, <2>8, <2>9 DEF Numbered
  <1>14. ASSUME NEW dev \in Devices, NEW rssi \in Rssi, NEW named \in BOOLEAN,
                Advertise(dev, rssi, named)
         PROVE  Numbered'
    <2>1. UNCHANGED <<cmdq, asked, waiting, pc>>
      BY <1>14 DEF Advertise, procVars
    <2>2. PICK n \in 0 .. MaxScans : Deliver(Report(dev, rssi, named, n))
      BY <1>0, <1>14, ScanAssumption DEF Advertise, TypeOK
    <2>3. Report(dev, rssi, named, n) \in Event
      BY DEF Event
    <2>4. Queued' \subseteq Queued \cup {Report(dev, rssi, named, n)}
      BY <1>0, <2>2, <2>3, QueueDeliver
    <2>5. IsReport(Report(dev, rssi, named, n))
      BY EventFacts
    <2>6. Executed' = Executed
      BY <2>1 DEF Executed
    <2>7. \A e \in Queued' : ~IsReport(e) => e.id <= Executed'
      BY <2>4, <2>5, <2>6 DEF Numbered
    <2>8. \A k \in DOMAIN cmdq' : cmdq'[k].id = Executed' + k
      BY <2>1, <2>6 DEF Numbered
    <2>9. /\ Len(cmdq') <= asked'
          /\ waiting' /\ cmdq' # <<>> =>
                cmdq'[Len(cmdq')] = Request(pc', asked')
      BY <2>1 DEF Numbered
    <2> QED
      BY <2>7, <2>8, <2>9 DEF Numbered
  <1>15. CASE UNCHANGED vars
    <2>1. UNCHANGED <<cmdq, asked, rxq, waiting, pc>>
      BY <1>15 DEF vars, procVars
    <2> QED
      BY <1>a, <1>b, <2>1
  <1> QED
    BY <1>1, <1>2, <1>3, <1>4, <1>5, <1>6, <1>7, <1>8, <1>9, <1>10, <1>11,
       <1>12, <1>13, <1>14, <1>15 DEF Next, Step

-----------------------------------------------------------------------------
(* What holds of a scan as long as it is clean                             *)

\* Where nothing is said of a scan, nothing is to be shown.
LEMMA NotClean ==
    ASSUME ~clean'
    PROVE  OfClean'
  BY DEF OfClean, Emptied, Granted, Off, OnlyNew, NoStaleReport,
     CleanScanStarts, SavedFilter

\* A step that changes neither the label nor the queues keeps it.
LEMMA NothingChanged ==
    ASSUME OfClean,
           UNCHANGED <<pc, waiting, clean, scans, asked, heard, filter, rxq,
                       cmdq, scanning>>
    PROVE  OfClean'
  <1>1. Queued' = Queued
    BY DEF Queued
  <1>2. Done' = Done
    BY DEF Done
  <1>3. \A e : OwnAnswer(e)' <=> OwnAnswer(e)
    BY DEF OwnAnswer
  <1>4. Emptied' /\ Granted' /\ Off'
    BY <1>1, <1>2, <1>3 DEF OfClean, Emptied, Granted, Off
  <1>5. OnlyNew'
    <2>1. clean' /\ pc' \in Later =>
             \A e \in Queued' : IsReport(e) => e.id = scans'
      BY <1>1 DEF OfClean, OnlyNew
    <2>2. clean' /\ pc' = "params" /\ waiting' => \A j, k \in DOMAIN rxq' :
             /\ j < k /\ ~IsReport(rxq'[j]) /\ rxq'[j].id = asked'
             /\ IsReport(rxq'[k])
             => rxq'[k].id = scans'
      BY DEF OfClean, OnlyNew, OwnAnswer
    <2> QED
      BY <2>1, <2>2 DEF OnlyNew, OwnAnswer
  <1>6. NoStaleReport' /\ CleanScanStarts' /\ SavedFilter'
    BY DEF OfClean, NoStaleReport, CleanScanStarts, SavedFilter
  <1> QED
    BY <1>4, <1>5, <1>6 DEF OfClean

LEMMA CleanBegin ==
    ASSUME TypeInv, Begin, clean'
    PROVE  OfClean'
  <1>1. pc' = "params" /\ ~waiting' /\ heard' = <<>>
    BY AskFacts DEF Begin, TypeInv
  <1>2. NoStaleReport'
    BY <1>1 DEF NoStaleReport
  <1>3. Emptied' /\ Granted' /\ Off' /\ OnlyNew'
    BY <1>1 DEF Emptied, Granted, Off, OnlyNew, Later
  <1> QED
    BY <1>1, <1>2, <1>3 DEF OfClean, CleanScanStarts, SavedFilter

\* When a request is written, no event in the queue is its answer.
LEMMA CleanWrite ==
    ASSUME TypeInv, Numbered, OfClean, Write, clean'
    PROVE  OfClean'
  <1>1. /\ pc \in Asking /\ ~waiting /\ waiting' = TRUE
        /\ asked' = asked + 1 /\ clean
        /\ cmdq' = Append(cmdq, Request(pc, asked + 1))
        /\ UNCHANGED <<pc, scans, heard, rxq, scanning>>
    BY DEF Write
  <1>2. /\ cmdq \in Seq(Command) /\ Len(cmdq) \in Nat /\ asked \in Nat
        /\ rxq \in Seq(Event)
    BY DEF TypeInv, TypeOK
  <1>3. Len(cmdq') = Len(cmdq) + 1 /\ cmdq' # <<>>
    BY <1>1, <1>2
  <1>4. Queued' = Queued
    BY <1>1 DEF Queued
  <1>5. \A e \in Queued : ~IsReport(e) => e.id # asked'
    <2> SUFFICES ASSUME NEW e \in Queued, ~IsReport(e)
                 PROVE  e.id # asked'
      OBVIOUS
    <2>1. e.id <= asked - Len(cmdq)
      BY DEF Numbered, Executed
    <2> QED
      BY <1>1, <1>2, <2>1
  <1>6. Emptied'
    <2>1. pc # "reset" /\ pc # "idle"
      BY <1>1, AskFacts
    <2>2. pc \in Later => Len(cmdq) <= 0
      BY <1>1 DEF OfClean, Emptied
    <2>3. pc \in Later => Len(cmdq') <= 1
      BY <1>2, <1>3, <2>2
    <2> QED
      BY <1>1, <2>1, <2>3 DEF Emptied
  <1>7. Granted'
    BY <1>4, <1>5 DEF Granted, OwnAnswer
  <1>8. Off'
    <2>1. clean /\ pc = "again" => ~scanning
      BY DEF OfClean, Off
    <2>2. ~Done'
      BY <1>3 DEF Done
    <2>3. pc # "reset" /\ pc # "idle"
      BY <1>1, AskFacts
    <2> QED
      BY <1>1, <2>1, <2>2, <2>3 DEF Off
  <1>9. OnlyNew'
    <2>1. \A j \in DOMAIN rxq' : rxq'[j] \in Queued
      BY <1>1 DEF Queued, Elements
    <2>2. \A j \in DOMAIN rxq' : ~(OwnAnswer(rxq[j])')
      BY <1>1, <1>5, <2>1 DEF OwnAnswer
    <2>3. clean' /\ pc' \in Later =>
             \A e \in Queued' : IsReport(e) => e.id = scans'
      BY <1>1, <1>4 DEF OfClean, OnlyNew
    <2> QED
      BY <1>1, <2>2, <2>3 DEF OnlyNew, OwnAnswer
  <1>10. NoStaleReport'
    BY <1>1 DEF OfClean, NoStaleReport
  <1>11. CleanScanStarts' /\ SavedFilter'
    BY <1>1, AskFacts DEF CleanScanStarts, SavedFilter
  <1> QED
    BY <1>6, <1>7, <1>8, <1>9, <1>10, <1>11 DEF OfClean

\* The answer to the request under way: its command was the last one, and what
\* it asked for is done.
LEMMA CleanAnswer ==
    ASSUME TypeInv, Numbered, OfClean, clean',
           pc \in Asking, waiting, rxq # <<>>, IsAnswer(Head(rxq)),
           Returns(IF Head(rxq).status = 0 THEN "ok" ELSE "EIO"),
           clean' = (clean /\ Head(rxq).id = asked),
           rxq' = Tail(rxq),
           UNCHANGED <<scans, asked, heard, cmdq, scanning>>
    PROVE  OfClean'
  <1> DEFINE e == Head(rxq)
             r == IF e.status = 0 THEN "ok" ELSE "EIO"
  <1>1. /\ e \in Event /\ Queued = {e} \cup Queued'
        /\ Len(rxq) \in Nat /\ DOMAIN rxq = 1 .. Len(rxq)
        /\ 1 \in DOMAIN rxq /\ e = rxq[1]
        /\ \A k \in DOMAIN rxq' :
              rxq'[k] = rxq[k + 1] /\ k + 1 \in DOMAIN rxq /\ k >= 1
    BY QueueTail DEF TypeInv
  <1>2. clean /\ e.id = asked /\ ~IsReport(e) /\ OwnAnswer(e)
    BY <1>1, AnswerFacts DEF OwnAnswer
  <1>3. cmdq = <<>> /\ Len(cmdq) = 0
    <2>1. asked \in Nat /\ cmdq \in Seq(Command) /\ Len(cmdq) \in Nat
      BY DEF TypeInv, TypeOK
    <2>2. e.id <= asked - Len(cmdq)
      BY <1>1, <1>2 DEF Numbered, Executed
    <2>3. Len(cmdq) = 0
      BY <1>2, <2>1, <2>2
    <2> QED
      BY <2>1, <2>3
  <1>4. /\ waiting' = FALSE /\ pc' = After(pc, r) /\ r \in {"ok", "EIO"}
        /\ r # "ok" => e.status # 0
    BY DEF Returns
  <1>5. Done
    BY <1>3 DEF Done
  <1>6. /\ pc' # "idle" /\ pc' # "params"
        /\ pc' = "fail" => pc # "params" /\ r # "ok"
        /\ pc' = "again" => pc = "disable"
        /\ pc' = "reset" => pc = "stop"
    <2>1. /\ After(pc, r) # "idle" /\ After(pc, r) # "params"
          /\ After(pc, r) = "fail" => r # "ok"
          /\ After(pc, r) = "fail" /\ pc = "params" => r # "EIO"
          /\ After(pc, r) = "again" => pc = "disable"
          /\ After(pc, r) = "reset" => pc = "stop"
      BY <1>4, AfterFacts
    <2> QED
      BY <1>4, <2>1
  <1>7. Emptied'
    BY <1>3 DEF Emptied
  <1>8. Granted'
    BY <1>4 DEF Granted
  <1>9. Off'
    <2>1. pc \in {"disable", "stop"} => ~scanning
      BY <1>2, <1>5 DEF OfClean, Off
    <2> QED
      BY <1>4, <1>6, <2>1 DEF Off, Done
  <1>10. OnlyNew'
    <2>1. \A x \in Queued' : IsReport(x) => x.id = scans
      <3>1. CASE pc = "params"
        <4>1. \A k \in DOMAIN rxq' : IsReport(rxq'[k]) => rxq'[k].id = scans
          <5> SUFFICES ASSUME NEW k \in DOMAIN rxq', IsReport(rxq'[k])
                       PROVE  rxq'[k].id = scans
            OBVIOUS
          <5>1. k + 1 \in DOMAIN rxq /\ 1 < k + 1 /\ rxq'[k] = rxq[k + 1]
            BY <1>1
          <5>2. OwnAnswer(rxq[1]) /\ IsReport(rxq[k + 1])
            BY <1>1, <1>2, <5>1
          <5>3. rxq[k + 1].id = scans
            BY <1>1, <1>2, <3>1, <5>1, <5>2 DEF OfClean, OnlyNew
          <5> QED
            BY <5>1, <5>3
        <4> QED
          BY <4>1 DEF Queued, Elements
      <3>2. CASE pc # "params"
        <4>1. pc \in Later
          BY <3>2, AskFacts DEF Later
        <4> QED
          BY <1>1, <1>2, <4>1 DEF OfClean, OnlyNew
      <3> QED
        BY <3>1, <3>2
    <2> QED
      BY <1>4, <2>1 DEF OnlyNew
  <1>11. NoStaleReport'
    BY <1>2 DEF OfClean, NoStaleReport
  <1>12. CleanScanStarts'
    <2>1. pc # "params" => e.status = 0
      BY <1>1, <1>2 DEF OfClean, Granted
    <2> QED
      BY <1>4, <1>6, <2>1 DEF CleanScanStarts
  <1>13. SavedFilter'
    BY <1>6 DEF SavedFilter
  <1> QED
    BY <1>7, <1>8, <1>9, <1>10, <1>11, <1>12, <1>13 DEF OfClean

\* An event is dropped in front of the answer, or read by the loop.
LEMMA CleanTake ==
    ASSUME TypeInv, OfClean, clean', clean, rxq # <<>>, rxq' = Tail(rxq),
           \/ UNCHANGED <<waiting, pc, heard>>
           \/ /\ pc = "select" /\ pc' = "loop" /\ ~waiting'
              /\ \/ UNCHANGED heard
                 \/ /\ IsReport(Head(rxq))
                    /\ heard' = Append(heard, Head(rxq)),
           UNCHANGED <<scans, asked, filter, cmdq, scanning>>
    PROVE  OfClean'
  <1>1. /\ Head(rxq) \in Event /\ Queued = {Head(rxq)} \cup Queued'
        /\ \A k \in DOMAIN rxq' :
              rxq'[k] = rxq[k + 1] /\ k + 1 \in DOMAIN rxq /\ k >= 1
        /\ DOMAIN rxq' \subseteq Nat
    <2>1. rxq' \in Seq(Event)
      BY QueueTail DEF TypeInv
    <2>2. DOMAIN rxq' \subseteq Nat
      BY <2>1
    <2> QED
      BY <2>2, QueueTail DEF TypeInv
  <1>2. \A x : OwnAnswer(x)' <=> OwnAnswer(x)
    BY DEF OwnAnswer
  <1>3. CASE UNCHANGED <<waiting, pc, heard>>
    <2>1. Done' = Done
      BY <1>3 DEF Done
    <2>2. Emptied' /\ Off'
      BY <1>3, <2>1 DEF OfClean, Emptied, Off
    <2>3. Granted'
      BY <1>1, <1>2, <1>3 DEF OfClean, Granted
    <2>4. OnlyNew'
      <3>1. pc' \in Later => \A x \in Queued' : IsReport(x) => x.id = scans'
        BY <1>1, <1>3 DEF OfClean, OnlyNew
      <3>2. ASSUME pc = "params", waiting,
                   NEW j \in DOMAIN rxq', NEW k \in DOMAIN rxq', j < k,
                   OwnAnswer(rxq'[j]), IsReport(rxq'[k])
            PROVE  rxq'[k].id = scans
        <4>1. /\ j + 1 \in DOMAIN rxq /\ k + 1 \in DOMAIN rxq
              /\ rxq'[j] = rxq[j + 1] /\ rxq'[k] = rxq[k + 1]
          BY <1>1
        <4>2. j + 1 < k + 1
          BY <1>1, <3>2
        <4>3. rxq[k + 1].id = scans
          BY <3>2, <4>1, <4>2 DEF OfClean, OnlyNew
        <4> QED
          BY <4>1, <4>3
      <3> QED
        BY <1>2, <1>3, <3>1, <3>2 DEF OnlyNew, OwnAnswer
    <2>5. NoStaleReport' /\ CleanScanStarts' /\ SavedFilter'
      BY <1>3 DEF OfClean, NoStaleReport, CleanScanStarts, SavedFilter
    <2> QED
      BY <2>2, <2>3, <2>4, <2>5 DEF OfClean
  <1>4. CASE /\ pc = "select" /\ pc' = "loop" /\ ~waiting'
             /\ \/ UNCHANGED heard
                \/ /\ IsReport(Head(rxq))
                   /\ heard' = Append(heard, Head(rxq))
    <2>1. pc \in Later /\ pc' \in Later
      BY <1>4 DEF Later
    <2>2. Emptied'
      <3>1. Len(cmdq) <= IF waiting THEN 1 ELSE 0
        BY <2>1 DEF OfClean, Emptied
      <3>2. ~waiting
        BY <1>4, AskFacts DEF TypeInv
      <3> QED
        BY <1>4, <3>1, <3>2 DEF Emptied
    <2>3. Granted' /\ Off'
      BY <1>4 DEF Granted, Off
    <2>4. \A x \in Queued : IsReport(x) => x.id = scans
      BY <2>1 DEF OfClean, OnlyNew
    <2>5. OnlyNew'
      BY <1>1, <1>4, <2>4 DEF OnlyNew
    <2>6. NoStaleReport'
      <3>1. \A k \in DOMAIN heard : heard[k].id = scans
        BY DEF OfClean, NoStaleReport
      <3>2. ASSUME IsReport(Head(rxq)), heard' = Append(heard, Head(rxq)),
                   NEW k \in DOMAIN heard'
            PROVE  heard'[k].id = scans
        <4>1. heard \in Seq(Event)
          BY DEF TypeInv, TypeOK
        <4>2. \/ k \in DOMAIN heard /\ heard'[k] = heard[k]
              \/ heard'[k] = Head(rxq)
          BY <1>1, <3>2, <4>1
        <4> QED
          BY <1>1, <2>4, <3>1, <3>2, <4>2
      <3> QED
        BY <1>4, <3>1, <3>2 DEF NoStaleReport
    <2>7. CleanScanStarts' /\ SavedFilter'
      BY <1>4 DEF CleanScanStarts, SavedFilter
    <2> QED
      BY <2>2, <2>3, <2>5, <2>6, <2>7 DEF OfClean
  <1> QED
    BY <1>3, <1>4

\* The loop goes on or ends.
LEMMA CleanLoop ==
    ASSUME TypeInv, OfClean, clean,
           pc \in {"loop", "select"}, pc' \in {"loop", "select", "stop"},
           UNCHANGED <<waiting, clean, scans, asked, heard, filter, rxq, cmdq,
                       scanning>>
    PROVE  OfClean'
  <1>1. ~waiting /\ ~waiting'
    BY AskFacts DEF TypeInv
  <1>2. pc \in Later /\ pc' \in Later
    BY DEF Later
  <1>3. Emptied'
    BY <1>1, <1>2 DEF OfClean, Emptied
  <1>4. Granted' /\ Off'
    BY <1>1 DEF Granted, Off, Done
  <1>5. Queued' = Queued
    BY DEF Queued
  <1>6. OnlyNew'
    <2>1. \A e \in Queued : IsReport(e) => e.id = scans
      BY <1>2 DEF OfClean, OnlyNew
    <2> QED
      BY <1>1, <1>5, <2>1 DEF OnlyNew
  <1>7. NoStaleReport' /\ CleanScanStarts' /\ SavedFilter'
    BY DEF OfClean, NoStaleReport, CleanScanStarts, SavedFilter
  <1> QED
    BY <1>3, <1>4, <1>6, <1>7 DEF OfClean

LEMMA CleanReset ==
    ASSUME TypeInv, OfClean, Reset, clean'
    PROVE  OfClean'
  <1>1. /\ pc = "reset" /\ pc' = "idle" /\ ~waiting /\ ~waiting' /\ clean
        /\ filter' = hci_of /\ UNCHANGED <<scans, heard, cmdq, scanning>>
    BY AskFacts DEF Reset, ctrlVars, TypeInv
  <1>2. Emptied' /\ Off'
    BY <1>1 DEF OfClean, Emptied, Off, Done
  <1>3. Granted' /\ OnlyNew'
    BY <1>1 DEF Granted, OnlyNew, Later
  <1>4. NoStaleReport' /\ CleanScanStarts' /\ SavedFilter'
    BY <1>1 DEF OfClean, NoStaleReport, CleanScanStarts, SavedFilter
  <1> QED
    BY <1>2, <1>3, <1>4 DEF OfClean

\* The controller executes a command that it does not refuse without reason.
LEMMA CleanExecute ==
    ASSUME TypeInv, Numbered, OfClean, Execute, clean'
    PROVE  OfClean'
  <1> DEFINE c == Head(cmdq)
  <1>0. TypeOK /\ asked \in Nat /\ (waiting => pc \in Asking)
    BY DEF TypeInv, TypeOK
  <1>1. /\ cmdq # <<>> /\ cmdq' = Tail(cmdq)
        /\ UNCHANGED <<pc, waiting, scans, asked, heard, filter>>
    BY DEF Execute
  <1>2. PICK s \in {0, 1} :
          /\ Deliver(Answer(c, s)) /\ clean' = clean
          /\ \/ /\ c.req = SetParams /\ scanning' = scanning
                /\ s = IF scanning THEN 1 ELSE 0
             \/ /\ c.req = SetEnable /\ scanning' = (c.arg = "on")
                /\ s = 0
    BY DEF Execute
  <1>3. clean
    BY <1>2
  <1>4. /\ c \in Command /\ Len(cmdq') = Len(cmdq) - 1 /\ Len(cmdq) \in Nat
        /\ c.id = asked <=> cmdq' = <<>>
        /\ waiting /\ c.id = asked => c = Request(pc, asked)
    BY <1>0, <1>1, TakeFirst
  <1>5. Answer(c, s) \in Event
    BY <1>4 DEF Event
  <1>6. /\ Queued' \subseteq Queued \cup {Answer(c, s)}
        /\ \A k \in DOMAIN rxq' :
              (k \in DOMAIN rxq /\ rxq'[k] = rxq[k]) \/ rxq'[k] = Answer(c, s)
        /\ \A j, k \in DOMAIN rxq' :
              j < k => j \in DOMAIN rxq /\ rxq'[j] = rxq[j]
    <2>1. Deliver(Answer(c, s))
      BY <1>2
    <2> QED
      BY <1>0, <1>5, <2>1, QueueDeliver
  <1>7. /\ ~IsReport(Answer(c, s)) /\ Answer(c, s).id = c.id
        /\ Answer(c, s).status = s
    BY EventFacts
  <1>8. waiting /\ c.id = asked => c.req = Ask[pc].req /\ c.arg = Ask[pc].arg
    BY <1>4 DEF Request
  <1>9. \A x : OwnAnswer(x)' <=> OwnAnswer(x)
    BY <1>1 DEF OwnAnswer
  <1>10. ASSUME pc \in Later \cup {"reset", "idle"}
         PROVE  waiting /\ Len(cmdq) = 1 /\ Len(cmdq') = 0 /\ c.id = asked
    <2>1. Len(cmdq) <= IF waiting THEN 1 ELSE 0
      BY <1>3, <1>10 DEF OfClean, Emptied
    <2>2. cmdq \in Seq(Command) /\ cmdq' \in Seq(Command)
      BY <1>0, <1>1, TailElements DEF TypeOK
    <2>3. Len(cmdq) >= 1
      BY <1>1, <2>2
    <2>4. waiting /\ Len(cmdq) = 1
      BY <1>4, <2>1, <2>3
    <2>5. Len(cmdq') = 0
      BY <1>4, <2>4
    <2>6. cmdq' = <<>>
      BY <2>2, <2>5
    <2> QED
      BY <1>4, <2>4, <2>5, <2>6
  <1>11. Emptied'
    <2>1. pc \in Later \cup {"reset", "idle"} => Len(cmdq') = 0
      BY <1>10
    <2> QED
      BY <1>1, <2>1 DEF Emptied
  <1>12. ASSUME pc = "again"
         PROVE  c.req = SetParams /\ ~scanning
    <2>1. waiting /\ c.id = asked
      BY <1>10, <1>12 DEF Later
    <2> QED
      BY <1>3, <1>8, <1>12, <2>1, AskFacts DEF OfClean, Off
  <1>13. Granted'
    <2> SUFFICES ASSUME waiting, pc # "params", NEW x \in Queued', OwnAnswer(x)
                 PROVE  x.status = 0
      BY <1>1, <1>9 DEF Granted
    <2>1. CASE x \in Queued
      BY <1>3, <2>1 DEF OfClean, Granted
    <2>2. CASE x = Answer(c, s)
      <3>1. c.id = asked
        BY <1>7, <2>2 DEF OwnAnswer
      <3>2. c.req = Ask[pc].req
        BY <1>8, <3>1
      <3>3. CASE pc = "again"
        <4>1. c.req = SetParams /\ ~scanning
          BY <1>12, <3>3
        <4> QED
          BY <1>2, <1>7, <2>2, <4>1, RequestFacts
      <3>4. CASE pc # "again"
        <4>1. c.req = SetEnable
          BY <1>0, <3>2, <3>4, AskFacts
        <4> QED
          BY <1>2, <1>7, <2>2, <4>1, RequestFacts
      <3> QED
        BY <3>3, <3>4
    <2> QED
      BY <1>6, <2>1, <2>2
  <1>14. Off'
    <2>1. ASSUME pc \in {"again", "reset", "idle"}
          PROVE  ~scanning'
      <3>1. waiting
        BY <1>10, <2>1 DEF Later
      <3>2. pc = "again"
        BY <1>0, <2>1, <3>1, AskFacts
      <3> QED
        BY <1>2, <1>12, <3>2, RequestFacts
    <2>2. ASSUME pc \in {"disable", "stop"}
          PROVE  ~scanning'
      <3>1. waiting /\ c.id = asked
        BY <1>10, <2>2 DEF Later
      <3>2. c.req = SetEnable /\ c.arg = "off"
        BY <1>8, <2>2, <3>1, AskFacts
      <3> QED
        BY <1>2, <3>2, RequestFacts
    <2> QED
      BY <1>1, <2>1, <2>2 DEF Off
  <1>15. OnlyNew'
    <2>1. pc \in Later => \A x \in Queued' : IsReport(x) => x.id = scans
      BY <1>3, <1>6, <1>7 DEF OfClean, OnlyNew
    <2>2. ASSUME pc = "params", waiting,
                 NEW j \in DOMAIN rxq', NEW k \in DOMAIN rxq', j < k,
                 OwnAnswer(rxq'[j]), IsReport(rxq'[k])
          PROVE  rxq'[k].id = scans
      <3>1. j \in DOMAIN rxq /\ rxq'[j] = rxq[j]
        BY <1>6, <2>2
      <3>2. k \in DOMAIN rxq /\ rxq'[k] = rxq[k]
        BY <1>6, <1>7, <2>2
      <3> QED
        BY <1>3, <2>2, <3>1, <3>2 DEF OfClean, OnlyNew
    <2> QED
      BY <1>1, <2>1, <2>2 DEF OnlyNew, OwnAnswer
  <1>16. NoStaleReport' /\ CleanScanStarts' /\ SavedFilter'
    BY <1>1, <1>3 DEF OfClean, NoStaleReport, CleanScanStarts, SavedFilter
  <1> QED
    BY <1>11, <1>13, <1>14, <1>15, <1>16 DEF OfClean

\* A device advertises: the report is of the scan under way.
LEMMA CleanAdvertise ==
    ASSUME TypeInv, OfClean, clean', NEW dev \in Devices, NEW rssi \in Rssi,
           NEW named \in BOOLEAN, Advertise(dev, rssi, named)
    PROVE  OfClean'
  <1> DEFINE n == IF pc = "idle" THEN 0 ELSE scans
             r == Report(dev, rssi, named, n)
  <1>0. TypeOK
    BY DEF TypeInv
  <1>1. /\ Deliver(r) /\ clean
        /\ UNCHANGED <<pc, waiting, clean, scans, asked, heard, filter, cmdq,
                       scanning>>
    BY DEF Advertise, procVars
  <1>2. n \in 0 .. MaxScans
    BY <1>0, ScanAssumption DEF TypeOK
  <1>3. r \in Event
    BY <1>2 DEF Event
  <1>4. IsReport(r) /\ r.id = n
    BY EventFacts
  <1> HIDE DEF r
  <1>5. /\ Queued' \subseteq Queued \cup {r}
        /\ \A k \in DOMAIN rxq' :
              (k \in DOMAIN rxq /\ rxq'[k] = rxq[k]) \/ rxq'[k] = r
        /\ \A j, k \in DOMAIN rxq' :
              j < k => j \in DOMAIN rxq /\ rxq'[j] = rxq[j]
    BY <1>0, <1>1, <1>3, QueueDeliver
  <1>6. \A x : OwnAnswer(x)' <=> OwnAnswer(x)
    BY <1>1 DEF OwnAnswer
  <1>7. Done' = Done
    BY <1>1 DEF Done
  <1>8. Emptied' /\ Off'
    BY <1>1, <1>7 DEF OfClean, Emptied, Off
  <1>9. Granted'
    <2>1. ~OwnAnswer(r)
      BY <1>4 DEF OwnAnswer
    <2> QED
      BY <1>1, <1>5, <1>6, <2>1 DEF OfClean, Granted
  <1>10. OnlyNew'
    <2>1. pc \in Later => \A x \in Queued' : IsReport(x) => x.id = scans
      BY <1>1, <1>4, <1>5 DEF OfClean, OnlyNew, Later
    <2>2. ASSUME pc = "params", waiting,
                 NEW j \in DOMAIN rxq', NEW k \in DOMAIN rxq', j < k,
                 OwnAnswer(rxq'[j]), IsReport(rxq'[k])
          PROVE  rxq'[k].id = scans
      <3>1. j \in DOMAIN rxq /\ rxq'[j] = rxq[j]
        BY <1>5, <2>2
      <3>2. CASE rxq'[k] = r
        BY <1>4, <2>2, <3>2
      <3>3. CASE k \in DOMAIN rxq /\ rxq'[k] = rxq[k]
        BY <1>1, <2>2, <3>1, <3>3 DEF OfClean, OnlyNew
      <3> QED
        BY <1>5, <3>2, <3>3
    <2> QED
      BY <1>1, <2>1, <2>2 DEF OnlyNew, OwnAnswer
  <1>11. NoStaleReport' /\ CleanScanStarts' /\ SavedFilter'
    BY <1>1 DEF OfClean, NoStaleReport, CleanScanStarts, SavedFilter
  <1> QED
    BY <1>8, <1>9, <1>10, <1>11 DEF OfClean

LEMMA CleanStep == TypeInv /\ CleanInv /\ [Next]_vars => CleanInv'
  <1> SUFFICES ASSUME TypeInv, Numbered, OfClean, [Next]_vars
               PROVE  CleanInv'
    BY DEF CleanInv
  <1>0. Numbered'
    BY NumberedStep
  <1> SUFFICES ASSUME clean' PROVE OfClean'
    BY <1>0, NotClean DEF CleanInv
  <1> USE DEF ctrlVars
  <1>1. CASE Begin
    BY <1>1, CleanBegin
  <1>2. CASE Write
    BY <1>2, CleanWrite
  <1>3. CASE WriteFails
    BY <1>3 DEF WriteFails
  <1>4. CASE Wait
    <2>1. /\ pc \in Asking /\ waiting /\ rxq # <<>>
          /\ UNCHANGED <<scans, asked, heard, cmdq, scanning>>
      BY <1>4 DEF Wait
    <2>2. CASE /\ IsAnswer(Head(rxq))
               /\ Returns(IF Head(rxq).status = 0 THEN "ok" ELSE "EIO")
               /\ clean' = (clean /\ Head(rxq).id = asked)
               /\ rxq' = Tail(rxq)
      BY <2>1, <2>2, CleanAnswer
    <2>3. CASE /\ rxq' = Tail(rxq) \o Skipped(Head(rxq))
               /\ UNCHANGED <<waiting, filter, pc, clean>>
      <3>1. rxq \in Seq(Event) /\ Head(rxq) \in Event
        BY <2>1, TailElements DEF TypeInv, TypeOK
      <3>2. rxq' = Tail(rxq)
        BY <2>1, <2>3, <3>1, SkippedNothing
      <3> QED
        BY <2>1, <2>3, <3>2, CleanTake
    <2> QED
      BY <1>4, <2>2, <2>3 DEF Wait
  <1>5. CASE GiveUp
    BY <1>5 DEF GiveUp
  <1>6. CASE Fail
    <2>1. clean /\ pc = "fail"
      BY <1>6 DEF Fail
    <2> QED
      BY <2>1 DEF OfClean, CleanScanStarts
  <1>7. CASE Loop
    <2>1. /\ pc = "loop" /\ pc' \in {"stop", "select"} /\ clean
          /\ UNCHANGED <<waiting, clean, scans, asked, heard, filter, rxq,
                         cmdq, scanning>>
      BY <1>7 DEF Loop
    <2> QED
      BY <2>1, CleanLoop
  <1>8. CASE Quiet
    <2>1. /\ pc = "select" /\ pc' = "loop" /\ clean
          /\ UNCHANGED <<waiting, clean, scans, asked, heard, filter, rxq,
                         cmdq, scanning>>
      BY <1>8 DEF Quiet
    <2> QED
      BY <2>1, CleanLoop
  <1>9. CASE LoopFails
    <2>1. /\ pc = "select" /\ pc' = "stop" /\ clean
          /\ UNCHANGED <<waiting, clean, scans, asked, heard, filter, rxq,
                         cmdq, scanning>>
      BY <1>9 DEF LoopFails
    <2> QED
      BY <2>1, CleanLoop
  <1>10. CASE Read
    <2>1. /\ pc = "select" /\ pc' = "loop" /\ rxq # <<>> /\ rxq' = Tail(rxq)
          /\ UNCHANGED <<waiting, scans, asked, clean, cmdq, scanning, filter>>
          /\ \/ UNCHANGED heard
             \/ IsReport(Head(rxq)) /\ heard' = Append(heard, Head(rxq))
      BY <1>10 DEF Read
    <2>2. ~waiting' /\ clean
      BY <2>1, AskFacts DEF TypeInv
    <2> QED
      BY <2>1, <2>2, CleanTake
  <1>11. CASE Reset
    BY <1>11, CleanReset
  <1>12. CASE Tick
    <2>1. UNCHANGED <<pc, waiting, clean, scans, asked, heard, filter, rxq,
                      cmdq, scanning>>
      BY <1>12 DEF Tick
    <2> QED
      BY <2>1, NothingChanged
  <1>13. CASE Execute
    BY <1>13, CleanExecute
  <1>14. ASSUME NEW dev \in Devices, NEW rssi \in Rssi, NEW named \in BOOLEAN,
                Advertise(dev, rssi, named)
         PROVE  OfClean'
    BY <1>14, CleanAdvertise
  <1>15. CASE UNCHANGED vars
    <2>1. UNCHANGED <<pc, waiting, clean, scans, asked, heard, filter, rxq,
                      cmdq, scanning>>
      BY <1>15 DEF vars, procVars
    <2> QED
      BY <2>1, NothingChanged
  <1> QED
    BY <1>1, <1>2, <1>3, <1>4, <1>5, <1>6, <1>7, <1>8, <1>9, <1>10, <1>11,
       <1>12, <1>13, <1>14, <1>15 DEF Next, Step

-----------------------------------------------------------------------------
(* The list                                                                *)

LEMMA FirstIs ==
    ASSUME NEW h \in Seq(Event), NEW dev, NEW k \in DOMAIN h,
           IsFirst(h, dev, k)
    PROVE  FirstIn(h, dev) = k
  <1> DEFINE c == FirstIn(h, dev)
  <1>1. c \in DOMAIN h /\ IsFirst(h, dev, c)
    BY DEF FirstIn
  <1> HIDE DEF c
  <1>2. c \in Nat /\ k \in Nat /\ c >= 1 /\ k >= 1
    BY <1>1
  <1>3. ~(c < k) /\ ~(k < c)
    BY <1>1, <1>2 DEF IsFirst
  <1>4. c = k
    BY <1>2, <1>3
  <1> QED
    BY <1>4 DEF c

LEMMA LastIs ==
    ASSUME NEW h \in Seq(Event), NEW dev, NEW k \in DOMAIN h,
           IsLast(h, dev, k)
    PROVE  LastIn(h, dev) = k
  <1> DEFINE c == LastIn(h, dev)
  <1>1. c \in DOMAIN h /\ IsLast(h, dev, c)
    BY DEF LastIn
  <1> HIDE DEF c
  <1>2. c \in Nat /\ k \in Nat /\ c <= Len(h) /\ k <= Len(h) /\ Len(h) \in Nat
    BY <1>1
  <1>3. ~(c < k) /\ ~(k < c)
    BY <1>1, <1>2 DEF IsLast
  <1>4. c = k
    BY <1>2, <1>3
  <1> QED
    BY <1>4 DEF c

\* What one more report changes of the first and the last ones.
LEMMA OneMoreReport ==
    ASSUME NEW h \in Seq(Event), NEW e \in Event, Orderly(h)
    PROVE  LET g == Append(h, e) IN
           /\ Orderly(g)
           /\ Devs(g) = Devs(h) \cup {e.arg}
           /\ \A d \in Devs(h) : FirstIn(h, d) \in 1 .. Len(h)
           /\ \A d \in Devs(h) : FirstIn(g, d) = FirstIn(h, d)
           /\ e.arg \notin Devs(h) => FirstIn(g, e.arg) = Len(h) + 1
           /\ g[LastIn(g, e.arg)] = e
           /\ \A d \in Devs(h) \ {e.arg} : g[LastIn(g, d)] = h[LastIn(h, d)]
  <1> DEFINE g == Append(h, e)
  <1>1. /\ Len(h) \in Nat /\ DOMAIN h = 1 .. Len(h) /\ Len(g) = Len(h) + 1
        /\ DOMAIN g = 1 .. (Len(h) + 1) /\ g \in Seq(Event)
        /\ \A k \in 1 .. Len(h) : g[k] = h[k]
        /\ g[Len(h) + 1] = e
    OBVIOUS
  <1> HIDE DEF g
  <1>2. Devs(g) = Devs(h) \cup {e.arg}
    <2>1. \A k \in DOMAIN g : g[k].arg \in Devs(h) \cup {e.arg}
      BY <1>1 DEF Devs
    <2>2. \A k \in DOMAIN h : k \in DOMAIN g /\ h[k].arg = g[k].arg
      BY <1>1
    <2>3. Len(h) + 1 \in DOMAIN g
      BY <1>1
    <2>4. e.arg \in Devs(g)
      BY <1>1, <2>3 DEF Devs
    <2> QED
      BY <2>1, <2>2, <2>4 DEF Devs
  <1>3. ASSUME NEW d, NEW k \in DOMAIN h, IsFirst(h, d, k)
        PROVE  k \in DOMAIN g /\ IsFirst(g, d, k)
    <2>1. k \in DOMAIN g /\ g[k] = h[k]
      BY <1>1
    <2>2. \A j \in 1 .. k - 1 : g[j] = h[j]
      BY <1>1
    <2> QED
      BY <1>3, <2>1, <2>2 DEF IsFirst
  <1>4. ASSUME NEW d, d # e.arg, NEW k \in DOMAIN h, IsLast(h, d, k)
        PROVE  k \in DOMAIN g /\ IsLast(g, d, k)
    <2>1. k \in DOMAIN g /\ g[k] = h[k]
      BY <1>1
    <2>2. \A j \in k + 1 .. Len(g) : g[j].arg # d
      <3> SUFFICES ASSUME NEW j \in k + 1 .. Len(g) PROVE g[j].arg # d
        OBVIOUS
      <3>1. CASE j = Len(h) + 1
        BY <1>1, <1>4, <3>1
      <3>2. CASE j # Len(h) + 1
        <4>1. j \in k + 1 .. Len(h) /\ j \in 1 .. Len(h)
          BY <1>1, <3>2
        <4> QED
          BY <1>1, <1>4, <4>1 DEF IsLast
      <3> QED
        BY <3>1, <3>2
    <2> QED
      BY <1>4, <2>1, <2>2 DEF IsLast
  <1>5. Len(h) + 1 \in DOMAIN g
    BY <1>1
  <1>6. IsLast(g, e.arg, Len(h) + 1)
    BY <1>1 DEF IsLast
  <1>7. e.arg \notin Devs(h) => IsFirst(g, e.arg, Len(h) + 1)
    <2>1. e.arg \notin Devs(h) =>
             \A j \in 1 .. Len(h) : g[j].arg # e.arg
      BY <1>1 DEF Devs
    <2>2. (Len(h) + 1) - 1 = Len(h)
      BY <1>1
    <2> QED
      BY <1>1, <2>1, <2>2 DEF IsFirst
  <1>8. Orderly(g)
    <2> SUFFICES ASSUME NEW d \in Devs(g)
                 PROVE  /\ \E k \in DOMAIN g : IsFirst(g, d, k)
                        /\ \E k \in DOMAIN g : IsLast(g, d, k)
      BY DEF Orderly
    <2>1. d \in Devs(h) \/ d = e.arg
      BY <1>2
    <2>2. \E k \in DOMAIN g : IsFirst(g, d, k)
      <3>1. CASE d \in Devs(h)
        BY <1>3, <3>1 DEF Orderly
      <3>2. CASE d \notin Devs(h)
        BY <1>5, <1>7, <2>1, <3>2
      <3> QED
        BY <3>1, <3>2
    <2>3. \E k \in DOMAIN g : IsLast(g, d, k)
      <3>1. CASE d = e.arg
        BY <1>5, <1>6, <3>1
      <3>2. CASE d # e.arg
        BY <1>4, <2>1, <3>2 DEF Orderly
      <3> QED
        BY <3>1, <3>2
    <2> QED
      BY <2>2, <2>3
  <1>9. ASSUME NEW d \in Devs(h)
        PROVE  FirstIn(h, d) \in 1 .. Len(h) /\ FirstIn(g, d) = FirstIn(h, d)
    <2>1. PICK k \in DOMAIN h : IsFirst(h, d, k)
      BY DEF Orderly
    <2>2. FirstIn(h, d) = k
      BY <2>1, FirstIs
    <2>3. k \in DOMAIN g /\ IsFirst(g, d, k)
      BY <1>3, <2>1
    <2>4. FirstIn(g, d) = k
      BY <1>1, <2>3, FirstIs
    <2> QED
      BY <1>1, <2>2, <2>4
  <1>10. e.arg \notin Devs(h) => FirstIn(g, e.arg) = Len(h) + 1
    BY <1>1, <1>5, <1>7, FirstIs
  <1>11. g[LastIn(g, e.arg)] = e
    <2>1. LastIn(g, e.arg) = Len(h) + 1
      BY <1>1, <1>5, <1>6, LastIs
    <2> QED
      BY <1>1, <2>1
  <1>12. ASSUME NEW d \in Devs(h) \ {e.arg}
         PROVE  g[LastIn(g, d)] = h[LastIn(h, d)]
    <2>1. PICK k \in DOMAIN h : IsLast(h, d, k)
      BY DEF Orderly
    <2>2. LastIn(h, d) = k
      BY <2>1, LastIs
    <2>3. k \in DOMAIN g /\ IsLast(g, d, k)
      BY <1>4, <2>1
    <2>4. LastIn(g, d) = k
      BY <1>1, <2>3, LastIs
    <2> QED
      BY <1>1, <2>2, <2>4
  <1> QED
    BY <1>2, <1>8, <1>9, <1>10, <1>11, <1>12 DEF g

\* The list in terms of what was heard.
Listed(list, c, h) ==
    /\ \A i \in 0 .. c - 1 :
         /\ list[i].dev \in Devs(h)
         /\ list[i].rssi = h[LastIn(h, list[i].dev)].status
         /\ \A j \in 0 .. i - 1 :
              FirstIn(h, list[j].dev) < FirstIn(h, list[i].dev)
    /\ \A dev \in Devs(h) :
         \/ \E i \in 0 .. c - 1 : list[i].dev = dev
         \/ /\ c = ble_list_len
            /\ \A i \in 0 .. c - 1 :
                 FirstIn(h, list[i].dev) < FirstIn(h, dev)

LEMMA ListedIs ==
    ListIsWhatWasHeard <=> (counter >= 0 => Listed(ble_list, counter, heard))
  BY DEF ListIsWhatWasHeard, Listed, FirstHeard, LastHeard, FirstIn, LastIn,
     IsFirst, IsLast, HeardDevices, Devs

LEMMA ListedIsPrime ==
    ListIsWhatWasHeard'
      <=> (counter' >= 0 => Listed(ble_list', counter', heard'))
  BY DEF ListIsWhatWasHeard, Listed, FirstHeard, LastHeard, FirstIn, LastIn,
     IsFirst, IsLast, HeardDevices, Devs

\* A report of a device that is in the list: its entry is brought up to date.
LEMMA KnownDevice ==
    ASSUME NEW h \in Seq(Event), NEW e \in Event, Orderly(h),
           NEW list \in [0 .. ble_list_len - 1 -> Entry \cup {NoEntry}],
           NEW c \in 0 .. ble_list_len, Listed(list, c, h),
           NEW i \in 0 .. c - 1, list[i].dev = e.arg
    PROVE  Listed([list EXCEPT ![i] = [dev |-> e.arg, rssi |-> e.status]], c,
                  Append(h, e))
  <1> DEFINE g == Append(h, e)
             l == [list EXCEPT ![i] = [dev |-> e.arg, rssi |-> e.status]]
  <1>0. ble_list_len \in Nat /\ c \in Nat /\ c <= ble_list_len /\ i \in Nat
    BY ScanAssumption
  <1>1. /\ Devs(g) = Devs(h) \cup {e.arg}
        /\ \A d \in Devs(h) : FirstIn(h, d) \in 1 .. Len(h)
        /\ \A d \in Devs(h) : FirstIn(g, d) = FirstIn(h, d)
        /\ g[LastIn(g, e.arg)] = e
        /\ \A d \in Devs(h) \ {e.arg} : g[LastIn(g, d)] = h[LastIn(h, d)]
    BY OneMoreReport
  <1>2. /\ l[i] = [dev |-> e.arg, rssi |-> e.status]
        /\ \A k \in 0 .. c - 1 : k # i => l[k] = list[k]
    BY <1>0
  <1> HIDE DEF g, l
  <1>3. \A k \in 0 .. c - 1 : l[k].dev = list[k].dev
    BY <1>2
  <1>4. \A k \in 0 .. c - 1 : list[k].dev \in Devs(h)
    BY DEF Listed
  <1>5. Devs(g) = Devs(h)
    BY <1>1, <1>4
  <1>6. ASSUME NEW k \in 0 .. c - 1
        PROVE  l[k].rssi = g[LastIn(g, l[k].dev)].status
    <2>1. CASE k = i
      BY <1>1, <1>2, <2>1
    <2>2. CASE k # i
      <3>1. list[k].dev # e.arg
        <4>1. k < i \/ i < k
          BY <1>0, <2>2
        <4>2. FirstIn(h, list[k].dev) < FirstIn(h, list[i].dev)
              \/ FirstIn(h, list[i].dev) < FirstIn(h, list[k].dev)
          BY <1>0, <4>1 DEF Listed
        <4>3. FirstIn(h, list[i].dev) \in Int
          BY <1>1, <1>4
        <4> QED
          BY <4>2, <4>3
      <3>2. list[k].rssi = h[LastIn(h, list[k].dev)].status
        BY DEF Listed
      <3>3. g[LastIn(g, list[k].dev)] = h[LastIn(h, list[k].dev)]
        BY <1>1, <1>4, <3>1
      <3> QED
        BY <1>2, <2>2, <3>2, <3>3
    <2> QED
      BY <2>1, <2>2
  <1>7. \A k \in 0 .. c - 1 : \A j \in 0 .. k - 1 :
           FirstIn(g, l[j].dev) < FirstIn(g, l[k].dev)
    <2>1. \A k \in 0 .. c - 1 : \A j \in 0 .. k - 1 : j \in 0 .. c - 1
      BY <1>0
    <2>2. \A k \in 0 .. c - 1 : FirstIn(g, l[k].dev) = FirstIn(h, list[k].dev)
      BY <1>1, <1>3, <1>4
    <2> QED
      BY <2>1, <2>2 DEF Listed
  <1>8. \A d \in Devs(g) :
          \/ \E k \in 0 .. c - 1 : l[k].dev = d
          \/ /\ c = ble_list_len
             /\ \A k \in 0 .. c - 1 : FirstIn(g, l[k].dev) < FirstIn(g, d)
    BY <1>1, <1>3, <1>4, <1>5 DEF Listed
  <1>9. Listed(l, c, g)
    BY <1>3, <1>4, <1>5, <1>6, <1>7, <1>8 DEF Listed
  <1> QED
    BY <1>9 DEF l, g

\* A report of another device while there is room: it was not heard before.
LEMMA NewDevice ==
    ASSUME NEW h \in Seq(Event), NEW e \in Event, Orderly(h),
           NEW list \in [0 .. ble_list_len - 1 -> Entry \cup {NoEntry}],
           NEW c \in 0 .. ble_list_len, Listed(list, c, h),
           \A i \in 0 .. c - 1 : list[i].dev # e.arg, c < ble_list_len
    PROVE  Listed([list EXCEPT ![c] = [dev |-> e.arg, rssi |-> e.status]],
                  c + 1, Append(h, e))
  <1> DEFINE g == Append(h, e)
             l == [list EXCEPT ![c] = [dev |-> e.arg, rssi |-> e.status]]
  <1>0. ble_list_len \in Nat /\ c \in Nat /\ Len(h) \in Nat
    BY ScanAssumption
  <1>1. e.arg \notin Devs(h)
    BY <1>0 DEF Listed
  <1>2. /\ Devs(g) = Devs(h) \cup {e.arg}
        /\ \A d \in Devs(h) : FirstIn(h, d) \in 1 .. Len(h)
        /\ \A d \in Devs(h) : FirstIn(g, d) = FirstIn(h, d)
        /\ FirstIn(g, e.arg) = Len(h) + 1
        /\ g[LastIn(g, e.arg)] = e
        /\ \A d \in Devs(h) \ {e.arg} : g[LastIn(g, d)] = h[LastIn(h, d)]
    BY <1>1, OneMoreReport
  <1>3. /\ l[c] = [dev |-> e.arg, rssi |-> e.status]
        /\ \A k \in 0 .. c - 1 : l[k] = list[k]
    BY <1>0
  <1> HIDE DEF g, l
  <1>4. \A k \in 0 .. c - 1 : list[k].dev \in Devs(h)
    BY DEF Listed
  <1>5. \A k \in 0 .. c : k \in 0 .. c - 1 \/ k = c
    BY <1>0
  <1>6. \A k \in 0 .. c : /\ l[k].dev \in Devs(g)
                          /\ l[k].rssi = g[LastIn(g, l[k].dev)].status
    <2>1. \A k \in 0 .. c - 1 : /\ l[k].dev \in Devs(g)
                                /\ l[k].rssi = g[LastIn(g, l[k].dev)].status
      <3> SUFFICES ASSUME NEW k \in 0 .. c - 1
                   PROVE  /\ l[k].dev \in Devs(g)
                          /\ l[k].rssi = g[LastIn(g, l[k].dev)].status
        OBVIOUS
      <3>1. list[k].rssi = h[LastIn(h, list[k].dev)].status
        BY DEF Listed
      <3>2. list[k].dev \in Devs(h) \ {e.arg}
        BY <1>1, <1>4
      <3> QED
        BY <1>2, <1>3, <3>1, <3>2
    <2>2. l[c].dev \in Devs(g) /\ l[c].rssi = g[LastIn(g, l[c].dev)].status
      BY <1>2, <1>3
    <2> QED
      BY <1>5, <2>1, <2>2
  <1>7. \A k \in 0 .. c : \A j \in 0 .. k - 1 :
           FirstIn(g, l[j].dev) < FirstIn(g, l[k].dev)
    <2> SUFFICES ASSUME NEW k \in 0 .. c, NEW j \in 0 .. k - 1
                 PROVE  FirstIn(g, l[j].dev) < FirstIn(g, l[k].dev)
      OBVIOUS
    <2>1. j \in 0 .. c - 1
      BY <1>0
    <2>2. /\ FirstIn(g, l[j].dev) = FirstIn(h, list[j].dev)
          /\ FirstIn(h, list[j].dev) \in 1 .. Len(h)
      BY <1>2, <1>3, <1>4, <2>1
    <2>3. CASE k = c
      BY <1>0, <1>2, <1>3, <2>2, <2>3
    <2>4. CASE k \in 0 .. c - 1
      <3>1. FirstIn(g, l[k].dev) = FirstIn(h, list[k].dev)
        BY <1>2, <1>3, <1>4, <2>4
      <3>2. FirstIn(h, list[j].dev) < FirstIn(h, list[k].dev)
        BY <2>4 DEF Listed
      <3> QED
        BY <2>2, <3>1, <3>2
    <2> QED
      BY <1>5, <2>3, <2>4
  <1>8. \A d \in Devs(g) : \E k \in 0 .. c : l[k].dev = d
    <2> SUFFICES ASSUME NEW d \in Devs(g)
                 PROVE  \E k \in 0 .. c : l[k].dev = d
      OBVIOUS
    <2>1. CASE d = e.arg
      <3>1. c \in 0 .. c /\ l[c].dev = d
        BY <1>0, <1>3, <2>1
      <3> QED
        BY <3>1
    <2>2. CASE d \in Devs(h)
      <3>1. PICK k \in 0 .. c - 1 : list[k].dev = d
        BY <1>0, <2>2 DEF Listed
      <3>2. k \in 0 .. c /\ l[k].dev = d
        BY <1>0, <1>3, <3>1
      <3> QED
        BY <3>2
    <2> QED
      BY <1>2, <2>1, <2>2
  <1>9. Listed(l, c + 1, g)
    <2>1. (c + 1) - 1 = c
      BY <1>0
    <2> QED
      BY <1>6, <1>7, <1>8, <2>1 DEF Listed
  <1> QED
    BY <1>9 DEF l, g

\* A report of another device when the list is full: it is lost.
LEMMA LostDevice ==
    ASSUME NEW h \in Seq(Event), NEW e \in Event, Orderly(h),
           NEW list, NEW c \in Int, Listed(list, c, h),
           \A i \in 0 .. c - 1 : list[i].dev # e.arg, c = ble_list_len
    PROVE  Listed(list, c, Append(h, e))
  <1> DEFINE g == Append(h, e)
  <1>0. Len(h) \in Nat
    OBVIOUS
  <1>1. /\ Devs(g) = Devs(h) \cup {e.arg}
        /\ \A d \in Devs(h) : FirstIn(h, d) \in 1 .. Len(h)
        /\ \A d \in Devs(h) : FirstIn(g, d) = FirstIn(h, d)
        /\ e.arg \notin Devs(h) => FirstIn(g, e.arg) = Len(h) + 1
        /\ \A d \in Devs(h) \ {e.arg} : g[LastIn(g, d)] = h[LastIn(h, d)]
    BY OneMoreReport
  <1> HIDE DEF g
  <1>2. \A k \in 0 .. c - 1 : list[k].dev \in Devs(h) \ {e.arg}
    BY DEF Listed
  <1>3. \A k \in 0 .. c - 1 :
          /\ list[k].dev \in Devs(g)
          /\ list[k].rssi = g[LastIn(g, list[k].dev)].status
    BY <1>1, <1>2 DEF Listed
  <1>4. \A k \in 0 .. c - 1 : \A j \in 0 .. k - 1 :
           FirstIn(g, list[j].dev) < FirstIn(g, list[k].dev)
    <2>1. \A k \in 0 .. c - 1 : \A j \in 0 .. k - 1 : j \in 0 .. c - 1
      OBVIOUS
    <2> QED
      BY <1>1, <1>2, <2>1 DEF Listed
  <1>5. ASSUME NEW d \in Devs(g)
        PROVE  \/ \E k \in 0 .. c - 1 : list[k].dev = d
               \/ \A k \in 0 .. c - 1 :
                    FirstIn(g, list[k].dev) < FirstIn(g, d)
    <2>1. CASE d \in Devs(h)
      BY <1>1, <1>2, <2>1 DEF Listed
    <2>2. CASE d \notin Devs(h)
      <3>1. FirstIn(g, d) = Len(h) + 1
        BY <1>1, <2>2
      <3>2. \A k \in 0 .. c - 1 : /\ FirstIn(g, list[k].dev) \in Nat
                                  /\ FirstIn(g, list[k].dev) <= Len(h)
        BY <1>0, <1>1, <1>2
      <3> QED
        BY <1>0, <3>1, <3>2
    <2> QED
      BY <2>1, <2>2
  <1>6. Listed(list, c, g)
    BY <1>3, <1>4, <1>5 DEF Listed
  <1> QED
    BY <1>6 DEF g

\* A step that touches neither the list nor what was heard.
LEMMA ListUnchanged ==
    ASSUME ListInv, UNCHANGED <<ble_list, counter, heard>>
    PROVE  ListInv'
  <1>1. HeardInv'
    BY DEF ListInv, HeardInv
  <1>2. ListIsWhatWasHeard'
    BY ListedIs, ListedIsPrime DEF ListInv
  <1> QED
    BY <1>1, <1>2 DEF ListInv

\* The loop reads an event.
LEMMA ListRead ==
    ASSUME TypeInv, ListInv, Read
    PROVE  ListInv'
  <1> DEFINE e == Head(rxq)
             new == [dev |-> e.arg, rssi |-> e.status]
  <1>1. pc = "select" /\ rxq # <<>>
    BY DEF Read
  <1>2. /\ e \in Event /\ heard \in Seq(Event)
        /\ ble_list \in [0 .. ble_list_len - 1 -> Entry \cup {NoEntry}]
        /\ counter \in 0 .. ble_list_len
    BY <1>1, TailElements, ScanAssumption DEF TypeInv, TypeOK
  <1>3. Orderly(heard) /\ Listed(ble_list, counter, heard)
    <2>1. counter >= 0
      BY <1>2, ScanAssumption
    <2> QED
      BY <2>1, ListedIs DEF ListInv, HeardInv
  <1>4. CASE UNCHANGED <<heard, ble_list, counter>>
    BY <1>4, ListUnchanged
  <1>5. ASSUME heard' = Append(heard, e),
               Listed(ble_list', counter', Append(heard, e))
        PROVE  ListInv'
    <2>1. Orderly(Append(heard, e))
      BY <1>2, <1>3, OneMoreReport
    <2>2. HeardInv'
      BY <1>5, <2>1 DEF HeardInv
    <2>3. ListIsWhatWasHeard'
      BY <1>5, ListedIsPrime
    <2> QED
      BY <2>2, <2>3 DEF ListInv
  <1>6. ASSUME NEW i \in Place(e.arg), heard' = Append(heard, e),
               ble_list' = [ble_list EXCEPT ![i] = new],
               counter' = IF i = counter THEN i + 1 ELSE counter
        PROVE  ListInv'
    <2>1. CASE Finds(e.arg) # {}
      <3>1. i \in 0 .. counter - 1 /\ ble_list[i].dev = e.arg
        BY <1>6, <2>1 DEF Place, Finds
      <3>2. counter' = counter
        BY <1>2, <1>6, <3>1
      <3>3. Listed([ble_list EXCEPT ![i] = new], counter, Append(heard, e))
        BY <1>2, <1>3, <3>1, KnownDevice
      <3> QED
        BY <1>5, <1>6, <3>2, <3>3
    <2>2. CASE Finds(e.arg) = {}
      <3>1. i = counter /\ counter < ble_list_len
        BY <1>6, <2>2 DEF Place
      <3>2. \A k \in 0 .. counter - 1 : ble_list[k].dev # e.arg
        BY <2>2 DEF Finds
      <3>3. counter' = counter + 1
        BY <1>6, <3>1
      <3>4. Listed([ble_list EXCEPT ![counter] = new], counter + 1,
                   Append(heard, e))
        BY <1>2, <1>3, <3>1, <3>2, NewDevice
      <3> QED
        BY <1>5, <1>6, <3>1, <3>3, <3>4
    <2> QED
      BY <2>1, <2>2
  <1>7. CASE /\ heard' = Append(heard, e) /\ Place(e.arg) = {}
             /\ UNCHANGED <<ble_list, counter>>
    <2>1. Finds(e.arg) = {} /\ ~(counter < ble_list_len)
      BY <1>7 DEF Place
    <2>2. counter = ble_list_len /\ counter \in Int
      BY <1>2, <2>1, ScanAssumption
    <2>3. \A k \in 0 .. counter - 1 : ble_list[k].dev # e.arg
      BY <2>1 DEF Finds
    <2>4. Listed(ble_list, counter, Append(heard, e))
      BY <1>2, <1>3, <2>2, <2>3, LostDevice
    <2> QED
      BY <1>5, <1>7, <2>4
  <1> QED
    BY <1>4, <1>6, <1>7 DEF Read

LEMMA ListStep == TypeInv /\ ListInv /\ [Next]_vars => ListInv'
  <1> SUFFICES ASSUME TypeInv, ListInv, [Next]_vars
               PROVE  ListInv'
    OBVIOUS
  <1>1. CASE Begin
    <2>1. heard' = <<>> /\ counter' = 0
      BY <1>1 DEF Begin
    <2>2. HeardInv'
      BY <2>1 DEF HeardInv, Orderly, Devs
    <2>3. Listed(ble_list', counter', heard')
      BY <2>1 DEF Listed, Devs
    <2> QED
      BY <2>2, <2>3, ListedIsPrime DEF ListInv
  <1>2. CASE Read
    BY <1>2, ListRead
  <1>3. CASE LoopFails
    <2>1. counter' \in {-1, counter} /\ UNCHANGED <<ble_list, heard>>
      BY <1>3 DEF LoopFails
    <2>2. CASE counter' = -1
      <3>1. HeardInv'
        BY <2>1 DEF ListInv, HeardInv
      <3>2. ListIsWhatWasHeard'
        BY <2>2 DEF ListIsWhatWasHeard
      <3> QED
        BY <3>1, <3>2 DEF ListInv
    <2>3. CASE counter' = counter
      BY <2>1, <2>3, ListUnchanged
    <2> QED
      BY <2>1, <2>2, <2>3
  <1>4. CASE Write \/ WriteFails \/ Wait \/ GiveUp
    <2>1. UNCHANGED <<ble_list, counter, heard>>
      BY <1>4 DEF Write, WriteFails, Wait, GiveUp
    <2> QED
      BY <2>1, ListUnchanged
  <1>5. CASE Fail \/ Loop \/ Quiet \/ Reset \/ Tick
    <2>1. UNCHANGED <<ble_list, counter, heard>>
      BY <1>5 DEF Fail, Loop, Quiet, Reset, Tick
    <2> QED
      BY <2>1, ListUnchanged
  <1>6. CASE Execute
    <2>1. UNCHANGED <<ble_list, counter, heard>>
      BY <1>6 DEF Execute
    <2> QED
      BY <2>1, ListUnchanged
  <1>7. ASSUME NEW dev \in Devices, NEW rssi \in Rssi, NEW named \in BOOLEAN,
               Advertise(dev, rssi, named)
        PROVE  ListInv'
    <2>1. UNCHANGED <<ble_list, counter, heard>>
      BY <1>7 DEF Advertise, procVars
    <2> QED
      BY <2>1, ListUnchanged
  <1>8. CASE UNCHANGED vars
    <2>1. UNCHANGED <<ble_list, counter, heard>>
      BY <1>8 DEF vars, procVars
    <2> QED
      BY <2>1, ListUnchanged
  <1> QED
    BY <1>1, <1>2, <1>3, <1>4, <1>5, <1>6, <1>7, <1>8 DEF Next, Step

-----------------------------------------------------------------------------
(* The theorems                                                            *)

LEMMA CleanInit == Init => CleanInv
  <1> SUFFICES ASSUME Init PROVE CleanInv
    OBVIOUS
  <1>1. ~clean /\ ~waiting /\ cmdq = <<>> /\ rxq = <<>> /\ asked = 0
    BY DEF Init
  <1>2. OfClean
    BY <1>1 DEF OfClean, Emptied, Granted, Off, OnlyNew, NoStaleReport,
       CleanScanStarts, SavedFilter
  <1>3. Numbered
    <2>1. Queued = {}
      BY <1>1 DEF Queued, Elements
    <2> QED
      BY <1>1, <2>1 DEF Numbered, Executed
  <1> QED
    BY <1>2, <1>3 DEF CleanInv

LEMMA ListInit == Init => ListInv
  <1> SUFFICES ASSUME Init PROVE ListInv
    OBVIOUS
  <1>1. heard = <<>> /\ counter = 0
    BY DEF Init
  <1>2. HeardInv
    BY <1>1 DEF HeardInv, Orderly, Devs
  <1>3. Listed(ble_list, counter, heard)
    BY <1>1 DEF Listed, Devs
  <1> QED
    BY <1>2, <1>3, ListedIs DEF ListInv

LEMMA TypesHold == Spec => []TypeInv
  BY TypeInit, TypeStep, PTL DEF Spec

LEMMA CleanHolds == Spec => []CleanInv
  <1>1. Init => CleanInv
    BY CleanInit
  <1>2. TypeInv /\ CleanInv /\ [Next]_vars => CleanInv'
    BY CleanStep
  <1> QED
    BY <1>1, <1>2, TypesHold, PTL DEF Spec

\* Every variable keeps its type: no entry is stored outside the caller's
\* list, whatever is received (ble_find_index_by_address and the store behind
\* it), and no scan makes more than five requests.
THEOREM ScanTypeCorrect == Spec => []TypeOK
  <1>1. TypeInv => TypeOK
    BY DEF TypeInv
  <1> QED
    BY <1>1, TypesHold, PTL

\* The caller's list is what the scan heard: each device once, in the order in
\* which they were heard, with the last signal strength, as long as there is
\* room.
THEOREM ListOfHeard == Spec => []ListIsWhatWasHeard
  <1>1. Init => ListInv
    BY ListInit
  <1>2. TypeInv /\ ListInv /\ [Next]_vars => ListInv'
    BY ListStep
  <1>3. ListInv => ListIsWhatWasHeard
    BY DEF ListInv
  <1> QED
    BY <1>1, <1>2, <1>3, TypesHold, PTL DEF Spec

\* A scan whose requests were all answered reads no report of an earlier scan,
\* nor one sent in between: its requests have emptied the queue.
THEOREM ReportsAreFresh == Spec => []NoStaleReport
  <1>1. CleanInv => NoStaleReport
    BY DEF CleanInv, OfClean
  <1> QED
    BY <1>1, CleanHolds, PTL

\* Such a scan starts, even if the controller was left scanning.
THEOREM CleanScansStart == Spec => []CleanScanStarts
  <1>1. CleanInv => CleanScanStarts
    BY DEF CleanInv, OfClean
  <1> QED
    BY <1>1, CleanHolds, PTL

\* When it has returned, the controller does not scan, has no command to
\* execute any more, and the filter is the saved one.
THEOREM CleanScansLeaveNoTrace == Spec => []CleanScanLeavesNoTrace
  <1>1. ASSUME TypeInv, CleanInv
        PROVE  CleanScanLeavesNoTrace
    <2> SUFFICES ASSUME clean, pc = "idle"
                 PROVE  ~scanning /\ cmdq = <<>> /\ filter = hci_of
      BY DEF CleanScanLeavesNoTrace
    <2>1. ~scanning /\ filter = hci_of
      BY <1>1 DEF CleanInv, OfClean, Off, SavedFilter
    <2>2. ~waiting
      BY <1>1, AskFacts DEF TypeInv
    <2>3. Len(cmdq) <= 0
      BY <1>1, <2>2 DEF CleanInv, OfClean, Emptied
    <2>4. cmdq \in Seq(Command)
      BY <1>1 DEF TypeInv, TypeOK
    <2>5. cmdq = <<>>
      BY <2>3, <2>4
    <2> QED
      BY <2>1, <2>5
  <1> QED
    BY <1>1, TypesHold, CleanHolds, PTL

-----------------------------------------------------------------------------
(* The requests of a scan are exchanges                                    *)

Unchanging == UNCHANGED <<elapsed, ble_list, counter, ret, scans, asked,
                          heard, ctrlVars>>

\* The request under way drops an event, as Skip of HciExchange does.
Skips ==
    /\ rxq # <<>>
    /\ ~Answers(Request(pc, asked), Head(rxq))
    /\ ~Refuses(Request(pc, asked), Head(rxq))
    /\ rxq' = Tail(rxq)
    /\ UNCHANGED <<pc, waiting, filter, clean>>
    /\ Unchanging

\* It ends with verdict v, as End of HciExchange does: by an answer, for want
\* of one, or on the read that failed.
EndsAs(v) ==
    LET c == Request(pc, asked) IN
    /\ \/ /\ EndsByAnswer(c, rxq, v, rxq')
          /\ clean' = (clean /\ Head(rxq).id = asked)
       \/ EndsByRefusal(c, rxq, v, rxq') /\ clean' = FALSE
       \/ /\ "timeout" \in Faults
          /\ EndsInTime(c, rxq, v, rxq')
          /\ clean' = FALSE
       \/ /\ "garbage" \in Faults
          /\ EndsUnread(c, rxq, v, rxq')
          /\ clean' = FALSE
    /\ Returns(v)
    /\ Unchanging

\* Both requests of a scan look at their status, and neither clears it.
LEMMA ScanRequestsChecked ==
    ASSUME pc \in Asking
    PROVE  Request(pc, asked).req.checked /\ ~Request(pc, asked).req.zeroed
  <1>1. /\ SetParams.checked /\ ~SetParams.zeroed
        /\ SetEnable.checked /\ ~SetEnable.zeroed
    BY DEF SetParams, SetEnable, Plain, Waiting
  <1> QED
    BY <1>1, AskFacts DEF Request

\* No event of the model is a command status.
LEMMA NoneRefuses == \A e \in Event : \A c : ~Refuses(c, e)
  BY DEF Event, Report, Answer, Refuses, EVT_CMD_STATUS, EVT_CMD_COMPLETE,
     EVT_LE_META_EVENT

\* While a request of hci_scan_ble (ble.c:153, ble.c:165) waits, it does what a
\* request of HciExchange may do, and all of it: it drops an event or ends
\* with one of the verdicts, by which the scan goes on.
THEOREM ScanRequestsAreExchanges ==
    ASSUME TypeOK, pc \in Asking, waiting
    PROVE  (Wait \/ GiveUp) <=> (Skips \/ \E v \in Verdicts : EndsAs(v))
  <1> DEFINE c == Request(pc, asked)
             e == Head(rxq)
  <1>1. c.req.checked /\ ~c.req.zeroed
    BY ScanRequestsChecked
  <1>2. rxq # <<>> => /\ e \in Event /\ ~Refuses(c, e)
                      /\ Tail(rxq) \o Skipped(e) = Tail(rxq)
    BY NoneRefuses, SkippedNothing DEF TypeOK
  <1>3. /\ Unanswered(c.req) = {"ok", "EIO"}
        /\ Verdict(c.req, e) = IF e.status = 0 THEN "ok" ELSE "EIO"
    BY <1>1 DEF Unanswered, Verdict
  <1>4. ASSUME Wait PROVE Skips \/ \E v \in Verdicts : EndsAs(v)
    <2>1. rxq # <<>> /\ Unchanging
      BY <1>4 DEF Wait, Unchanging
    <2>2. CASE ~Answers(c, e)
      BY <1>2, <1>4, <2>1, <2>2 DEF Wait, Skips, IsAnswer
    <2>3. CASE Answers(c, e)
      <3>1. /\ Returns(Verdict(c.req, e)) /\ rxq' = Tail(rxq)
            /\ clean' = (clean /\ e.id = asked)
        BY <1>3, <1>4, <2>3 DEF Wait, IsAnswer
      <3>2. Verdict(c.req, e) \in Verdicts
        BY DEF Verdict, Verdicts
      <3> QED
        BY <2>1, <2>3, <3>1, <3>2, Zenon DEF EndsAs, EndsByAnswer
    <2> QED
      BY <2>2, <2>3
  <1>5. ASSUME GiveUp PROVE \E v \in Verdicts : EndsAs(v)
    <2>1. rxq' = rxq /\ Unchanging /\ clean' = FALSE
      BY <1>5 DEF GiveUp, Unchanging
    <2>2. CASE "timeout" \in Faults /\ Returns("other")
      BY <2>1, <2>2, Zenon DEF EndsAs, EndsInTime, Verdicts
    <2>3. ASSUME NEW r \in {"ok", "EIO"}, "garbage" \in Faults, Returns(r)
          PROVE  \E v \in Verdicts : EndsAs(v)
      <3>1. r \in Verdicts
        BY DEF Verdicts
      <3> QED
        BY <1>3, <2>1, <2>3, <3>1, Zenon DEF EndsAs, EndsUnread
    <2> QED
      BY <1>5, <2>2, <2>3 DEF GiveUp
  <1>6. ASSUME Skips PROVE Wait
    BY <1>2, <1>6 DEF Wait, Skips, IsAnswer, Unchanging
  <1>7. ASSUME NEW v \in Verdicts, EndsAs(v) PROVE Wait \/ GiveUp
    <2>1. Returns(v) /\ Unchanging
      BY <1>7 DEF EndsAs
    <2>2. CASE EndsByAnswer(c, rxq, v, rxq') /\ clean' = (clean /\ e.id = asked)
      <3>1. /\ rxq # <<>> /\ IsAnswer(e) /\ rxq' = Tail(rxq)
            /\ v = IF e.status = 0 THEN "ok" ELSE "EIO"
        BY <1>3, <2>2 DEF EndsByAnswer, IsAnswer
      <3> QED
        BY <2>1, <2>2, <3>1, Zenon DEF Wait, Unchanging
    <2>3. CASE EndsByRefusal(c, rxq, v, rxq')
      BY <1>2, <2>3 DEF EndsByRefusal
    <2>4. CASE /\ "timeout" \in Faults /\ EndsInTime(c, rxq, v, rxq')
               /\ clean' = FALSE
      BY <2>1, <2>4 DEF GiveUp, EndsInTime, Unchanging
    <2>5. CASE /\ "garbage" \in Faults /\ EndsUnread(c, rxq, v, rxq')
               /\ clean' = FALSE
      <3>1. v \in {"ok", "EIO"} /\ rxq' = rxq
        BY <1>3, <2>5 DEF EndsUnread
      <3> QED
        BY <2>1, <2>5, <3>1 DEF GiveUp, Unchanging
    <2> QED
      BY <1>7, <2>2, <2>3, <2>4, <2>5 DEF EndsAs
  <1> QED
    BY <1>4, <1>5, <1>6, <1>7
=============================================================================
