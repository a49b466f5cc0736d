--------------------------- MODULE HciSendReqProofs ---------------------------
(***************************************************************************)
(* Proofs about HciSendReq: type correctness and the filter borrowed by a  *)
(* request, for every set of processes, requests, devices, events and      *)
(* faults, and every bound.                                                *)
(***************************************************************************)
EXTENDS HciSendReq, TLAPS

\* A process inside a request has a command.
CommandKnown == \A p \in Procs : pc[p] # "idle" => cmd[p] \in Command

TypeInv == TypeOK /\ CommandKnown

-----------------------------------------------------------------------------
\* The filter of a request is a filter, whatever event and opcode it names.
LEMMA RequestFilterType ==
    ASSUME NEW r \in Request
    PROVE  RequestFilter(r) \in Filter
  <1>1. \A evt \in Nat : FilterBit(evt) \in Nat
    BY DEF FilterBit
  <1>2. r.event \in Nat /\ r.opcode \in Nat
    BY DEF Request
  <1>3. \A evt \in {EVT_CMD_STATUS, EVT_CMD_COMPLETE, EVT_LE_META_EVENT,
                    r.event} : FilterBit(evt) \in Nat
    BY <1>1, <1>2 DEF EVT_CMD_STATUS, EVT_CMD_COMPLETE, EVT_LE_META_EVENT
  <1>4. RequestFilter(r).events \in SUBSET Nat
    BY <1>3 DEF RequestFilter
  <1> QED
    BY <1>2, <1>4 DEF RequestFilter, Filter, HCI_EVENT_PKT

\* hci_filter_clear leaves a filter.
LEMMA ClearFilterType == hci_filter_clear \in Filter
  BY DEF hci_filter_clear, Filter

\* What the controller answers to a command is an event.
LEMMA AnswerType ==
    ASSUME NEW c \in Command, NEW status \in {0, 1}
    PROVE  /\ CommandComplete(c, status) \in Event
           /\ CommandStatus(c, status) \in Event
           /\ Completion(c, status) \in Event
  <1>1. c.req \in Request /\ c.arg \in Args /\ c.id \in Ids
    BY RequestsAssumption DEF Command
  <1>2. c.req.opcode \in Nat /\ c.req.event \in Nat
    BY <1>1 DEF Request
  <1>3. CommandComplete(c, status) \in Event
    BY <1>1, <1>2 DEF CommandComplete, Event, EVT_CMD_COMPLETE
  <1>4. CommandStatus(c, status) \in Event
    BY <1>1, <1>2 DEF CommandStatus, Event, EVT_CMD_STATUS
  <1>5. Completion(c, status) \in Event
    BY <1>1, <1>2 DEF Completion, Event, EVT_LE_META_EVENT
  <1> QED
    BY <1>3, <1>4, <1>5

\* Delivery keeps the queues sequences of events.
LEMMA DeliverType ==
    ASSUME TypeOK, NEW e \in Event, Deliver(e)
    PROVE  /\ rxq' \in [Procs -> Seq(Event)]
           /\ dropped' \in SUBSET Ids
  <1>1. \A p \in Procs : Append(rxq[p], e) \in Seq(Event)
    BY DEF TypeOK
  <1>2. rxq' \in [Procs -> Seq(Event)]
    BY <1>1 DEF TypeOK, Deliver
  <1>3. \A p \in Procs : e.id \in {p} \X (1 .. MaxCalls) => e.id \in Ids
    BY DEF Ids
  <1>4. dropped' \in SUBSET Ids
    BY <1>3 DEF TypeOK, Deliver
  <1> QED
    BY <1>2, <1>4

-----------------------------------------------------------------------------
\* TypeInv is inductive.
LEMMA TypeInvInit == Init => TypeInv
  BY ClearFilterType, BoundsAssumption
  DEF Init, TypeInv, TypeOK, CommandKnown, Pcs

LEMMA TypeInvStep == TypeInv /\ [Next]_vars => TypeInv'
  <1> SUFFICES ASSUME TypeInv, [Next]_vars
               PROVE  TypeInv'
    OBVIOUS
  <1> USE DEF TypeInv, procVars, ctrlVars, netVars
  <1>1. ASSUME NEW p \in Procs, NEW f \in CallerFilters, SetFilter(p, f)
        PROVE  TypeInv'
    BY <1>1, FiltersAssumption DEF SetFilter, TypeOK, CommandKnown
  <1>2. ASSUME NEW p \in Procs, ReadBetween(p)
        PROVE  TypeInv'
    <2>1. Tail(rxq[p]) \in Seq(Event)
      BY <1>2 DEF ReadBetween, TypeOK
    <2> QED
      BY <1>2, <2>1 DEF ReadBetween, TypeOK, CommandKnown
  <1>3. ASSUME NEW p \in Procs, NEW r \in Requests, NEW a \in Args,
               Begin(p, r, a)
        PROVE  TypeInv'
    <2>1. calls[p] + 1 \in 1 .. MaxCalls
      BY <1>3, BoundsAssumption DEF Begin, TypeOK
    <2>2. [id |-> <<p, calls[p] + 1>>, req |-> r, arg |-> a] \in Command
      BY <2>1 DEF Command, Ids
    <2>3. RequestFilter(r) \in Filter
      BY RequestFilterType, RequestsAssumption
    <2>4. TypeOK'
      BY <1>3, <2>1, <2>2, <2>3 DEF Begin, Goto, TypeOK, Pcs
    <2>5. CommandKnown'
      BY <1>3, <2>2 DEF Begin, Goto, TypeOK, CommandKnown
    <2> QED
      BY <2>4, <2>5
  <1>4. ASSUME NEW p \in Procs, BeginFails(p)
        PROVE  TypeInv'
    BY <1>4, BoundsAssumption DEF BeginFails, TypeOK, CommandKnown
  <1>5. ASSUME NEW p \in Procs, Send(p)
        PROVE  TypeInv'
    <2>1. cmd[p] \in Command
      BY <1>5 DEF Send, CommandKnown
    <2>2. Append(cmdq, cmd[p]) \in Seq(Command)
      BY <2>1 DEF TypeOK
    <2> QED
      BY <1>5, <2>1, <2>2 DEF Send, Goto, TypeOK, CommandKnown, Pcs
  <1>6. ASSUME NEW p \in Procs, SendFails(p)
        PROVE  TypeInv'
    BY <1>6 DEF SendFails, Goto, TypeOK, CommandKnown, Pcs
  <1>7. ASSUME NEW p \in Procs, TimeOut(p)
        PROVE  TypeInv'
    BY <1>7 DEF TimeOut, Goto, TypeOK, CommandKnown, Pcs
  <1>8. ASSUME NEW p \in Procs, Proceed(p)
        PROVE  TypeInv'
    BY <1>8 DEF Proceed, Goto, TypeOK, CommandKnown, Pcs
  <1>9. ASSUME NEW p \in Procs, SelectAgain(p)
        PROVE  TypeInv'
    BY <1>9 DEF SelectAgain, Goto, TypeOK, CommandKnown, Pcs
  <1>10. ASSUME NEW p \in Procs, ReceiveFails(p)
         PROVE  TypeInv'
    BY <1>10 DEF ReceiveFails, Goto, TypeOK, CommandKnown, Pcs
  <1>11. ASSUME NEW p \in Procs, Receive(p)
         PROVE  TypeInv'
    <2>1. rxq[p] \in Seq(Event) /\ rxq[p] # <<>>
      BY <1>11 DEF Receive, TypeOK
    <2>1a. Tail(rxq[p]) \in Seq(Event) /\ Head(rxq[p]) \in Event
      BY <2>1
    <2>2. rxq' \in [Procs -> Seq(Event)]
      BY <1>11, <2>1a DEF Receive, TypeOK
    <2>3. /\ pc' \in [Procs -> Pcs]
          /\ final' \in [Procs -> Event \cup {NoEvent}]
          /\ errno' \in [Procs -> {"none", "EIO", "ETIMEDOUT", "other"}]
      <3>1. \/ pc' = [pc EXCEPT ![p] = "end"]
            \/ pc' = [pc EXCEPT ![p] = "check"]
        BY <1>11 DEF Receive, Goto
      <3>2. final' = [final EXCEPT ![p] = Head(rxq[p])] \/ final' = final
        BY <1>11 DEF Receive
      <3>3. errno' = [errno EXCEPT ![p] = "EIO"] \/ errno' = errno
        BY <1>11 DEF Receive
      <3> HIDE DEF TypeInv
      <3>4. TypeOK
        BY DEF TypeInv
      <3>5. pc' \in [Procs -> Pcs]
        BY <3>1, <3>4 DEF TypeOK, Pcs
      <3>6. final' \in [Procs -> Event \cup {NoEvent}]
        BY <2>1a, <3>2, <3>4 DEF TypeOK
      <3>7. errno' \in [Procs -> {"none", "EIO", "ETIMEDOUT", "other"}]
        BY <3>3, <3>4 DEF TypeOK
      <3> QED
        BY <3>5, <3>6, <3>7
    <2>4. CommandKnown'
      BY <1>11 DEF Receive, Goto, TypeOK, CommandKnown
    <2> QED
      BY <1>11, <2>2, <2>3, <2>4 DEF Receive, TypeOK
  <1>12. ASSUME NEW p \in Procs, Return(p)
         PROVE  TypeInv'
    <2>1. cmd[p].id \in Ids
      BY <1>12 DEF Return, CommandKnown, Command
    <2>2. abandoned' \in SUBSET Ids
      BY <1>12, <2>1 DEF Return, TypeOK
    <2>3. filter' \in [Procs -> Filter]
      <3>1. filter' = filter \/ filter' = [filter EXCEPT ![p] = of[p]]
        BY <1>12 DEF Return, Restore
      <3>2. of[p] \in Filter
        BY DEF TypeOK
      <3> QED
        BY <3>1, <3>2 DEF TypeOK
    <2>4. /\ result' \in [Procs -> {"none", "ok", "failed"}]
          /\ errno' \in [Procs -> {"none", "EIO", "ETIMEDOUT", "other"}]
          /\ pc' \in [Procs -> Pcs]
      <3>1. \/ result' = [result EXCEPT ![p] = "ok"]
            \/ result' = [result EXCEPT ![p] = "failed"]
        BY <1>12 DEF Return
      <3>2. errno' = errno \/ errno' = [errno EXCEPT ![p] = "EIO"]
        BY <1>12 DEF Return
      <3>3. pc' = [pc EXCEPT ![p] = "idle"]
        BY <1>12 DEF Return, Goto
      <3> QED
        BY <3>1, <3>2, <3>3 DEF TypeOK, Pcs
    <2>5. CommandKnown'
      BY <1>12 DEF Return, Goto, TypeOK, CommandKnown
    <2> QED
      BY <1>12, <2>2, <2>3, <2>4, <2>5 DEF Return, TypeOK
  <1>13. ASSUME NEW p \in Procs, Tick(p)
         PROVE  TypeInv'
    BY <1>13 DEF Tick, TypeOK, CommandKnown
  <1>14. CASE SetClockBack
    BY <1>14, BoundsAssumption DEF SetClockBack, TypeOK, CommandKnown
  <1>15. CASE Refuse
    <2>1. Head(cmdq) \in Command /\ Tail(cmdq) \in Seq(Command)
      BY <1>15 DEF Refuse, TypeOK
    <2>2. /\ rxq' \in [Procs -> Seq(Event)]
          /\ dropped' \in SUBSET Ids
      BY <1>15, <2>1, AnswerType, DeliverType DEF Refuse
    <2> QED
      BY <1>15, <2>1, <2>2 DEF Refuse, TypeOK, CommandKnown
  <1>16. CASE Execute
    <2>1. Head(cmdq) \in Command /\ Tail(cmdq) \in Seq(Command)
      BY <1>16 DEF Execute, TypeOK
    <2>2. /\ rxq' \in [Procs -> Seq(Event)]
          /\ dropped' \in SUBSET Ids
      BY <1>16, <2>1, AnswerType, DeliverType DEF Execute
    <2>3. outcome' \in [Ids -> {"none", "ok", "refused"}]
      BY <1>16 DEF Execute, TypeOK
    <2> QED
      BY <1>16, <2>1, <2>2, <2>3 DEF Execute, TypeOK, CommandKnown
  <1>17. CASE Accept
    <2>1. Head(cmdq) \in Command /\ Tail(cmdq) \in Seq(Command)
      BY <1>17 DEF Accept, TypeOK
    <2>2. /\ rxq' \in [Procs -> Seq(Event)]
          /\ dropped' \in SUBSET Ids
      BY <1>17, <2>1, AnswerType, DeliverType DEF Accept
    <2> QED
      BY <1>17, <2>1, <2>2 DEF Accept, TypeOK, CommandKnown
  <1>18. ASSUME NEW c \in running, Complete(c)
         PROVE  TypeInv'
    <2>1. c \in Command
      BY DEF TypeOK
    <2>2. /\ rxq' \in [Procs -> Seq(Event)]
          /\ dropped' \in SUBSET Ids
      BY <1>18, <2>1, AnswerType, DeliverType DEF Complete
    <2>3. outcome' \in [Ids -> {"none", "ok", "refused"}]
      BY <1>18 DEF Complete, TypeOK
    <2> QED
      BY <1>18, <2>2, <2>3 DEF Complete, TypeOK, CommandKnown
  <1>19. ASSUME NEW e \in Noise, Unsolicited(e)
         PROVE  TypeInv'
    <2>1. e \in Event
      BY NoiseAssumption
    <2>2. /\ rxq' \in [Procs -> Seq(Event)]
          /\ dropped' \in SUBSET Ids
      BY <1>19, <2>1, DeliverType DEF Unsolicited
    <2> QED
      BY <1>19, <2>2 DEF Unsolicited, TypeOK, CommandKnown
  <1>20. CASE UNCHANGED vars
    BY <1>20 DEF vars, TypeOK, CommandKnown
  <1> QED
    BY <1>1, <1>2, <1>3, <1>4, <1>5, <1>6, <1>7, <1>8, <1>9, <1>10, <1>11,
       <1>12, <1>13, <1>14, <1>15, <1>16, <1>17, <1>18, <1>19, <1>20
    DEF Next, Step, Environment

\* The inductive invariant holds.
LEMMA TypeInvCorrect == Spec => []TypeInv
  BY TypeInvInit, TypeInvStep, PTL DEF Spec

\* Every variable keeps its type, in every instance of the model.
THEOREM TypeCorrect == Spec => []TypeOK
  <1>1. TypeInv => TypeOK
    BY DEF TypeInv
  <1> QED
    BY <1>1, TypeInvCorrect, PTL

-----------------------------------------------------------------------------
(* The borrowed filter.  FilterRestored is inductive once the types are    *)
(* known: it already says what is saved while a request runs.              *)

LEMMA FilterRestoredStep ==
    TypeInv /\ FilterRestored /\ [Next]_vars => FilterRestored'
  <1> SUFFICES ASSUME TypeInv, FilterRestored, [Next]_vars,
                      "restore" \notin Faults, NEW q \in Procs
               PROVE  IF pc'[q] = "idle" THEN filter'[q] = base'[q]
                                         ELSE of'[q] = base'[q]
    BY DEF FilterRestored
  <1> USE DEF procVars, ctrlVars, netVars
  <1>1. /\ pc \in [Procs -> Pcs] /\ filter \in [Procs -> Filter]
        /\ of \in [Procs -> Filter] /\ base \in [Procs -> Filter]
    BY DEF TypeInv, TypeOK
  <1>2. IF pc[q] = "idle" THEN filter[q] = base[q] ELSE of[q] = base[q]
    BY DEF FilterRestored
  <1>3. ASSUME NEW p \in Procs, NEW f \in CallerFilters, SetFilter(p, f)
        PROVE  IF pc'[q] = "idle" THEN filter'[q] = base'[q]
                                  ELSE of'[q] = base'[q]
    BY <1>1, <1>2, <1>3 DEF SetFilter
  <1>4. ASSUME NEW p \in Procs, NEW r \in Requests, NEW a \in Args,
               Begin(p, r, a)
        PROVE  IF pc'[q] = "idle" THEN filter'[q] = base'[q]
                                  ELSE of'[q] = base'[q]
    BY <1>1, <1>2, <1>4 DEF Begin, Goto
  <1>5. ASSUME NEW p \in Procs, Return(p)
        PROVE  IF pc'[q] = "idle" THEN filter'[q] = base'[q]
                                  ELSE of'[q] = base'[q]
    <2>1. /\ filter' = [filter EXCEPT ![p] = of[p]]
          /\ pc' = [pc EXCEPT ![p] = "idle"]
          /\ pc[p] = "end"
          /\ UNCHANGED <<of, base>>
      BY <1>5 DEF Return, Restore, Goto
    <2> QED
      BY <1>1, <1>2, <2>1
  <1>6. ASSUME NEW p \in Procs, NEW label \in Pcs \ {"idle"},
               pc[p] # "idle", pc' = [pc EXCEPT ![p] = label],
               UNCHANGED <<filter, of, base>>
        PROVE  IF pc'[q] = "idle" THEN filter'[q] = base'[q]
                                  ELSE of'[q] = base'[q]
    BY <1>1, <1>2, <1>6
  <1>7. ASSUME NEW p \in Procs, Step(p), ~Return(p)
        PROVE  /\ \E label \in Pcs \ {"idle"} : pc' = [pc EXCEPT ![p] = label]
               /\ pc[p] # "idle"
               /\ UNCHANGED <<filter, of, base>>
    <2>1. CASE Send(p) \/ SendFails(p)
      BY <2>1 DEF Send, SendFails, Goto, Pcs
    <2>2. CASE TimeOut(p) \/ Proceed(p)
      BY <2>2 DEF TimeOut, Proceed, Goto, Pcs
    <2>3. CASE SelectAgain(p) \/ ReceiveFails(p)
      BY <2>3 DEF SelectAgain, ReceiveFails, Goto, Pcs
    <2>4. CASE Receive(p)
      <3>1. pc' = [pc EXCEPT ![p] = "end"] \/ pc' = [pc EXCEPT ![p] = "check"]
        BY <2>4 DEF Receive, Goto
      <3>2. pc[p] = "select" /\ UNCHANGED <<filter, of, base>>
        BY <2>4 DEF Receive
      <3> QED
        BY <3>1, <3>2 DEF Pcs
    <2> QED
      BY <1>7, <2>1, <2>2, <2>3, <2>4 DEF Step
  <1>8. ASSUME UNCHANGED <<pc, filter, of, base>>
        PROVE  IF pc'[q] = "idle" THEN filter'[q] = base'[q]
                                  ELSE of'[q] = base'[q]
    BY <1>2, <1>8
  <1>9. ASSUME NEW p \in Procs, ReadBetween(p) \/ BeginFails(p) \/ Tick(p)
        PROVE  UNCHANGED <<pc, filter, of, base>>
    BY <1>9 DEF ReadBetween, BeginFails, Tick
  <1>10. CASE Environment
    <2>1. UNCHANGED <<pc, filter, of, base>>
      BY <1>10 DEF Environment, SetClockBack, Refuse, Execute, Accept,
                   Complete, Unsolicited
    <2> QED
      BY <1>8, <2>1
  <1>11. CASE UNCHANGED vars
    BY <1>8, <1>11 DEF vars
  <1> QED
    BY <1>3, <1>4, <1>5, <1>6, <1>7, <1>8, <1>9, <1>10, <1>11 DEF Next

\* A request hands the socket's filter back as it found it, on every path and
\* after any faults, if the system call that puts it back is not one of them.
THEOREM FilterHandedBack == Spec => []FilterRestored
  <1>1. Init => FilterRestored
    BY DEF Init, FilterRestored
  <1> QED
    BY <1>1, TypeInvCorrect, FilterRestoredStep, PTL DEF Spec

-----------------------------------------------------------------------------
(* The refinement.  That a call issues its command at most once rests on   *)
(* what the controller has been given: only ids of calls that have begun,  *)
(* that of the call under way from the moment it is sent, and never again. *)

CommandIssued ==
    \A p \in Procs :
        /\ \A n \in 1 .. MaxCalls : <<p, n>> \in Written => n <= calls[p]
        /\ pc[p] # "idle" => cmd[p].id = <<p, calls[p]>>
        /\ pc[p] = "send" => cmd[p].id \notin Written
        /\ (pc[p] \in {"check", "select"} \/ (pc[p] = "end" /\ ret[p] = 0))
              => cmd[p].id \in Written

\* A sequence of commands holds its head and what its tail holds.
LEMMA HeadAndTail ==
    ASSUME NEW s \in Seq(Command), s # <<>>
    PROVE  {s[k].id : k \in DOMAIN s} =
               {Head(s).id} \cup {Tail(s)[k].id : k \in DOMAIN Tail(s)}
  <1>1. /\ Len(s) \in Nat /\ Len(s) >= 1 /\ DOMAIN s = 1 .. Len(s)
        /\ Head(s) = s[1]
        /\ DOMAIN Tail(s) = 1 .. (Len(s) - 1)
        /\ \A k \in 1 .. (Len(s) - 1) : Tail(s)[k] = s[k + 1]
    OBVIOUS
  <1>2. ASSUME NEW k \in DOMAIN s
        PROVE  s[k].id \in {Head(s).id}
                           \cup {Tail(s)[j].id : j \in DOMAIN Tail(s)}
    <2>1. CASE k = 1
      BY <1>1, <2>1
    <2>2. CASE k # 1
      <3>1. k - 1 \in DOMAIN Tail(s) /\ Tail(s)[k - 1] = s[k]
        BY <1>1, <2>2
      <3> QED
        BY <3>1
    <2> QED
      BY <2>1, <2>2
  <1>3. ASSUME NEW k \in DOMAIN Tail(s)
        PROVE  Tail(s)[k].id \in {s[j].id : j \in DOMAIN s}
    <2>1. k + 1 \in DOMAIN s /\ Tail(s)[k] = s[k + 1]
      BY <1>1
    <2> QED
      BY <2>1
  <1>4. Head(s).id \in {s[j].id : j \in DOMAIN s}
    BY <1>1
  <1> QED
    BY <1>2, <1>3, <1>4

\* Writing a command adds its id to what the controller has been given.
LEMMA SendWrites ==
    ASSUME TypeInv, NEW p \in Procs, Send(p)
    PROVE  Written' = Written \cup {cmd[p].id}
  <1>1. cmdq \in Seq(Command) /\ cmd[p] \in Command
    BY DEF TypeInv, TypeOK, CommandKnown, Send
  <1>2. cmdq' = Append(cmdq, cmd[p]) /\ UNCHANGED <<running, outcome>>
    BY DEF Send
  <1>3. /\ DOMAIN cmdq = 1 .. Len(cmdq) /\ Len(cmdq) \in Nat
        /\ DOMAIN cmdq' = 1 .. (Len(cmdq) + 1)
        /\ \A k \in 1 .. Len(cmdq) : cmdq'[k] = cmdq[k]
        /\ cmdq'[Len(cmdq) + 1] = cmd[p]
    BY <1>1, <1>2
  <1>4. {cmdq'[k].id : k \in DOMAIN cmdq'} =
            {cmdq[k].id : k \in DOMAIN cmdq} \cup {cmd[p].id}
    <2>1. ASSUME NEW k \in DOMAIN cmdq'
          PROVE  cmdq'[k].id \in {cmdq[j].id : j \in DOMAIN cmdq}
                                 \cup {cmd[p].id}
      BY <1>3
    <2>2. ASSUME NEW k \in DOMAIN cmdq
          PROVE  cmdq[k].id \in {cmdq'[j].id : j \in DOMAIN cmdq'}
      <3>1. k \in DOMAIN cmdq' /\ cmdq'[k] = cmdq[k]
        BY <1>3
      <3> QED
        BY <3>1
    <2>3. cmd[p].id \in {cmdq'[j].id : j \in DOMAIN cmdq'}
      <3>1. Len(cmdq) + 1 \in DOMAIN cmdq'
        BY <1>3
      <3> QED
        BY <1>3, <3>1
    <2> QED
      BY <2>1, <2>2, <2>3
  <1> QED
    BY <1>2, <1>4 DEF Written

\* The controller only moves commands on; what it has been given stays.
LEMMA ControllerKeepsWritten ==
    ASSUME TypeInv, Environment
    PROVE  Written' = Written
  <1> DEFINE ids(s) == {s[k].id : k \in DOMAIN s}
  <1>1. ASSUME cmdq # <<>>, cmdq' = Tail(cmdq)
        PROVE  /\ ids(cmdq) = {Head(cmdq).id} \cup ids(cmdq')
               /\ Head(cmdq).id \in Ids
    <2>1. cmdq \in Seq(Command)
      BY DEF TypeInv, TypeOK
    <2>2. Head(cmdq) \in Command
      BY <1>1, <2>1
    <2> QED
      BY <1>1, <2>1, <2>2, HeadAndTail DEF Command
  <1>2. outcome \in [Ids -> {"none", "ok", "refused"}]
    BY DEF TypeInv, TypeOK
  <1>3. ASSUME NEW i \in Ids, NEW v \in {"ok", "refused"},
               outcome' = [outcome EXCEPT ![i] = v]
        PROVE  {j \in Ids : outcome'[j] # "none"} =
                   {j \in Ids : outcome[j] # "none"} \cup {i}
    BY <1>2, <1>3
  <1>4. CASE Refuse
    <2>1. /\ cmdq # <<>> /\ cmdq' = Tail(cmdq) /\ running' = running
          /\ outcome' = [outcome EXCEPT ![Head(cmdq).id] = "refused"]
      BY <1>4 DEF Refuse
    <2> QED
      BY <1>1, <1>3, <2>1 DEF Written
  <1>5. CASE Execute
    <2>1. /\ cmdq # <<>> /\ cmdq' = Tail(cmdq) /\ running' = running
          /\ \E v \in {"ok", "refused"} :
                outcome' = [outcome EXCEPT ![Head(cmdq).id] = v]
      BY <1>5 DEF Execute
    <2> QED
      BY <1>1, <1>3, <2>1 DEF Written
  <1>6. CASE Accept
    <2>1. /\ cmdq # <<>> /\ cmdq' = Tail(cmdq) /\ outcome' = outcome
          /\ running' = running \cup {Head(cmdq)}
      BY <1>6 DEF Accept
    <2>2. {c.id : c \in running'} = {c.id : c \in running} \cup {Head(cmdq).id}
      BY <2>1
    <2> QED
      BY <1>1, <2>1, <2>2 DEF Written
  <1>7. ASSUME NEW c \in running, Complete(c)
        PROVE  Written' = Written
    <2>1. /\ cmdq' = cmdq /\ running' = running \ {c}
          /\ \E v \in {"ok", "refused"} :
                outcome' = [outcome EXCEPT ![c.id] = v]
      BY <1>7 DEF Complete
    <2>2. c.id \in Ids
      BY DEF TypeInv, TypeOK, Command
    <2>3. {d.id : d \in running} = {d.id : d \in running'} \cup {c.id}
      BY <2>1
    <2>4. {j \in Ids : outcome'[j] # "none"} =
              {j \in Ids : outcome[j] # "none"} \cup {c.id}
      BY <1>3, <2>1, <2>2
    <2>5. Written' = ids(cmdq) \cup {d.id : d \in running'}
                     \cup {j \in Ids : outcome'[j] # "none"}
      BY <2>1 DEF Written
    <2> QED
      BY <2>3, <2>4, <2>5 DEF Written
  <1>8. CASE SetClockBack \/ \E e \in Noise : Unsolicited(e)
    BY <1>8 DEF SetClockBack, Unsolicited, ctrlVars, Written
  <1> QED
    BY <1>4, <1>5, <1>6, <1>7, <1>8 DEF Environment

\* The part of CommandIssued that is about process q.
IssuedBy(q) ==
    /\ \A n \in 1 .. MaxCalls : <<q, n>> \in Written => n <= calls[q]
    /\ pc[q] # "idle" => cmd[q].id = <<q, calls[q]>>
    /\ pc[q] = "send" => cmd[q].id \notin Written
    /\ (pc[q] \in {"check", "select"} \/ (pc[q] = "end" /\ ret[q] = 0))
          => cmd[q].id \in Written

LEMMA CommandIssuedStep ==
    TypeInv /\ CommandIssued /\ [Next]_vars => CommandIssued'
  <1> SUFFICES ASSUME TypeInv, CommandIssued, [Next]_vars, NEW q \in Procs
               PROVE  IssuedBy(q)'
    BY DEF CommandIssued, IssuedBy
  <1>1. /\ pc \in [Procs -> Pcs] /\ calls \in [Procs -> 0 .. MaxCalls]
        /\ cmd \in [Procs -> Command \cup {NoId}]
        /\ ret \in [Procs -> {0, -1}] /\ MaxCalls \in Nat
    BY BoundsAssumption DEF TypeInv, TypeOK
  <1>2. \A p \in Procs : IssuedBy(p)
    BY DEF CommandIssued, IssuedBy
  <1>3. ASSUME UNCHANGED <<cmdq, running, outcome>>
        PROVE  Written' = Written
    BY <1>3 DEF Written
  <1>4. ASSUME Written' = Written, UNCHANGED <<pc, calls, cmd, ret>>
        PROVE  IssuedBy(q)'
    BY <1>2, <1>4 DEF IssuedBy
  <1>5. ASSUME NEW p \in Procs, NEW f \in CallerFilters,
               SetFilter(p, f)
        PROVE  IssuedBy(q)'
    <2>1. UNCHANGED <<pc, calls, cmd, ret, cmdq, running, outcome>>
      BY <1>5 DEF SetFilter, procVars, ctrlVars
    <2> QED
      BY <1>3, <1>4, <2>1
  <1>6. ASSUME NEW p \in Procs, ReadBetween(p) \/ Tick(p)
        PROVE  IssuedBy(q)'
    <2>1. UNCHANGED <<pc, calls, cmd, ret, cmdq, running, outcome>>
      BY <1>6 DEF ReadBetween, Tick, procVars, ctrlVars
    <2> QED
      BY <1>3, <1>4, <2>1
  <1>7. ASSUME NEW p \in Procs, NEW r \in Requests, NEW a \in Args,
               Begin(p, r, a)
        PROVE  IssuedBy(q)'
    <2>1. /\ pc' = [pc EXCEPT ![p] = "send"]
          /\ calls' = [calls EXCEPT ![p] = @ + 1]
          /\ ret' = [ret EXCEPT ![p] = 0]
          /\ cmd' = [cmd EXCEPT ![p] =
                        [id |-> <<p, calls[p] + 1>>, req |-> r, arg |-> a]]
          /\ calls[p] < MaxCalls
      BY <1>7 DEF Begin, Goto
    <2>2. Written' = Written
      BY <1>3, <1>7 DEF Begin, ctrlVars
    <2>3. CASE q = p
      <3>1. /\ pc'[p] = "send" /\ calls'[p] = calls[p] + 1
            /\ cmd'[p].id = <<p, calls[p] + 1>>
            /\ calls[p] \in Nat /\ calls[p] + 1 \in 1 .. MaxCalls
        BY <1>1, <2>1
      <3>2. <<p, calls[p] + 1>> \notin Written
        BY <1>2, <3>1 DEF IssuedBy
      <3>3. \A n \in 1 .. MaxCalls : <<p, n>> \in Written => n <= calls[p] + 1
        BY <1>2, <3>1 DEF IssuedBy
      <3> QED
        BY <2>2, <2>3, <3>1, <3>2, <3>3 DEF IssuedBy
    <2>4. CASE q # p
      <3>1. /\ pc'[q] = pc[q] /\ calls'[q] = calls[q]
            /\ cmd'[q] = cmd[q] /\ ret'[q] = ret[q]
        BY <1>1, <2>1, <2>4
      <3> QED
        BY <1>2, <2>2, <3>1 DEF IssuedBy
    <2> QED
      BY <2>3, <2>4
  <1>8. ASSUME NEW p \in Procs, BeginFails(p)
        PROVE  IssuedBy(q)'
    <2>1. /\ calls' = [calls EXCEPT ![p] = @ + 1] /\ pc[p] = "idle"
          /\ ret' = [ret EXCEPT ![p] = -1]
          /\ cmd' = [cmd EXCEPT ![p] = NoId] /\ pc' = pc
      BY <1>8 DEF BeginFails
    <2>2. Written' = Written
      BY <1>3, <1>8 DEF BeginFails, ctrlVars
    <2>3. calls[q] \in Nat /\ calls'[q] \in Nat /\ calls'[q] >= calls[q]
      BY <1>1, <2>1
    <2>4. \A n \in 1 .. MaxCalls : <<q, n>> \in Written => n <= calls'[q]
      BY <1>2, <2>3 DEF IssuedBy
    <2>5. CASE q = p
      BY <2>1, <2>2, <2>4, <2>5 DEF IssuedBy
    <2>6. CASE q # p
      <3>1. /\ calls'[q] = calls[q]
            /\ cmd'[q] = cmd[q] /\ ret'[q] = ret[q]
        BY <1>1, <2>1, <2>6
      <3> QED
        BY <1>2, <2>1, <2>2, <3>1 DEF IssuedBy
    <2> QED
      BY <2>5, <2>6
  <1>9. ASSUME NEW p \in Procs, Send(p)
        PROVE  IssuedBy(q)'
    <2>1. /\ pc[p] = "send" /\ pc' = [pc EXCEPT ![p] = "check"]
          /\ UNCHANGED <<calls, cmd, ret>>
      BY <1>9 DEF Send, Goto
    <2>2. /\ Written' = Written \cup {cmd[p].id}
          /\ cmd[p].id = <<p, calls[p]>>
      BY <1>2, <1>9, <2>1, SendWrites DEF IssuedBy
    <2>3. CASE q = p
      <3>1. \A n \in 1 .. MaxCalls : <<p, n>> \in Written' => n <= calls[p]
        BY <1>1, <1>2, <2>2 DEF IssuedBy
      <3>2. pc'[p] = "check"
        BY <1>1, <2>1
      <3> QED
        BY <2>1, <2>2, <2>3, <3>1, <3>2 DEF IssuedBy
    <2>4. CASE q # p
      <3>1. pc'[q] = pc[q]
        BY <1>1, <2>1, <2>4
      <3>2. \A n \in 1 .. MaxCalls : <<q, n>> \in Written' => n <= calls[q]
        BY <1>2, <2>2, <2>4 DEF IssuedBy
      <3>3. pc[q] = "send" => cmd[q].id \notin Written'
        BY <1>2, <2>2, <2>4 DEF IssuedBy
      <3>4. cmd[q].id \in Written => cmd[q].id \in Written'
        BY <2>2
      <3> QED
        BY <1>2, <2>1, <3>1, <3>2, <3>3, <3>4 DEF IssuedBy
    <2> QED
      BY <2>3, <2>4
  <1>10. ASSUME NEW p \in Procs, Step(p), ~Send(p)
         PROVE  IssuedBy(q)'
    <2>1. /\ UNCHANGED <<calls, cmd, cmdq, running, outcome>>
          /\ pc[p] # "idle"
          /\ \/ pc' = [pc EXCEPT ![p] = "idle"]
             \/ /\ pc' = [pc EXCEPT ![p] = "end"]
                /\ ret' = [ret EXCEPT ![p] = -1]
             \/ /\ pc[p] \in {"check", "select"} /\ ret' = ret
                /\ \E l \in {"check", "select", "end"} :
                      pc' = [pc EXCEPT ![p] = l]
      <3>1. CASE SendFails(p)
        BY <3>1 DEF SendFails, Goto, ctrlVars
      <3>2. CASE TimeOut(p) \/ Proceed(p)
        BY <3>2 DEF TimeOut, Proceed, Goto, ctrlVars
      <3>3. CASE SelectAgain(p) \/ ReceiveFails(p)
        BY <3>3 DEF SelectAgain, ReceiveFails, Goto, ctrlVars
      <3>4. CASE Receive(p)
        BY <3>4 DEF Receive, Goto, ctrlVars
      <3>5. CASE Return(p)
        BY <3>5 DEF Return, Goto, ctrlVars
      <3> QED
        BY <1>10, <3>1, <3>2, <3>3, <3>4, <3>5 DEF Step
    <2>2. Written' = Written
      BY <1>3, <2>1
    <2>3. CASE q = p
      <3>1. CASE pc' = [pc EXCEPT ![p] = "idle"]
        <4>1. pc'[p] = "idle"
          BY <1>1, <3>1
        <4> QED
          BY <1>2, <2>1, <2>2, <2>3, <4>1 DEF IssuedBy
      <3>2. CASE /\ pc' = [pc EXCEPT ![p] = "end"]
                 /\ ret' = [ret EXCEPT ![p] = -1]
        <4>1. pc'[p] = "end" /\ ret'[p] = -1
          BY <1>1, <3>2
        <4> QED
          BY <1>2, <2>1, <2>2, <2>3, <4>1 DEF IssuedBy
      <3>3. ASSUME pc[p] \in {"check", "select"}, ret' = ret,
                   NEW l \in {"check", "select", "end"},
                   pc' = [pc EXCEPT ![p] = l]
            PROVE  IssuedBy(q)'
        <4>1. pc'[p] = l
          BY <1>1, <3>3
        <4> QED
          BY <1>2, <2>1, <2>2, <2>3, <3>3, <4>1 DEF IssuedBy
      <3> QED
        BY <2>1, <3>1, <3>2, <3>3
    <2>4. CASE q # p
      <3>1. pc'[q] = pc[q]
        BY <1>1, <2>1, <2>4
      <3>2. pc[q] = "end" => ret'[q] = ret[q]
        <4>1. CASE Return(p)
          BY <4>1 DEF Return
        <4>2. CASE SendFails(p) \/ TimeOut(p)
          BY <1>1, <2>4, <4>2 DEF SendFails, TimeOut
        <4>3. CASE Proceed(p) \/ SelectAgain(p) \/ ReceiveFails(p) \/ Receive(p)
          BY <4>3 DEF Proceed, SelectAgain, ReceiveFails, Receive
        <4> QED
          BY <1>10, <4>1, <4>2, <4>3 DEF Step
      <3> QED
        BY <1>2, <2>1, <2>2, <3>1, <3>2 DEF IssuedBy
    <2> QED
      BY <2>3, <2>4
  <1>11. CASE Environment
    <2>1. UNCHANGED <<pc, calls, cmd, ret>>
      BY <1>11 DEF Environment, SetClockBack, Refuse, Execute, Accept,
                   Complete, Unsolicited, procVars
    <2>2. Written' = Written
      BY <1>11, ControllerKeepsWritten
    <2> QED
      BY <1>4, <2>1, <2>2
  <1>12. CASE UNCHANGED vars
    BY <1>3, <1>4, <1>12 DEF vars, procVars, ctrlVars
  <1> QED
    BY <1>5, <1>6, <1>7, <1>8, <1>9, <1>10, <1>11, <1>12 DEF Next

LEMMA CommandIssuedCorrect == Spec => []CommandIssued
  <1>1. Init => CommandIssued
    <2> SUFFICES ASSUME Init PROVE CommandIssued
      OBVIOUS
    <2>1. Written = {}
      BY DEF Init, Written
    <2> QED
      BY <2>1 DEF Init, CommandIssued
  <1> QED
    BY <1>1, TypeInvCorrect, CommandIssuedStep, PTL DEF Spec

\* The variables of the abstract specification, and what a step may leave.
AbstractPhase == [p \in Procs |-> IF pc[p] = "idle" THEN "idle" ELSE "busy"]
AbstractOwned == [p \in Procs |-> Owned(p)]

LEMMA RefinementInit == Init => Promise!AbstractInit
  <1> SUFFICES ASSUME Init PROVE Promise!AbstractInit
    OBVIOUS
  <1>1. Written = {}
    BY DEF Init, Written
  <1> QED
    BY <1>1 DEF Init, Promise!AbstractInit, Owned

LEMMA RefinementStep ==
    ASSUME "restore" \notin Faults, TypeInv, CommandIssued, [Next]_vars
    PROVE  [Promise!AbstractNext]_(Promise!avars)
  <1>1. /\ pc \in [Procs -> Pcs] /\ calls \in [Procs -> 0 .. MaxCalls]
        /\ filter \in [Procs -> Filter] /\ of \in [Procs -> Filter]
        /\ ret \in [Procs -> {0, -1}]
        /\ result \in [Procs -> {"none", "ok", "failed"}]
    BY DEF TypeInv, TypeOK
  <1>2. ASSUME UNCHANGED <<cmdq, running, outcome>>
        PROVE  Written' = Written
    BY <1>2 DEF Written
  <1>3. ASSUME AbstractPhase' = AbstractPhase, UNCHANGED <<calls, result>>,
               Written' = Written, AbstractOwned' = AbstractOwned
        PROVE  UNCHANGED Promise!avars
    BY <1>3 DEF Promise!avars, AbstractPhase, AbstractOwned
  <1>4. ASSUME UNCHANGED <<pc, calls, result, filter, of>>, Written' = Written
        PROVE  UNCHANGED Promise!avars
    <2>1. AbstractPhase' = AbstractPhase /\ AbstractOwned' = AbstractOwned
      BY <1>4 DEF AbstractPhase, AbstractOwned, Owned
    <2> QED
      BY <1>3, <1>4, <2>1
  <1>5. ASSUME NEW p \in Procs, NEW f \in CallerFilters, SetFilter(p, f)
        PROVE  Promise!Install(p)
    <2>1. /\ pc[p] = "idle" /\ filter' = [filter EXCEPT ![p] = f]
          /\ UNCHANGED <<pc, calls, result, of, cmdq, running, outcome>>
      BY <1>5 DEF SetFilter, procVars, ctrlVars
    <2>2. Written' = Written
      BY <1>2, <2>1
    <2>3. AbstractOwned' = [AbstractOwned EXCEPT ![p] = f]
      BY <1>1, <2>1 DEF AbstractOwned, Owned
    <2>4. AbstractPhase[p] = "idle" /\ AbstractPhase' = AbstractPhase
      BY <2>1 DEF AbstractPhase
    <2> QED
      BY <2>1, <2>2, <2>3, <2>4
      DEF Promise!Install, AbstractOwned, AbstractPhase
  <1>6. ASSUME NEW p \in Procs, NEW r \in Requests, NEW a \in Args,
               Begin(p, r, a)
        PROVE  Promise!Call(p)
    <2>1. /\ pc[p] = "idle" /\ calls[p] < MaxCalls
          /\ pc' = [pc EXCEPT ![p] = "send"]
          /\ calls' = [calls EXCEPT ![p] = @ + 1]
          /\ result' = [result EXCEPT ![p] = "none"]
          /\ of' = [of EXCEPT ![p] = filter[p]]
          /\ filter' = [filter EXCEPT ![p] = RequestFilter(r)]
          /\ UNCHANGED <<cmdq, running, outcome>>
      BY <1>6 DEF Begin, Goto, ctrlVars
    <2>2. Written' = Written
      BY <1>2, <2>1
    <2>3. AbstractOwned' = AbstractOwned
      <3>1. ASSUME NEW q \in Procs PROVE Owned(q)' = Owned(q)
        BY <1>1, <2>1 DEF Owned
      <3> QED
        BY <3>1 DEF AbstractOwned
    <2>4. /\ AbstractPhase[p] = "idle"
          /\ AbstractPhase' = [AbstractPhase EXCEPT ![p] = "busy"]
      BY <1>1, <2>1 DEF AbstractPhase
    <2> QED
      BY <2>1, <2>2, <2>3, <2>4
      DEF Promise!Call, AbstractOwned, AbstractPhase
  <1>7. ASSUME NEW p \in Procs, BeginFails(p)
        PROVE  Promise!CallFails(p)
    <2>1. /\ pc[p] = "idle" /\ calls[p] < MaxCalls
          /\ calls' = [calls EXCEPT ![p] = @ + 1]
          /\ result' = [result EXCEPT ![p] = "failed"]
          /\ UNCHANGED <<pc, of, filter, cmdq, running, outcome>>
      BY <1>7 DEF BeginFails, ctrlVars
    <2>2. Written' = Written
      BY <1>2, <2>1
    <2>3. AbstractOwned' = AbstractOwned /\ AbstractPhase' = AbstractPhase
      BY <2>1 DEF AbstractOwned, AbstractPhase, Owned
    <2>4. AbstractPhase[p] = "idle"
      BY <2>1 DEF AbstractPhase
    <2> QED
      BY <2>1, <2>2, <2>3, <2>4
      DEF Promise!CallFails, AbstractOwned, AbstractPhase
  <1>8. ASSUME NEW p \in Procs, Send(p)
        PROVE  Promise!Issue(p)
    <2>1. /\ pc[p] = "send" /\ pc' = [pc EXCEPT ![p] = "check"]
          /\ UNCHANGED <<calls, result, of, filter>>
      BY <1>8 DEF Send, Goto
    <2>2. /\ cmd[p].id = <<p, calls[p]>> /\ cmd[p].id \notin Written
          /\ Written' = Written \cup {cmd[p].id}
      BY <1>8, <2>1, SendWrites DEF CommandIssued
    <2>3. AbstractPhase[p] = "busy" /\ AbstractPhase' = AbstractPhase
      BY <1>1, <2>1 DEF AbstractPhase
    <2>4. AbstractOwned' = AbstractOwned
      <3>1. ASSUME NEW q \in Procs PROVE Owned(q)' = Owned(q)
        BY <1>1, <2>1 DEF Owned
      <3> QED
        BY <3>1 DEF AbstractOwned
    <2> QED
      BY <2>1, <2>2, <2>3, <2>4
      DEF Promise!Issue, AbstractOwned, AbstractPhase
  <1>9. ASSUME NEW p \in Procs, Return(p)
        PROVE  Promise!Finish(p)
    <2>1. /\ pc[p] = "end" /\ pc' = [pc EXCEPT ![p] = "idle"]
          /\ filter' = [filter EXCEPT ![p] = of[p]]
          /\ UNCHANGED <<calls, of, cmdq, running, outcome>>
          /\ \/ result' = [result EXCEPT ![p] = "failed"]
             \/ ret[p] = 0 /\ result' = [result EXCEPT ![p] = "ok"]
      BY <1>9 DEF Return, Restore, Goto, ctrlVars
    <2>2. Written' = Written
      BY <1>2, <2>1
    <2>3. ret[p] = 0 => <<p, calls[p]>> \in Written
      BY <2>1 DEF CommandIssued
    <2>4. AbstractOwned' = AbstractOwned
      <3>1. ASSUME NEW q \in Procs PROVE Owned(q)' = Owned(q)
        BY <1>1, <2>1 DEF Owned
      <3> QED
        BY <3>1 DEF AbstractOwned
    <2>5. /\ AbstractPhase[p] = "busy"
          /\ AbstractPhase' = [AbstractPhase EXCEPT ![p] = "idle"]
      BY <1>1, <2>1 DEF AbstractPhase
    <2> QED
      BY <2>1, <2>2, <2>3, <2>4, <2>5
      DEF Promise!Finish, AbstractOwned, AbstractPhase
  <1>10. ASSUME NEW p \in Procs, Step(p), ~Send(p), ~Return(p)
         PROVE  UNCHANGED Promise!avars
    <2>1. /\ pc[p] # "idle"
          /\ \E l \in Pcs \ {"idle"} : pc' = [pc EXCEPT ![p] = l]
          /\ UNCHANGED <<calls, result, of, filter, cmdq, running, outcome>>
      <3>1. CASE SendFails(p)
        BY <3>1 DEF SendFails, Goto, Pcs, ctrlVars
      <3>2. CASE TimeOut(p) \/ Proceed(p)
        BY <3>2 DEF TimeOut, Proceed, Goto, Pcs, ctrlVars
      <3>3. CASE SelectAgain(p) \/ ReceiveFails(p)
        BY <3>3 DEF SelectAgain, ReceiveFails, Goto, Pcs, ctrlVars
      <3>4. CASE Receive(p)
        <4>1. \/ pc' = [pc EXCEPT ![p] = "end"]
              \/ pc' = [pc EXCEPT ![p] = "check"]
          BY <3>4 DEF Receive, Goto
        <4>2. /\ pc[p] = "select"
              /\ UNCHANGED <<calls, result, of, filter, cmdq, running, outcome>>
          BY <3>4 DEF Receive, ctrlVars
        <4> QED
          BY <4>1, <4>2 DEF Pcs
      <3> QED
        BY <1>10, <3>1, <3>2, <3>3, <3>4 DEF Step
    <2>2. Written' = Written
      BY <1>2, <2>1
    <2>3. ASSUME NEW q \in Procs
          PROVE  Owned(q)' = Owned(q) /\ (pc'[q] = "idle" <=> pc[q] = "idle")
      BY <1>1, <2>1 DEF Owned
    <2>4. AbstractOwned' = AbstractOwned /\ AbstractPhase' = AbstractPhase
      BY <2>3 DEF AbstractOwned, AbstractPhase
    <2> QED
      BY <1>3, <2>1, <2>2, <2>4
  <1>11. ASSUME NEW p \in Procs, ReadBetween(p) \/ Tick(p)
         PROVE  UNCHANGED Promise!avars
    <2>1. UNCHANGED <<pc, calls, result, filter, of, cmdq, running, outcome>>
      BY <1>11 DEF ReadBetween, Tick, procVars, ctrlVars
    <2> QED
      BY <1>2, <1>4, <2>1
  <1>12. CASE Environment
    <2>1. UNCHANGED <<pc, calls, result, filter, of>>
      BY <1>12 DEF Environment, SetClockBack, Refuse, Execute, Accept,
                   Complete, Unsolicited, procVars
    <2>2. Written' = Written
      BY <1>12, ControllerKeepsWritten
    <2> QED
      BY <1>4, <2>1, <2>2
  <1>13. CASE UNCHANGED vars
    BY <1>2, <1>4, <1>13 DEF vars, procVars, ctrlVars
  <1> QED
    BY <1>5, <1>6, <1>7, <1>8, <1>9, <1>10, <1>11, <1>12, <1>13
    DEF Next, Promise!AbstractNext

\* hci_send_req implements HciCommand: a call writes its command at most once,
\* reports success only after it has written it, and leaves the filter its
\* caller installed, if putting the filter back cannot fail.
THEOREM Refinement == ASSUME "restore" \notin Faults PROVE Spec => KeepsPromise
  <1>1. TypeInv /\ CommandIssued /\ [Next]_vars
            => [Promise!AbstractNext]_(Promise!avars)
    BY RefinementStep
  <1> QED
    BY <1>1, RefinementInit, TypeInvCorrect, CommandIssuedCorrect, PTL
    DEF Spec, KeepsPromise, Promise!AbstractSpec

-----------------------------------------------------------------------------
(* What ends a request.                                                    *)

\* An event that is taken for the answer of command c, or for its refusal.
Matches(c, e) ==
    /\ e.evt \in {EVT_CMD_COMPLETE, EVT_CMD_STATUS} => e.opcode = c.req.opcode
    /\ e.evt = EVT_REMOTE_NAME_REQ_COMPLETE => e.arg = c.arg

LEMMA EndingMatches ==
    ASSUME NEW c, NEW e, Answers(c, e) \/ Refuses(c, e)
    PROVE  Matches(c, e)
  BY DEF Answers, Refuses, Matches, EVT_CMD_COMPLETE, EVT_CMD_STATUS,
         EVT_REMOTE_NAME_REQ_COMPLETE, EVT_LE_META_EVENT

LEMMA AnswerMatchesStep == TypeInv /\ AnswerMatches /\ [Next]_vars
                               => AnswerMatches'
  <1> SUFFICES ASSUME TypeInv, AnswerMatches, [Next]_vars, NEW q \in Procs,
                      final'[q] # NoEvent
               PROVE  Matches(cmd'[q], final'[q])
    BY DEF AnswerMatches, Matches
  <1>1. /\ final \in [Procs -> Event \cup {NoEvent}]
        /\ cmd \in [Procs -> Command \cup {NoId}]
    BY DEF TypeInv, TypeOK
  <1>2. final[q] # NoEvent => Matches(cmd[q], final[q])
    BY DEF AnswerMatches, Matches
  <1>3. ASSUME UNCHANGED <<final, cmd>>
        PROVE  Matches(cmd'[q], final'[q])
    BY <1>2, <1>3
  <1>4. ASSUME NEW p \in Procs, final' = [final EXCEPT ![p] = NoEvent],
               \E c : cmd' = [cmd EXCEPT ![p] = c]
        PROVE  Matches(cmd'[q], final'[q])
    BY <1>1, <1>2, <1>4
  <1>5. ASSUME NEW p \in Procs, NEW r \in Requests, NEW a \in Args,
               Begin(p, r, a)
        PROVE  Matches(cmd'[q], final'[q])
    BY <1>4, <1>5 DEF Begin
  <1>6. ASSUME NEW p \in Procs, BeginFails(p)
        PROVE  Matches(cmd'[q], final'[q])
    BY <1>4, <1>6 DEF BeginFails
  <1>7. ASSUME NEW p \in Procs, Receive(p)
        PROVE  Matches(cmd'[q], final'[q])
    <2>1. CASE final' = final
      BY <1>3, <1>7, <2>1 DEF Receive
    <2>2. CASE final' # final
      <3>1. /\ cmd' = cmd
            /\ final' = [final EXCEPT ![p] = Head(rxq[p])]
            /\ Answers(cmd[p], Head(rxq[p])) \/ Refuses(cmd[p], Head(rxq[p]))
        BY <1>7, <2>2 DEF Receive
      <3>2. Matches(cmd[p], Head(rxq[p]))
        BY <3>1, EndingMatches
      <3> QED
        BY <1>1, <1>2, <3>1, <3>2
    <2> QED
      BY <2>1, <2>2
  <1>8. ASSUME NEW p \in Procs, Step(p), ~Receive(p)
        PROVE  UNCHANGED <<final, cmd>>
    BY <1>8 DEF Step, Send, SendFails, TimeOut, Proceed, SelectAgain,
                ReceiveFails, Return
  <1>9. ASSUME NEW p \in Procs, ReadBetween(p) \/ Tick(p)
        PROVE  UNCHANGED <<final, cmd>>
    BY <1>9 DEF ReadBetween, Tick, procVars
  <1>10. ASSUME NEW p \in Procs, NEW f \in CallerFilters, SetFilter(p, f)
         PROVE  UNCHANGED <<final, cmd>>
    BY <1>10 DEF SetFilter, procVars
  <1>11. CASE Environment
    <2>1. UNCHANGED <<final, cmd>>
      BY <1>11 DEF Environment, SetClockBack, Refuse, Execute, Accept,
                   Complete, Unsolicited, procVars
    <2> QED
      BY <1>3, <2>1
  <1>12. CASE UNCHANGED vars
    BY <1>3, <1>12 DEF vars, procVars
  <1> QED
    BY <1>3, <1>5, <1>6, <1>7, <1>8, <1>9, <1>10, <1>11, <1>12 DEF Next

\* No request is ended by an answer to another opcode, or by the name of
\* another device, whatever else is in the queue of its socket.
THEOREM AnswersMatch == Spec => []AnswerMatches
  <1>1. Init => AnswerMatches
    BY DEF Init, AnswerMatches
  <1> QED
    BY <1>1, TypeInvCorrect, AnswerMatchesStep, PTL DEF Spec
=============================================================================
