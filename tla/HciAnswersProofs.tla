--------------------------- MODULE HciAnswersProofs ---------------------------
(***************************************************************************)
(* Proofs about the answers HciSendReq waits for: that none is lost but to *)
(* a full queue, that a request is not ended by the answer to an earlier   *)
(* one, that what a wrapper reports is what the controller decided, and    *)
(* that a request is an exchange (HciExchange), for every set of           *)
(* processes, requests, devices, events and faults, and every bound.       *)
(***************************************************************************)
EXTENDS HciSendReqProofs, QueueProofs, SequenceTheorems

-----------------------------------------------------------------------------
(* The inductive invariant                                                 *)

\* What lies in the receive queue of process p.
Queued(p) == Elements(rxq[p])

\* The commands of process p.
Own(p) == {p} \X (1 .. MaxCalls)

\* Commands the controller has been given and has not dealt with.
Open == Elements(cmdq) \cup running

\* The event that ends a command of a process.
Last(e) == e.id # NoId /\ (e.evt = EVT_CMD_STATUS => e.status # 0)

\* The controller has each command once, and deals with it once.
OpenOnce ==
    /\ \A j, k \in DOMAIN cmdq : cmdq[j].id = cmdq[k].id => j = k
    /\ \A k \in DOMAIN cmdq, c \in running : cmdq[k].id # c.id
    /\ \A b, c \in running : b.id = c.id => b = c
    /\ \A c \in running : c.req.event # 0
    /\ \A c \in Open : outcome[c.id] = "none"

\* The command of a request under way is the one that the controller has, and
\* the filter is the one the request installed.
OfRequest(p) == pc[p] # "idle" =>
    /\ filter[p] = RequestFilter(cmd[p].req)
    /\ \A c \in Open : c.id = cmd[p].id => c = cmd[p]

\* An event tells of a command that was given, and tells the truth.
Told(e) ==
    /\ e.id # NoId => e.id \in Written
    /\ Last(e) => outcome[e.id] = IF e.status = 0 THEN "ok" ELSE "refused"

QueuedIsTrue(p) == \A e \in Queued(p) : Told(e)
FinalIsTrue(p) == final[p] # NoEvent => Told(final[p])

\* Nothing about a command follows the event that ends it.
Ordered(s) == \A j, k \in DOMAIN s :
    j < k /\ Last(s[j]) => s[k].id # s[j].id

LastIsLast(p) == Ordered(rxq[p])

\* How the request has ended, and what its wrapper made of that.
EndedBy(p) ==
    /\ final[p] # NoEvent =>
         /\ pc[p] \in {"end", "idle"}
         /\ cmd[p] \in Command
         /\ Answers(cmd[p], final[p]) \/ Refuses(cmd[p], final[p])
         /\ errno[p] = "EIO" => final[p].status # 0
         /\ pc[p] = "idle" /\ result[p] = "ok" /\ cmd[p].req.checked
                /\ Answers(cmd[p], final[p]) => final[p].status = 0
    /\ final[p] = NoEvent /\ pc[p] # "idle" => errno[p] # "EIO"

\* A command of process p that no request of it waits for any more, nor gave
\* up on.
Over(p, i) ==
    /\ i \in Written \ abandoned
    /\ \/ pc[p] = "idle"
       \/ i # cmd[p].id
       \/ final[p] # NoEvent /\ final[p].id = i

\* Such a command has been dealt with, and all its events have been read.
NothingBehind(p) == \A i \in Own(p) : Over(p, i) =>
    /\ outcome[i] # "none"
    /\ \A e \in Queued(p) : e.id # i

NotStale(p) == final[p] # NoEvent /\ final[p].id \in Own(p) =>
    final[p].id \in abandoned \cup {cmd[p].id}

\* The answer to the command of a request under way.
Heard(p) ==
    /\ pc[p] \in {"check", "select"}
    /\ outcome[cmd[p].id] # "none"
    /\ cmd[p].id \notin dropped
    => \E e \in Queued(p) :
          e.id = cmd[p].id /\ (Answers(cmd[p], e) \/ Refuses(cmd[p], e))

AnswersInv ==
    /\ OpenOnce
    /\ \A p \in Procs :
         /\ OfRequest(p)
         /\ QueuedIsTrue(p) /\ FinalIsTrue(p)
         /\ LastIsLast(p)
         /\ EndedBy(p)
         /\ NothingBehind(p) /\ NotStale(p)
         /\ Heard(p)

-----------------------------------------------------------------------------
(* The order of a queue                                                    *)

\* A queue stays in order when its head is taken; and what ends a command was
\* the last of it.
LEMMA TailOrdered ==
    ASSUME NEW s \in Seq(Event), s # <<>>, Ordered(s)
    PROVE  /\ Ordered(Tail(s))
           /\ Last(Head(s)) => \A x \in Elements(Tail(s)) : x.id # Head(s).id
  <1>1. /\ Len(s) \in Nat /\ Len(s) >= 1 /\ DOMAIN s = 1 .. Len(s)
        /\ Head(s) = s[1]
        /\ DOMAIN Tail(s) = 1 .. (Len(s) - 1)
        /\ \A k \in 1 .. (Len(s) - 1) :
              Tail(s)[k] = s[k + 1] /\ k + 1 \in DOMAIN s
    OBVIOUS
  <1>2. ASSUME NEW j \in DOMAIN Tail(s), NEW k \in DOMAIN Tail(s),
               j < k, Last(Tail(s)[j])
        PROVE  Tail(s)[k].id # Tail(s)[j].id
    <2>1. /\ j + 1 \in DOMAIN s /\ k + 1 \in DOMAIN s /\ j + 1 < k + 1
          /\ Tail(s)[j] = s[j + 1] /\ Tail(s)[k] = s[k + 1]
      BY <1>1, <1>2
    <2> QED
      BY <1>2, <2>1 DEF Ordered
  <1>3. ASSUME NEW k \in DOMAIN Tail(s), Last(Head(s))
        PROVE  Tail(s)[k].id # Head(s).id
    <2>1. /\ 1 \in DOMAIN s /\ k + 1 \in DOMAIN s /\ 1 < k + 1
          /\ Head(s) = s[1] /\ Tail(s)[k] = s[k + 1]
      BY <1>1
    <2> QED
      BY <1>3, <2>1 DEF Ordered
  <1>4. Ordered(Tail(s))
    BY <1>2 DEF Ordered
  <1>5. Last(Head(s)) => \A x \in Elements(Tail(s)) : x.id # Head(s).id
    BY <1>3 DEF Elements
  <1> QED
    BY <1>4, <1>5

\* It stays in order when an event comes in whose command has not been ended.
LEMMA AppendOrdered ==
    ASSUME NEW s \in Seq(Event), NEW e \in Event, Ordered(s),
           \A x \in Elements(s) : Last(x) => e.id # x.id
    PROVE  Ordered(Append(s, e))
  <1>1. /\ Len(s) \in Nat /\ DOMAIN s = 1 .. Len(s)
        /\ DOMAIN Append(s, e) = 1 .. (Len(s) + 1)
        /\ \A k \in 1 .. Len(s) : Append(s, e)[k] = s[k]
        /\ Append(s, e)[Len(s) + 1] = e
    OBVIOUS
  <1>2. ASSUME NEW j \in DOMAIN Append(s, e), NEW k \in DOMAIN Append(s, e),
               j < k, Last(Append(s, e)[j])
        PROVE  Append(s, e)[k].id # Append(s, e)[j].id
    <2>1. j \in DOMAIN s /\ Append(s, e)[j] = s[j]
      BY <1>1, <1>2
    <2>2. CASE k \in DOMAIN s
      <3>1. Append(s, e)[k] = s[k]
        BY <1>1, <2>2
      <3> QED
        BY <1>2, <2>1, <2>2, <3>1 DEF Ordered
    <2>3. CASE k \notin DOMAIN s
      <3>1. Append(s, e)[k] = e
        <4>1. k = Len(s) + 1
          BY <1>1, <2>3
        <4> QED
          BY <1>1, <4>1
      <3>2. s[j] \in Elements(s)
        BY <2>1 DEF Elements
      <3> QED
        BY <1>2, <2>1, <3>1, <3>2
    <2> QED
      BY <2>2, <2>3
  <1> QED
    BY <1>2 DEF Ordered

-----------------------------------------------------------------------------
(* What a step is to process q                                             *)

\* The controller has been given no command, and done nothing.
Kept ==
    Open' = Open /\ Written' = Written /\ UNCHANGED <<outcome, dropped>>

\* Process q does nothing, and nothing is done to its queue.
Same(q) ==
    /\ pc'[q] = pc[q] /\ cmd'[q] = cmd[q] /\ final'[q] = final[q]
    /\ filter'[q] = filter[q] /\ result'[q] = result[q] /\ errno'[q] = errno[q]

Unread(q) == rxq'[q] = rxq[q] /\ Queued(q)' = Queued(q)

TakesHead(q) ==
    /\ rxq[q] # <<>> /\ rxq'[q] = Tail(rxq[q])
    /\ Head(rxq[q]) \in Event
    /\ Queued(q) = {Head(rxq[q])} \cup Queued(q)'

\* The steps of q ...
Sets(q) ==
    /\ pc[q] = "idle"
    /\ pc'[q] = pc[q] /\ cmd'[q] = cmd[q] /\ final'[q] = final[q]
    /\ result'[q] = result[q] /\ errno'[q] = errno[q]
    /\ Unread(q) /\ Kept /\ abandoned' = abandoned

Begins(q) ==
    /\ pc[q] = "idle" /\ pc'[q] = "send"
    /\ cmd'[q] \in Command /\ cmd'[q].id \in Own(q) \ Written
    /\ filter'[q] = RequestFilter(cmd'[q].req)
    /\ final'[q] = NoEvent /\ errno'[q] = "none"
    /\ Unread(q) /\ Kept /\ abandoned' = abandoned

FailsToBegin(q) ==
    /\ pc[q] = "idle" /\ pc'[q] = "idle"
    /\ final'[q] = NoEvent
    /\ Unread(q) /\ Kept /\ abandoned' = abandoned

Sends(q) ==
    /\ pc[q] = "send" /\ pc'[q] = "check"
    /\ cmd'[q] = cmd[q] /\ final'[q] = final[q] /\ filter'[q] = filter[q]
    /\ result'[q] = result[q] /\ errno'[q] = errno[q]
    /\ cmd[q] \in Command /\ cmd[q].id \in Own(q) \ Written
    /\ Open' = Open \cup {cmd[q]} /\ Written' = Written \cup {cmd[q].id}
    /\ Unread(q) /\ UNCHANGED <<outcome, dropped, abandoned>>

GoesOn(q) ==
    /\ pc[q] \in {"send", "check", "select"}
    /\ pc'[q] \in {"check", "select", "end"}
    /\ pc'[q] # "end" => pc[q] # "send"
    /\ cmd'[q] = cmd[q] /\ final'[q] = final[q] /\ filter'[q] = filter[q]
    /\ errno'[q] = errno[q] \/ errno'[q] # "EIO"
    /\ Unread(q) /\ Kept /\ abandoned' = abandoned

Reads(q) ==
    /\ pc[q] = "idle" /\ Same(q)
    /\ TakesHead(q) /\ Kept /\ abandoned' = abandoned

Ends(q) ==
    /\ pc[q] = "select" /\ pc'[q] = "end"
    /\ cmd'[q] = cmd[q] /\ filter'[q] = filter[q] /\ cmd[q] \in Command
    /\ final'[q] = Head(rxq[q]) /\ final'[q] # NoEvent
    /\ \/ Answers(cmd[q], Head(rxq[q])) /\ errno'[q] = errno[q]
       \/ Refuses(cmd[q], Head(rxq[q]))
    /\ TakesHead(q) /\ Kept /\ abandoned' = abandoned

PassesOver(q) ==
    /\ pc[q] = "select" /\ pc'[q] = "check"
    /\ cmd'[q] = cmd[q] /\ final'[q] = final[q] /\ filter'[q] = filter[q]
    /\ errno'[q] = errno[q]
    /\ ~Answers(cmd[q], Head(rxq[q])) /\ ~Refuses(cmd[q], Head(rxq[q]))
    /\ TakesHead(q) /\ Kept /\ abandoned' = abandoned

Returns(q) ==
    /\ pc[q] = "end" /\ pc'[q] = "idle"
    /\ cmd'[q] = cmd[q] /\ final'[q] = final[q]
    /\ errno'[q] = "EIO" =>
         \/ errno[q] = "EIO"
         \/ cmd[q].req.checked /\ StatusRead(q) # {0}
    /\ result'[q] = "ok" => ~cmd[q].req.checked \/ 0 \in StatusRead(q)
    /\ abandoned' = IF final[q] = NoEvent \/ final[q].id # cmd[q].id
                    THEN abandoned \cup ({cmd[q].id} \cap Written)
                    ELSE abandoned
    /\ Unread(q) /\ Kept

\* ... those of the other processes, and those of the clock ...
Away(q) ==
    /\ Same(q) /\ Unread(q)
    /\ UNCHANGED <<outcome, dropped>>
    /\ Written \subseteq Written'
    /\ \A i \in Own(q) : i \in Written' => i \in Written
    /\ \A i \in Own(q) : i \in abandoned' <=> i \in abandoned
    /\ \A c \in Open' : c.id \in Own(q) => c \in Open

\* ... and those of the controller: event e comes in.
Gets(q, e) ==
    /\ e \in Event
    /\ dropped \subseteq dropped'
    /\ \/ /\ Unread(q)
          /\ e.id \in Own(q) /\ Passes(filter[q], e) => e.id \in dropped'
       \/ rxq'[q] = Append(rxq[q], e) /\ Queued(q)' = Queued(q) \cup {e}

Ending(c, e) ==
    /\ e.id = c.id /\ Last(e)
    /\ Answers(c, e) \/ Refuses(c, e)
    /\ Passes(RequestFilter(c.req), e)

Completes(q, c, e) ==
    /\ Same(q) /\ Gets(q, e) /\ abandoned' = abandoned /\ Written' = Written
    /\ c \in Open /\ c \in Command /\ Open' = Open \ {c}
    /\ outcome' = [outcome EXCEPT ![c.id] =
                      IF e.status = 0 THEN "ok" ELSE "refused"]
    /\ Ending(c, e)

Accepts(q, c, e) ==
    /\ Same(q) /\ Gets(q, e) /\ abandoned' = abandoned /\ Written' = Written
    /\ c \in Open /\ c \in Command /\ Open' = Open
    /\ outcome' = outcome
    /\ e.id = c.id /\ ~Last(e)

Offers(q, e) ==
    /\ Same(q) /\ Gets(q, e) /\ abandoned' = abandoned /\ Written' = Written
    /\ Open' = Open /\ outcome' = outcome
    /\ e.id = NoId

OwnStep(q) ==
    \/ Sets(q) \/ Begins(q) \/ FailsToBegin(q)
    \/ Sends(q) \/ GoesOn(q) \/ Reads(q) \/ Ends(q) \/ PassesOver(q)
    \/ Returns(q)

ControllerStep(q) ==
    \/ \E c \in Command, e \in Event : Completes(q, c, e) \/ Accepts(q, c, e)
    \/ \E e \in Event : Offers(q, e)

\* The types that the proofs below need, one by one.
LEMMA Functions ==
    ASSUME TypeInv
    PROVE  /\ pc \in [Procs -> Pcs]
           /\ cmd \in [Procs -> Command \cup {NoId}]
           /\ final \in [Procs -> Event \cup {NoEvent}]
           /\ filter \in [Procs -> Filter]
           /\ result \in [Procs -> {"none", "ok", "failed"}]
           /\ errno \in [Procs -> {"none", "EIO", "ETIMEDOUT", "other"}]
           /\ rxq \in [Procs -> Seq(Event)]
           /\ cmdq \in Seq(Command)
           /\ running \in SUBSET Command
           /\ outcome \in [Ids -> {"none", "ok", "refused"}]
  BY DEF TypeInv, TypeOK

\* Without a step of the controller or of hci_send_cmd, all is kept.
LEMMA Keeps ==
    ASSUME UNCHANGED ctrlVars
    PROVE  Open' = Open /\ Written' = Written /\ outcome' = outcome
  BY DEF ctrlVars, Open, Written, Elements

LEMMA SendOpens ==
    ASSUME TypeInv, NEW p \in Procs, Send(p)
    PROVE  Open' = Open \cup {cmd[p]}
  <1>1. cmdq \in Seq(Command) /\ cmd[p] \in Command
    BY DEF TypeInv, TypeOK, CommandKnown, Send
  <1>2. Elements(cmdq') = Elements(cmdq) \cup {cmd[p]}
    BY <1>1, AppendElements DEF Send
  <1> QED
    BY <1>2 DEF Send, Open, Elements

\* The commands of two processes are not the same.
LEMMA OwnDiffers ==
    ASSUME NEW p \in Procs, NEW q \in Procs, p # q, NEW n
    PROVE  <<p, n>> \notin Own(q)
  BY DEF Own

\* The step of another process.
LEMMA StepAway ==
    ASSUME TypeInv, CommandIssued, NEW p \in Procs, NEW q \in Procs, p # q,
           \/ \E f \in CallerFilters : SetFilter(p, f)
           \/ ReadBetween(p)
           \/ \E r \in Requests, a \in Args : Begin(p, r, a)
           \/ BeginFails(p) \/ Step(p)
    PROVE  Away(q)
  <1>1. /\ pc \in [Procs -> Pcs] /\ cmd \in [Procs -> Command \cup {NoId}]
        /\ final \in [Procs -> Event \cup {NoEvent}]
        /\ filter \in [Procs -> Filter]
        /\ result \in [Procs -> {"none", "ok", "failed"}]
        /\ errno \in [Procs -> {"none", "EIO", "ETIMEDOUT", "other"}]
        /\ rxq \in [Procs -> Seq(Event)]
    BY Functions
  <1>2. ASSUME rxq'[q] = rxq[q]
        PROVE  Unread(q)
    BY <1>2 DEF Unread, Queued
  <1>3. CASE \E f \in CallerFilters : SetFilter(p, f)
    <2>1. Same(q) /\ Unread(q)
      BY <1>1, <1>2, <1>3 DEF SetFilter, Same, procVars, netVars
    <2> QED
      BY <1>3, <2>1, Keeps DEF SetFilter, Away, netVars
  <1>4. CASE ReadBetween(p)
    <2>1. Same(q) /\ Unread(q)
      BY <1>1, <1>2, <1>4 DEF ReadBetween, Same, procVars
    <2> QED
      BY <1>4, <2>1, Keeps DEF ReadBetween, Away
  <1>5. CASE \E r \in Requests, a \in Args : Begin(p, r, a)
    <2>1. Same(q) /\ Unread(q)
      BY <1>1, <1>2, <1>5 DEF Begin, Goto, Same, netVars
    <2> QED
      BY <1>5, <2>1, Keeps DEF Begin, Away, netVars
  <1>6. CASE BeginFails(p)
    <2>1. Same(q) /\ Unread(q)
      BY <1>1, <1>2, <1>6 DEF BeginFails, Same, netVars
    <2> QED
      BY <1>6, <2>1, Keeps DEF BeginFails, Away, netVars
  <1>7. CASE Send(p)
    <2>1. Same(q) /\ Unread(q)
      BY <1>1, <1>2, <1>7 DEF Send, Goto, Same, netVars
    <2>2. cmd[p].id \notin Own(q)
      BY <1>7, OwnDiffers DEF Send, CommandIssued
    <2>3. /\ Written' = Written \cup {cmd[p].id}
          /\ Open' = Open \cup {cmd[p]}
      BY <1>7, SendWrites, SendOpens
    <2> QED
      BY <1>7, <2>1, <2>2, <2>3 DEF Send, Away, netVars
  <1>8. CASE SendFails(p) \/ TimeOut(p) \/ Proceed(p) \/ SelectAgain(p)
             \/ ReceiveFails(p)
    <2>1. Same(q) /\ Unread(q)
      BY <1>1, <1>2, <1>8
      DEF SendFails, TimeOut, Proceed, SelectAgain, ReceiveFails, Goto, Same,
          netVars
    <2>2. UNCHANGED <<ctrlVars, dropped, abandoned>>
      BY <1>8 DEF SendFails, TimeOut, Proceed, SelectAgain, ReceiveFails,
                  netVars
    <2> QED
      BY <2>1, <2>2, Keeps DEF Away
  <1>9. CASE Receive(p)
    <2>1. Unread(q)
      BY <1>1, <1>2, <1>9 DEF Receive
    <2>2. pc'[q] = pc[q] /\ errno'[q] = errno[q] /\ final'[q] = final[q]
      BY <1>1, <1>9 DEF Receive, Goto
    <2>3. UNCHANGED <<cmd, filter, result, ctrlVars, dropped, abandoned>>
      BY <1>9 DEF Receive
    <2> QED
      BY <2>1, <2>2, <2>3, Keeps DEF Away, Same
  <1>10. CASE Return(p)
    <2>1. Unread(q)
      BY <1>1, <1>2, <1>10 DEF Return, netVars
    <2>2. pc'[q] = pc[q] /\ errno'[q] = errno[q] /\ result'[q] = result[q]
      BY <1>1, <1>10 DEF Return, Goto
    <2>3. filter'[q] = filter[q]
      BY <1>1, <1>10 DEF Return, Restore
    <2>4. UNCHANGED <<cmd, final, ctrlVars, dropped>>
      BY <1>10 DEF Return, netVars
    <2>5. cmd[p].id \notin Own(q)
      <3>1. pc[p] = "end"
        BY <1>10 DEF Return
      <3> QED
        BY <3>1, OwnDiffers DEF CommandIssued
    <2>6. \A i \in Own(q) : i \in abandoned' <=> i \in abandoned
      BY <1>10, <2>5 DEF Return
    <2> QED
      BY <2>1, <2>2, <2>3, <2>4, <2>6, Keeps DEF Away, Same
  <1> QED
    BY <1>3, <1>4, <1>5, <1>6, <1>7, <1>8, <1>9, <1>10 DEF Step

\* The step of the process itself.
LEMMA StepOwn ==
    ASSUME TypeInv, CommandIssued, NEW q \in Procs,
           \/ \E f \in CallerFilters : SetFilter(q, f)
           \/ ReadBetween(q)
           \/ \E r \in Requests, a \in Args : Begin(q, r, a)
           \/ BeginFails(q) \/ Step(q)
    PROVE  OwnStep(q)
  <1>1. /\ pc \in [Procs -> Pcs] /\ cmd \in [Procs -> Command \cup {NoId}]
        /\ final \in [Procs -> Event \cup {NoEvent}]
        /\ filter \in [Procs -> Filter]
        /\ result \in [Procs -> {"none", "ok", "failed"}]
        /\ errno \in [Procs -> {"none", "EIO", "ETIMEDOUT", "other"}]
        /\ rxq \in [Procs -> Seq(Event)]
    BY Functions
  <1>2. ASSUME rxq'[q] = rxq[q]
        PROVE  Unread(q)
    BY <1>2 DEF Unread, Queued
  <1>3. ASSUME rxq[q] # <<>>, rxq' = [rxq EXCEPT ![q] = Tail(@)]
        PROVE  TakesHead(q)
    <2>1. rxq[q] \in Seq(Event) /\ rxq'[q] = Tail(rxq[q])
      BY <1>1, <1>3
    <2>2. /\ Elements(rxq[q]) = {Head(rxq[q])} \cup Elements(Tail(rxq[q]))
          /\ Head(rxq[q]) \in Event
      BY <1>3, <2>1, TailElements
    <2> QED
      BY <1>3, <2>1, <2>2 DEF TakesHead, Queued
  <1>4. CASE \E f \in CallerFilters : SetFilter(q, f)
    <2>1. Unread(q) /\ Kept
      BY <1>2, <1>4, Keeps DEF SetFilter, Kept, netVars
    <2> QED
      BY <1>4, <2>1 DEF SetFilter, Sets, OwnStep, procVars
  <1>5. CASE ReadBetween(q)
    <2>1. TakesHead(q) /\ Kept
      BY <1>3, <1>5, Keeps DEF ReadBetween, Kept
    <2> QED
      BY <1>5, <2>1 DEF ReadBetween, Reads, Same, OwnStep, procVars
  <1>6. ASSUME NEW r \in Requests, NEW a \in Args, Begin(q, r, a)
        PROVE  OwnStep(q)
    <2> DEFINE c == [id |-> <<q, calls[q] + 1>>, req |-> r, arg |-> a]
    <2>1. calls[q] \in 0 .. MaxCalls /\ calls[q] + 1 \in 1 .. MaxCalls
      BY <1>6, BoundsAssumption DEF Begin, TypeInv, TypeOK
    <2>2. c \in Command /\ c.id \in Own(q)
      BY <2>1 DEF Command, Ids, Own
    <2>3. c.id \notin Written
      BY <2>1 DEF CommandIssued
    <2>4. cmd'[q] = c /\ c.req = r
      BY <1>1, <1>6 DEF Begin
    <2>5. /\ pc[q] = "idle" /\ pc'[q] = "send" /\ final'[q] = NoEvent
          /\ filter'[q] = RequestFilter(r) /\ errno'[q] = "none"
      BY <1>1, <1>6 DEF Begin, Goto
    <2>6. Unread(q) /\ Kept /\ abandoned' = abandoned
      BY <1>2, <1>6, Keeps DEF Begin, Kept, netVars
    <2> HIDE DEF c
    <2> QED
      BY <2>2, <2>3, <2>4, <2>5, <2>6 DEF Begins, OwnStep
  <1>7. CASE BeginFails(q)
    <2>1. Unread(q) /\ Kept
      BY <1>2, <1>7, Keeps DEF BeginFails, Kept, netVars
    <2> QED
      BY <1>1, <1>7, <2>1 DEF BeginFails, FailsToBegin, OwnStep
  <1>8. CASE Send(q)
    <2>1. Unread(q) /\ UNCHANGED <<dropped, abandoned, outcome>>
      BY <1>2, <1>8 DEF Send, netVars
    <2>2. /\ Written' = Written \cup {cmd[q].id}
          /\ Open' = Open \cup {cmd[q]}
      BY <1>8, SendWrites, SendOpens
    <2>3. cmd[q] \in Command /\ cmd[q].id \notin Written
      BY <1>8 DEF Send, CommandIssued, TypeInv, CommandKnown
    <2>4. cmd[q].id \in Own(q)
      <3>1. cmd[q].id = <<q, calls[q]>> /\ cmd[q].id \in Ids
        BY <1>8, <2>3 DEF Send, CommandIssued, Command
      <3> QED
        BY <3>1 DEF Own, Ids
    <2>5. /\ pc[q] = "send" /\ pc'[q] = "check"
          /\ UNCHANGED <<cmd, final, filter, result, errno>>
      BY <1>1, <1>8 DEF Send, Goto
    <2> QED
      BY <2>1, <2>2, <2>3, <2>4, <2>5 DEF Sends, OwnStep
  <1>9. CASE SendFails(q) \/ TimeOut(q) \/ Proceed(q) \/ SelectAgain(q)
             \/ ReceiveFails(q)
    <2>1. Unread(q) /\ Kept /\ abandoned' = abandoned
      BY <1>2, <1>9, Keeps
      DEF SendFails, TimeOut, Proceed, SelectAgain, ReceiveFails, Kept, netVars
    <2>2. UNCHANGED <<cmd, final, filter>>
      BY <1>9 DEF SendFails, TimeOut, Proceed, SelectAgain, ReceiveFails
    <2>3. errno'[q] = errno[q] \/ errno'[q] # "EIO"
      BY <1>1, <1>9 DEF SendFails, TimeOut, Proceed, SelectAgain, ReceiveFails
    <2>4. /\ pc[q] \in {"send", "check", "select"}
          /\ pc'[q] \in {"check", "select", "end"}
          /\ pc'[q] # "end" => pc[q] # "send"
      BY <1>1, <1>9 DEF SendFails, TimeOut, Proceed, SelectAgain, ReceiveFails,
                        Goto
    <2> QED
      BY <2>1, <2>2, <2>3, <2>4 DEF GoesOn, OwnStep
  <1>10. CASE Receive(q)
    <2>1. /\ TakesHead(q) /\ Kept /\ abandoned' = abandoned
          /\ UNCHANGED <<cmd, filter>>
      BY <1>3, <1>10, Keeps DEF Receive, Kept
    <2>2. pc[q] = "select" /\ cmd[q] \in Command /\ Head(rxq[q]) # NoEvent
      BY <1>10, <2>1, NoiseAssumption
      DEF Receive, TakesHead, TypeInv, CommandKnown
    <2>3. \/ /\ Answers(cmd[q], Head(rxq[q])) /\ errno' = errno
             /\ final' = [final EXCEPT ![q] = Head(rxq[q])]
             /\ pc' = [pc EXCEPT ![q] = "end"]
          \/ /\ Refuses(cmd[q], Head(rxq[q]))
             /\ final' = [final EXCEPT ![q] = Head(rxq[q])]
             /\ pc' = [pc EXCEPT ![q] = "end"]
          \/ /\ ~Answers(cmd[q], Head(rxq[q]))
             /\ ~Refuses(cmd[q], Head(rxq[q]))
             /\ pc' = [pc EXCEPT ![q] = "check"]
             /\ UNCHANGED <<final, errno>>
      BY <1>10 DEF Receive, Goto
    <2>4. \/ /\ Answers(cmd[q], Head(rxq[q])) /\ errno'[q] = errno[q]
             /\ final'[q] = Head(rxq[q]) /\ pc'[q] = "end"
          \/ /\ Refuses(cmd[q], Head(rxq[q]))
             /\ final'[q] = Head(rxq[q]) /\ pc'[q] = "end"
          \/ /\ ~Answers(cmd[q], Head(rxq[q]))
             /\ ~Refuses(cmd[q], Head(rxq[q]))
             /\ pc'[q] = "check"
             /\ final'[q] = final[q] /\ errno'[q] = errno[q]
      BY <1>1, <2>3
    <2> QED
      BY <2>1, <2>2, <2>4 DEF Ends, PassesOver, OwnStep
  <1>11. CASE Return(q)
    <2>1. Unread(q) /\ Kept /\ UNCHANGED <<cmd, final>>
      BY <1>2, <1>11, Keeps DEF Return, Kept, netVars
    <2>2. pc[q] = "end" /\ pc'[q] = "idle"
      BY <1>1, <1>11 DEF Return, Goto
    <2>3. errno'[q] = "EIO" => \/ errno[q] = "EIO"
                               \/ cmd[q].req.checked /\ StatusRead(q) # {0}
      BY <1>1, <1>11 DEF Return
    <2>4. result'[q] = "ok" => ~cmd[q].req.checked \/ 0 \in StatusRead(q)
      BY <1>1, <1>11 DEF Return
    <2> QED
      BY <1>11, <2>1, <2>2, <2>3, <2>4 DEF Return, Returns, OwnStep
  <1> QED
    BY <1>4, <1>5, <1>6, <1>7, <1>8, <1>9, <1>10, <1>11 DEF Step

\* What the kernel does with an event, to the queue of q.
LEMMA DeliverGets ==
    ASSUME TypeInv, NEW q \in Procs, NEW e \in Event, Deliver(e)
    PROVE  Gets(q, e)
  <1>1. rxq[q] \in Seq(Event)
    BY Functions
  <1>2. CASE Passes(filter[q], e) /\ Len(rxq[q]) < QueueLen
    <2>1. rxq'[q] = Append(rxq[q], e)
      BY <1>2 DEF Deliver
    <2>2. Queued(q)' = Queued(q) \cup {e}
      BY <1>1, <2>1, AppendElements DEF Queued
    <2> QED
      BY <2>1, <2>2 DEF Gets, Deliver
  <1>3. CASE ~(Passes(filter[q], e) /\ Len(rxq[q]) < QueueLen)
    <2>1. rxq'[q] = rxq[q]
      BY <1>3 DEF Deliver
    <2>2. Unread(q)
      BY <2>1 DEF Unread, Queued
    <2>3. Len(rxq[q]) < QueueLen \/ Len(rxq[q]) >= QueueLen
      BY <1>1, BoundsAssumption
    <2>4. e.id \in Own(q) /\ Passes(filter[q], e) => e.id \in dropped'
      BY <1>3, <2>3 DEF Deliver, Own
    <2> QED
      BY <2>2, <2>4 DEF Gets, Deliver
  <1> QED
    BY <1>2, <1>3

\* The controller takes the first command: it is the only one of its number.
LEMMA TakeFirst ==
    ASSUME TypeInv, OpenOnce, cmdq # <<>>, cmdq' = Tail(cmdq)
    PROVE  /\ Head(cmdq) \in Open /\ Head(cmdq) \in Command
           /\ running' = running => Open' = Open \ {Head(cmdq)}
           /\ running' = running \cup {Head(cmdq)} => Open' = Open
  <1>1. cmdq \in Seq(Command)
    BY Functions
  <1>2. /\ Elements(cmdq) = {Head(cmdq)} \cup Elements(cmdq')
        /\ Head(cmdq) \in Command
    BY <1>1, TailElements
  <1>3. /\ Len(cmdq) \in Nat /\ Len(cmdq) >= 1 /\ DOMAIN cmdq = 1 .. Len(cmdq)
        /\ Head(cmdq) = cmdq[1] /\ DOMAIN cmdq' = 1 .. (Len(cmdq) - 1)
        /\ \A k \in 1 .. (Len(cmdq) - 1) : cmdq'[k] = cmdq[k + 1]
    BY <1>1
  <1>4. Head(cmdq) \notin Elements(cmdq')
    <2>1. ASSUME NEW k \in DOMAIN cmdq', cmdq'[k] = Head(cmdq)
          PROVE  FALSE
      <3>1. /\ 1 \in DOMAIN cmdq /\ k + 1 \in DOMAIN cmdq /\ 1 # k + 1
            /\ cmdq[k + 1] = cmdq[1]
        BY <1>3, <2>1
      <3> QED
        BY <3>1 DEF OpenOnce
    <2> QED
      BY <2>1 DEF Elements
  <1>5. Head(cmdq) \notin running
    <2>1. 1 \in DOMAIN cmdq /\ Head(cmdq) = cmdq[1]
      BY <1>3
    <2> QED
      BY <2>1 DEF OpenOnce
  <1>6. Open' = Elements(cmdq') \cup running'
    BY DEF Open, Elements
  <1> QED
    BY <1>2, <1>4, <1>5, <1>6 DEF Open

\* How a command is ended, with what event, and that the filter of its request
\* lets this one through.
LEMMA EndingEvents ==
    ASSUME NEW c \in Command, NEW status \in {0, 1}
    PROVE  /\ Ending(c, CommandStatus(c, 1))
           /\ Ending(c, CommandComplete(c, status))
           /\ c.req.event # 0 => Ending(c, Completion(c, status))
           /\ ~Last(CommandStatus(c, 0))
  <1>1. c.id # NoId /\ c.req \in Request /\ c.req \in Requests
    BY NoiseAssumption, RequestsAssumption DEF Command
  <1>2. /\ c.req.event # EVT_CMD_STATUS
        /\ ~c.req.le =>
             c.req.event \notin {EVT_CMD_COMPLETE, EVT_LE_META_EVENT}
    BY <1>1, EventsAssumption
  <1>3. Ending(c, CommandStatus(c, 1))
    BY <1>1, <1>2 DEF Ending, CommandStatus, Last, Refuses, Passes,
       RequestFilter, EVT_CMD_STATUS, EVT_CMD_COMPLETE
  <1>4. Ending(c, CommandComplete(c, status))
    BY <1>1, <1>2 DEF Ending, CommandComplete, Last, Answers, Passes,
       RequestFilter, EVT_CMD_STATUS, EVT_CMD_COMPLETE
  <1>5. ASSUME c.req.event # 0
        PROVE  Ending(c, Completion(c, status))
    <2> DEFINE e == Completion(c, status)
    <2>1. /\ e.id = c.id /\ e.arg = c.arg
          /\ c.req.le => e.evt = EVT_LE_META_EVENT /\ e.sub = c.req.event
          /\ ~c.req.le => e.evt = c.req.event
      BY DEF Completion
    <2> HIDE DEF e
    <2>2. e.evt # EVT_CMD_STATUS /\ e.evt # EVT_CMD_COMPLETE
      BY <1>2, <2>1 DEF EVT_CMD_STATUS, EVT_CMD_COMPLETE, EVT_LE_META_EVENT
    <2>3. Answers(c, e)
      BY <1>2, <2>1, <2>2 DEF Answers, EVT_REMOTE_NAME_REQ_COMPLETE
    <2>4. Passes(RequestFilter(c.req), e)
      BY <2>1, <2>2 DEF Passes, RequestFilter
    <2>5. Last(e)
      BY <1>1, <2>1, <2>2 DEF Last
    <2> QED
      BY <2>1, <2>3, <2>4, <2>5 DEF Ending, e
  <1>6. ~Last(CommandStatus(c, 0))
    BY DEF Last, CommandStatus
  <1> QED
    BY <1>3, <1>4, <1>5, <1>6

\* The step of the controller.
LEMMA StepController ==
    ASSUME TypeInv, OpenOnce, NEW q \in Procs, Environment, ~SetClockBack
    PROVE  ControllerStep(q)
  <1>1. Written' = Written
    BY ControllerKeepsWritten
  <1>2. ASSUME UNCHANGED <<procVars, filter, abandoned>>
        PROVE  Same(q) /\ abandoned' = abandoned
    BY <1>2 DEF procVars, Same
  <1>3. CASE Refuse
    <2> DEFINE c == Head(cmdq)
               e == CommandStatus(c, 1)
    <2>1. c \in Open /\ c \in Command /\ Open' = Open \ {c}
      BY <1>3, TakeFirst DEF Refuse
    <2>2. e \in Event /\ e.status = 1
      BY <2>1, AnswerType DEF CommandStatus
    <2>3. Gets(q, e) /\ Ending(c, e)
      BY <1>3, <2>1, <2>2, DeliverGets, EndingEvents DEF Refuse
    <2>4. outcome' = [outcome EXCEPT ![c.id] =
                         IF e.status = 0 THEN "ok" ELSE "refused"]
      <3>1. "refused" = IF e.status = 0 THEN "ok" ELSE "refused"
        BY <2>2
      <3> QED
        BY <1>3, <3>1 DEF Refuse
    <2>5. Same(q) /\ abandoned' = abandoned
      BY <1>2, <1>3 DEF Refuse
    <2> HIDE DEF c, e
    <2> QED
      BY <1>1, <2>1, <2>2, <2>3, <2>4, <2>5 DEF Completes, ControllerStep
  <1>4. CASE Execute
    <2> DEFINE c == Head(cmdq)
    <2>1. c \in Open /\ c \in Command /\ Open' = Open \ {c}
      BY <1>4, TakeFirst DEF Execute
    <2>2. PICK status \in {0, 1} :
             /\ outcome' = [outcome EXCEPT ![c.id] =
                               IF status = 0 THEN "ok" ELSE "refused"]
             /\ Deliver(CommandComplete(c, status))
      BY <1>4 DEF Execute
    <2> DEFINE e == CommandComplete(c, status)
    <2>3. e \in Event /\ e.status = status
      BY <2>1, AnswerType DEF CommandComplete
    <2>4. Gets(q, e) /\ Ending(c, e)
      BY <2>1, <2>2, <2>3, DeliverGets, EndingEvents
    <2>5. Same(q) /\ abandoned' = abandoned
      BY <1>2, <1>4 DEF Execute
    <2> HIDE DEF c, e
    <2> QED
      BY <1>1, <2>1, <2>2, <2>3, <2>4, <2>5 DEF Completes, ControllerStep
  <1>5. CASE Accept
    <2> DEFINE c == Head(cmdq)
               e == CommandStatus(c, 0)
    <2>1. c \in Open /\ c \in Command /\ Open' = Open
      BY <1>5, TakeFirst DEF Accept
    <2>2. e \in Event /\ e.id = c.id
      BY <2>1, AnswerType DEF CommandStatus
    <2>3. Gets(q, e) /\ ~Last(e)
      BY <1>5, <2>1, <2>2, DeliverGets, EndingEvents DEF Accept
    <2>4. outcome' = outcome
      BY <1>5 DEF Accept
    <2>5. Same(q) /\ abandoned' = abandoned
      BY <1>2, <1>5 DEF Accept
    <2> HIDE DEF c, e
    <2> QED
      BY <1>1, <2>1, <2>2, <2>3, <2>4, <2>5 DEF Accepts, ControllerStep
  <1>6. ASSUME NEW c \in running, Complete(c)
        PROVE  ControllerStep(q)
    <2>1. c \in Open /\ c \in Command /\ running' = running \ {c}
          /\ cmdq' = cmdq
      BY <1>6, Functions DEF Complete, Open
    <2>2. Open' = Open \ {c}
      <3>1. c \notin Elements(cmdq)
        BY DEF OpenOnce, Elements
      <3>2. Open' = Elements(cmdq) \cup running'
        BY <2>1 DEF Open, Elements
      <3> QED
        BY <2>1, <3>1, <3>2 DEF Open
    <2>3. c.req.event # 0
      BY DEF OpenOnce
    <2>4. PICK status \in {0, 1} :
             /\ outcome' = [outcome EXCEPT ![c.id] =
                               IF status = 0 THEN "ok" ELSE "refused"]
             /\ Deliver(Completion(c, status))
      BY <1>6 DEF Complete
    <2> DEFINE e == Completion(c, status)
    <2>5. e \in Event /\ e.status = status
      BY <2>1, AnswerType DEF Completion
    <2>6. Gets(q, e) /\ Ending(c, e)
      BY <2>1, <2>3, <2>4, <2>5, DeliverGets, EndingEvents
    <2>7. Same(q) /\ abandoned' = abandoned
      BY <1>2, <1>6 DEF Complete
    <2> HIDE DEF e
    <2> QED
      BY <1>1, <2>1, <2>2, <2>4, <2>5, <2>6, <2>7
      DEF Completes, ControllerStep
  <1>7. ASSUME NEW e \in Noise, Unsolicited(e)
        PROVE  ControllerStep(q)
    <2>1. e \in Event /\ e.id = NoId
      BY NoiseAssumption
    <2>2. Gets(q, e) /\ Open' = Open /\ outcome' = outcome
      BY <1>7, <2>1, DeliverGets, Keeps DEF Unsolicited
    <2>3. Same(q) /\ abandoned' = abandoned
      BY <1>2, <1>7 DEF Unsolicited
    <2> QED
      BY <1>1, <2>1, <2>2, <2>3 DEF Offers, ControllerStep
  <1> QED
    BY <1>3, <1>4, <1>5, <1>6, <1>7 DEF Environment

\* Every step is one of these to every process.
LEMMA StepEffect ==
    ASSUME TypeInv, CommandIssued, OpenOnce, [Next]_vars, NEW q \in Procs
    PROVE  OwnStep(q) \/ Away(q) \/ ControllerStep(q)
  <1>1. ASSUME NEW p \in Procs,
               \/ \E f \in CallerFilters : SetFilter(p, f)
               \/ ReadBetween(p)
               \/ \E r \in Requests, a \in Args : Begin(p, r, a)
               \/ BeginFails(p) \/ Step(p)
        PROVE  OwnStep(q) \/ Away(q)
    <2>1. CASE p = q
      BY <1>1, <2>1, StepOwn
    <2>2. CASE p # q
      BY <1>1, <2>2, StepAway
    <2> QED
      BY <2>1, <2>2
  <1>2. ASSUME UNCHANGED <<pc, cmd, final, filter, result, errno, rxq,
                           ctrlVars, dropped, abandoned>>
        PROVE  Away(q)
    <2>1. Same(q) /\ Unread(q)
      BY <1>2 DEF Same, Unread, Queued
    <2> QED
      BY <1>2, <2>1, Keeps DEF Away
  <1>3. ASSUME NEW p \in Procs, Tick(p)
        PROVE  Away(q)
    BY <1>2, <1>3 DEF Tick, netVars
  <1>4. CASE SetClockBack
    BY <1>2, <1>4 DEF SetClockBack, netVars
  <1>5. CASE Environment /\ ~SetClockBack
    BY <1>5, StepController
  <1>6. CASE UNCHANGED vars
    BY <1>2, <1>6 DEF vars, procVars, netVars
  <1> QED
    BY <1>1, <1>3, <1>4, <1>5, <1>6 DEF Next

-----------------------------------------------------------------------------
(* The parts of the invariant                                              *)

\* What is in Open has been given to the controller.
LEMMA OpenWritten == \A c \in Open : c.id \in Written
  BY DEF Open, Elements, Written

\* A command is given to the controller, and ended, once.
LEMMA OpenOnceStep ==
    ASSUME TypeInv, CommandIssued, OpenOnce, [Next]_vars
    PROVE  OpenOnce'
  <1>1. ASSUME UNCHANGED ctrlVars
        PROVE  OpenOnce'
    BY <1>1 DEF ctrlVars, OpenOnce, Open, Elements
  <1>2. ASSUME NEW p \in Procs, Send(p)
        PROVE  OpenOnce'
    <2>1. /\ cmdq \in Seq(Command) /\ cmd[p] \in Command
          /\ cmdq' = Append(cmdq, cmd[p]) /\ running' = running
          /\ outcome' = outcome
      BY <1>2, Functions DEF Send, TypeInv, CommandKnown
    <2>2. /\ DOMAIN cmdq' = 1 .. (Len(cmdq) + 1) /\ Len(cmdq) \in Nat
          /\ DOMAIN cmdq = 1 .. Len(cmdq)
          /\ \A k \in 1 .. Len(cmdq) : cmdq'[k] = cmdq[k]
          /\ cmdq'[Len(cmdq) + 1] = cmd[p]
      BY <2>1
    <2>3. cmd[p].id \notin Written /\ cmd[p].id \in Ids
      BY <1>2, <2>1 DEF Send, CommandIssued, Command
    <2>4. \A k \in 1 .. Len(cmdq) : cmdq[k].id # cmd[p].id
      BY <2>2, <2>3 DEF Written
    <2>5. \A c \in running : c.id # cmd[p].id
      BY <2>3 DEF Written
    <2>6. outcome[cmd[p].id] = "none"
      BY <2>3 DEF Written
    <2>7. Open' = Open \cup {cmd[p]}
      BY <1>2, SendOpens
    <2>8. ASSUME NEW j \in DOMAIN cmdq', NEW k \in DOMAIN cmdq',
                 cmdq'[j].id = cmdq'[k].id
          PROVE  j = k
      <3>1. CASE j \in DOMAIN cmdq /\ k \in DOMAIN cmdq
        BY <2>2, <2>8, <3>1 DEF OpenOnce
      <3>2. CASE j = Len(cmdq) + 1 /\ k \in DOMAIN cmdq
        BY <2>2, <2>4, <2>8, <3>2
      <3>3. CASE j \in DOMAIN cmdq /\ k = Len(cmdq) + 1
        BY <2>2, <2>4, <2>8, <3>3
      <3> QED
        BY <2>2, <3>1, <3>2, <3>3
    <2>9. ASSUME NEW k \in DOMAIN cmdq', NEW c \in running
          PROVE  cmdq'[k].id # c.id
      <3>1. CASE k \in DOMAIN cmdq
        BY <2>2, <3>1 DEF OpenOnce
      <3>2. CASE k = Len(cmdq) + 1
        BY <2>2, <2>5, <3>2
      <3> QED
        BY <2>2, <3>1, <3>2
    <2> QED
      BY <2>1, <2>6, <2>7, <2>8, <2>9 DEF OpenOnce
  <1>3. ASSUME cmdq # <<>>, cmdq' = Tail(cmdq)
        PROVE  /\ \A j, k \in DOMAIN cmdq' : cmdq'[j].id = cmdq'[k].id => j = k
               /\ \A k \in DOMAIN cmdq' : cmdq'[k].id # Head(cmdq).id
               /\ \A k \in DOMAIN cmdq', c \in running : cmdq'[k].id # c.id
               /\ \A c \in running : c.id # Head(cmdq).id
    <2>1. /\ Len(cmdq) \in Nat /\ Len(cmdq) >= 1
          /\ DOMAIN cmdq = 1 .. Len(cmdq) /\ Head(cmdq) = cmdq[1]
          /\ DOMAIN cmdq' = 1 .. (Len(cmdq) - 1)
          /\ \A k \in 1 .. (Len(cmdq) - 1) : cmdq'[k] = cmdq[k + 1]
      BY <1>3, Functions
    <2>2. ASSUME NEW k \in DOMAIN cmdq'
          PROVE  /\ k + 1 \in DOMAIN cmdq /\ k + 1 # 1
                 /\ cmdq'[k] = cmdq[k + 1] /\ k \in Nat
      BY <2>1
    <2>3. 1 \in DOMAIN cmdq
      BY <2>1
    <2>4. ASSUME NEW j \in DOMAIN cmdq', NEW k \in DOMAIN cmdq',
                 cmdq'[j].id = cmdq'[k].id
          PROVE  j = k
      <3>1. j + 1 = k + 1
        BY <2>2, <2>4 DEF OpenOnce
      <3> QED
        BY <2>2, <3>1
    <2>5. ASSUME NEW k \in DOMAIN cmdq'
          PROVE  cmdq'[k].id # Head(cmdq).id
      BY <2>1, <2>2, <2>3 DEF OpenOnce
    <2>6. ASSUME NEW k \in DOMAIN cmdq', NEW c \in running
          PROVE  cmdq'[k].id # c.id
      BY <2>2 DEF OpenOnce
    <2>7. ASSUME NEW c \in running
          PROVE  c.id # Head(cmdq).id
      BY <2>1, <2>3 DEF OpenOnce
    <2> QED
      BY <2>4, <2>5, <2>6, <2>7
  <1>4. ASSUME NEW c \in Open, Open' \subseteq Open \ {c},
               \A b \in Open : b.id = c.id => b = c,
               NEW v, outcome' = [outcome EXCEPT ![c.id] = v]
        PROVE  \A b \in Open' : outcome'[b.id] = "none"
    <2>1. \A b \in Open' : b.id # c.id /\ b \in Open /\ b.id \in Ids
      <3>1. Open \subseteq Command
        BY Functions DEF Open, Elements
      <3> QED
        BY <1>4, <3>1 DEF Command
    <2>2. outcome \in [Ids -> {"none", "ok", "refused"}]
      BY Functions
    <2> QED
      BY <1>4, <2>1, <2>2 DEF OpenOnce
  <1>5. \A b, c \in Open : b.id = c.id => b = c
    BY DEF OpenOnce, Open, Elements
  <1>6. ASSUME Refuse \/ Execute
        PROVE  OpenOnce'
    <2>1. /\ cmdq # <<>> /\ cmdq' = Tail(cmdq) /\ running' = running
          /\ \E v : outcome' = [outcome EXCEPT ![Head(cmdq).id] = v]
      BY <1>6 DEF Refuse, Execute
    <2>2. Head(cmdq) \in Open /\ Open' = Open \ {Head(cmdq)}
      BY <2>1, TakeFirst
    <2>3. \A b \in Open' : outcome'[b.id] = "none"
      BY <1>4, <1>5, <2>1, <2>2
    <2> QED
      BY <1>3, <2>1, <2>3 DEF OpenOnce
  <1>7. CASE Accept
    <2>1. /\ cmdq # <<>> /\ cmdq' = Tail(cmdq)
          /\ running' = running \cup {Head(cmdq)}
          /\ outcome' = outcome /\ Head(cmdq).req.event # 0
      BY <1>7 DEF Accept
    <2>2. Open' = Open
      BY <2>1, TakeFirst
    <2> QED
      BY <1>3, <2>1, <2>2 DEF OpenOnce
  <1>8. ASSUME NEW c \in running, Complete(c)
        PROVE  OpenOnce'
    <2>1. /\ cmdq' = cmdq /\ running' = running \ {c}
          /\ \E v : outcome' = [outcome EXCEPT ![c.id] = v]
      BY <1>8 DEF Complete
    <2>2. c \in Open /\ Open' \subseteq Open \ {c}
      <3>1. c \notin Elements(cmdq)
        BY DEF OpenOnce, Elements
      <3>2. Open' = Elements(cmdq) \cup running'
        BY <2>1 DEF Open, Elements
      <3> QED
        BY <2>1, <3>1, <3>2 DEF Open
    <2>3. \A b \in Open' : outcome'[b.id] = "none"
      BY <1>4, <1>5, <2>1, <2>2
    <2> QED
      BY <2>1, <2>3 DEF OpenOnce
  <1>9. ASSUME NEW p \in Procs, Step(p), ~Send(p)
        PROVE  UNCHANGED ctrlVars
    BY <1>9 DEF Step, SendFails, TimeOut, Proceed, SelectAgain, ReceiveFails,
                Receive, Return
  <1>10. ASSUME NEW p \in Procs,
                \/ \E f \in CallerFilters : SetFilter(p, f)
                \/ ReadBetween(p)
                \/ \E r \in Requests, a \in Args : Begin(p, r, a)
                \/ BeginFails(p) \/ Tick(p)
         PROVE  UNCHANGED ctrlVars
    BY <1>10 DEF SetFilter, ReadBetween, Begin, BeginFails, Tick
  <1>11. CASE SetClockBack \/ \E e \in Noise : Unsolicited(e)
    BY <1>1, <1>11 DEF SetClockBack, Unsolicited
  <1>12. CASE UNCHANGED vars
    BY <1>1, <1>12 DEF vars
  <1> QED
    BY <1>1, <1>2, <1>6, <1>7, <1>8, <1>9, <1>10, <1>11, <1>12
    DEF Next, Environment

\* What the controller has decided stays decided.
LEMMA Settled ==
    ASSUME TypeInv, OpenOnce, NEW q \in Procs,
           OwnStep(q) \/ Away(q) \/ ControllerStep(q)
    PROVE  /\ Written \subseteq Written' /\ Written \subseteq Ids
           /\ \A i \in Ids : outcome[i] # "none" => outcome'[i] = outcome[i]
  <1>1. outcome \in [Ids -> {"none", "ok", "refused"}]
    BY Functions
  <1>2. Written \subseteq Ids
    <2>1. Elements(cmdq) \subseteq Command /\ running \subseteq Command
      BY Functions DEF Elements
    <2> QED
      BY <2>1 DEF Written, Elements, Command
  <1>3. CASE OwnStep(q)
    BY <1>2, <1>3 DEF OwnStep, Sets, Begins, FailsToBegin, Sends, GoesOn,
       Reads,
                      Ends, PassesOver, Returns, Kept
  <1>4. CASE Away(q)
    BY <1>2, <1>4 DEF Away
  <1>5. ASSUME NEW c \in Command, NEW e \in Event,
               Completes(q, c, e) \/ Accepts(q, c, e)
        PROVE  /\ Written' = Written
               /\ \A i \in Ids :
                    outcome[i] # "none" => outcome'[i] = outcome[i]
    <2>1. outcome[c.id] = "none"
      BY <1>5 DEF Completes, Accepts, OpenOnce
    <2> QED
      BY <1>1, <1>5, <2>1 DEF Completes, Accepts
  <1>6. ASSUME NEW e \in Event, Offers(q, e)
        PROVE  Written' = Written /\ outcome' = outcome
    BY <1>6 DEF Offers
  <1> QED
    BY <1>2, <1>3, <1>4, <1>5, <1>6 DEF ControllerStep

LEMMA ToldStays ==
    ASSUME TypeInv, OpenOnce, NEW q \in Procs,
           OwnStep(q) \/ Away(q) \/ ControllerStep(q),
           NEW e, Told(e)
    PROVE  Told(e)'
  <1>1. /\ Written \subseteq Written' /\ Written \subseteq Ids
        /\ \A i \in Ids : outcome[i] # "none" => outcome'[i] = outcome[i]
    BY Settled
  <1>2. Last(e) => e.id \in Ids
    BY <1>1 DEF Told, Last
  <1>3. e.id # NoId => e.id \in Written'
    BY <1>1 DEF Told
  <1>4. Last(e) => outcome'[e.id] = IF e.status = 0 THEN "ok" ELSE "refused"
    BY <1>1, <1>2 DEF Told
  <1> QED
    BY <1>3, <1>4 DEF Told

\* The event of the controller tells the truth.
LEMMA ToldBegins ==
    ASSUME TypeInv, OpenOnce, NEW q \in Procs, NEW e \in Event,
           \/ \E c \in Command : Completes(q, c, e) \/ Accepts(q, c, e)
           \/ Offers(q, e)
    PROVE  Told(e)'
  <1>1. ASSUME NEW c \in Command, Completes(q, c, e)
        PROVE  Told(e)'
    <2>1. e.id = c.id /\ c.id \in Ids /\ c.id \in Written'
      BY <1>1, OpenWritten DEF Completes, Ending, Command
    <2>2. outcome'[c.id] = IF e.status = 0 THEN "ok" ELSE "refused"
      BY <1>1, <2>1, Functions DEF Completes
    <2> QED
      BY <2>1, <2>2 DEF Told
  <1>2. ASSUME NEW c \in Command, Accepts(q, c, e)
        PROVE  Told(e)'
    BY <1>2, OpenWritten DEF Accepts, Told, Last
  <1>3. ASSUME Offers(q, e)
        PROVE  Told(e)'
    BY <1>3 DEF Offers, Told, Last
  <1> QED
    BY <1>1, <1>2, <1>3

\* What the queue of q holds after a step.
LEMMA QueuedThen ==
    ASSUME NEW q \in Procs
    PROVE  /\ OwnStep(q) \/ Away(q) => Queued(q)' \subseteq Queued(q)
           /\ \A e : Gets(q, e) => Queued(q)' \subseteq Queued(q) \cup {e}
           /\ \A e : Gets(q, e) => Queued(q) \subseteq Queued(q)'
  <1>1. Unread(q) => Queued(q)' = Queued(q)
    BY DEF Unread
  <1>2. TakesHead(q) => Queued(q)' \subseteq Queued(q)
    BY DEF TakesHead
  <1>3. OwnStep(q) \/ Away(q) => Unread(q) \/ TakesHead(q)
    BY DEF OwnStep, Sets, Begins, FailsToBegin, Sends, GoesOn, Reads, Ends,
           PassesOver, Returns, Away
  <1> QED
    BY <1>1, <1>2, <1>3 DEF Gets

LEMMA QueuedIsTrueStep ==
    ASSUME TypeInv, OpenOnce, NEW q \in Procs,
           OwnStep(q) \/ Away(q) \/ ControllerStep(q), QueuedIsTrue(q)
    PROVE  QueuedIsTrue(q)'
  <1>1. \A e \in Queued(q) : Told(e)'
    BY ToldStays DEF QueuedIsTrue
  <1>2. CASE OwnStep(q) \/ Away(q)
    BY <1>1, <1>2, QueuedThen DEF QueuedIsTrue
  <1>3. ASSUME NEW e \in Event,
               \/ \E c \in Command : Completes(q, c, e) \/ Accepts(q, c, e)
               \/ Offers(q, e)
        PROVE  QueuedIsTrue(q)'
    <2>1. Told(e)'
      BY <1>3, ToldBegins
    <2>2. Queued(q)' \subseteq Queued(q) \cup {e}
      BY <1>3, QueuedThen DEF Completes, Accepts, Offers
    <2> QED
      BY <1>1, <2>1, <2>2 DEF QueuedIsTrue
  <1> QED
    BY <1>2, <1>3 DEF ControllerStep

LEMMA FinalIsTrueStep ==
    ASSUME TypeInv, OpenOnce, NEW q \in Procs,
           OwnStep(q) \/ Away(q) \/ ControllerStep(q),
           QueuedIsTrue(q), FinalIsTrue(q)
    PROVE  FinalIsTrue(q)'
  <1>1. PICK f : f = final'[q]
    OBVIOUS
  <1>2. \/ f = NoEvent \/ f = final[q]
        \/ f \in Queued(q)
    BY <1>1 DEF OwnStep, Sets, Begins, FailsToBegin, Sends, GoesOn, Reads,
       Ends,
         PassesOver, Returns, Away, ControllerStep, Completes, Accepts, Offers,
         Same, TakesHead
  <1>3. f # NoEvent => Told(f)
    BY <1>2 DEF QueuedIsTrue, FinalIsTrue
  <1>4. f # NoEvent => Told(f)'
    BY <1>3, ToldStays
  <1> QED
    BY <1>1, <1>4 DEF FinalIsTrue, Told

LEMMA LastIsLastStep ==
    ASSUME TypeInv, OpenOnce, NEW q \in Procs,
           OwnStep(q) \/ Away(q) \/ ControllerStep(q),
           QueuedIsTrue(q), LastIsLast(q)
    PROVE  LastIsLast(q)'
  <1>1. rxq[q] \in Seq(Event)
    BY Functions
  <1>2. CASE Unread(q)
    BY <1>2 DEF Unread, LastIsLast, Ordered
  <1>3. CASE TakesHead(q)
    BY <1>1, <1>3, TailOrdered DEF TakesHead, LastIsLast, Ordered
  <1>4. ASSUME NEW e \in Event, Gets(q, e),
               \A x \in Queued(q) : Last(x) => e.id # x.id
        PROVE  LastIsLast(q)'
    <2>1. Ordered(Append(rxq[q], e))
      BY <1>1, <1>4, AppendOrdered DEF LastIsLast, Queued
    <2> QED
      BY <1>2, <1>4, <2>1 DEF Gets, LastIsLast, Ordered
  <1>5. ASSUME NEW c \in Command, NEW e \in Event,
               Completes(q, c, e) \/ Accepts(q, c, e)
        PROVE  LastIsLast(q)'
    <2>1. e.id = c.id /\ outcome[c.id] = "none" /\ Gets(q, e)
      BY <1>5 DEF Completes, Accepts, Ending, OpenOnce
    <2>2. \A x \in Queued(q) : Last(x) => outcome[x.id] # "none"
      BY DEF QueuedIsTrue, Told
    <2> QED
      BY <1>4, <2>1, <2>2
  <1>6. ASSUME NEW e \in Event, Offers(q, e)
        PROVE  LastIsLast(q)'
    BY <1>4, <1>6 DEF Offers, Last
  <1>7. CASE OwnStep(q) \/ Away(q)
    <2>1. Unread(q) \/ TakesHead(q)
      BY <1>7 DEF OwnStep, Sets, Begins, FailsToBegin, Sends, GoesOn, Reads,
                  Ends, PassesOver, Returns, Away
    <2> QED
      BY <1>2, <1>3, <2>1
  <1> QED
    BY <1>5, <1>6, <1>7 DEF ControllerStep

\* The command of a request under way is one of the process.
LEMMA OwnCommand ==
    ASSUME TypeInv, CommandIssued, NEW q \in Procs, pc[q] # "idle"
    PROVE  cmd[q] \in Command /\ cmd[q].id \in Own(q)
  <1>1. cmd[q] \in Command /\ cmd[q].id = <<q, calls[q]>>
    BY DEF TypeInv, CommandKnown, CommandIssued
  <1> QED
    BY <1>1 DEF Command, Ids, Own

LEMMA OfRequestStep ==
    ASSUME TypeInv, CommandIssued, NEW q \in Procs,
           OwnStep(q) \/ Away(q) \/ ControllerStep(q), OfRequest(q)
    PROVE  OfRequest(q)'
  <1>1. CASE Sets(q) \/ FailsToBegin(q) \/ Reads(q) \/ Returns(q)
    BY <1>1 DEF Sets, FailsToBegin, Reads, Same, Returns, OfRequest
  <1>2. CASE Begins(q)
    BY <1>2, OpenWritten DEF Begins, Kept, OfRequest
  <1>3. CASE Sends(q)
    BY <1>3 DEF Sends, OfRequest
  <1>4. CASE GoesOn(q) \/ Ends(q) \/ PassesOver(q)
    BY <1>4 DEF GoesOn, Ends, PassesOver, Kept, OfRequest
  <1>5. CASE Away(q)
    BY <1>5, OwnCommand DEF Away, Same, OfRequest
  <1>6. CASE ControllerStep(q)
    <2>1. Same(q) /\ Open' \subseteq Open
      BY <1>6 DEF ControllerStep, Completes, Accepts, Offers
    <2> QED
      BY <2>1 DEF Same, OfRequest
  <1> QED
    BY <1>1, <1>2, <1>3, <1>4, <1>5, <1>6 DEF OwnStep

LEMMA EndedByStep ==
    ASSUME TypeInv, CommandIssued, NEW q \in Procs,
           OwnStep(q) \/ Away(q) \/ ControllerStep(q), EndedBy(q)
    PROVE  EndedBy(q)'
  <1>1. CASE Same(q)
    BY <1>1 DEF Same, EndedBy
  <1>2. CASE Away(q) \/ ControllerStep(q) \/ Reads(q)
    <2>1. Same(q)
      BY <1>2 DEF Away, ControllerStep, Completes, Accepts, Offers, Reads
    <2> QED
      BY <1>1, <2>1
  <1>3. CASE Sets(q)
    BY <1>3 DEF Sets, EndedBy
  <1>4. CASE Begins(q) \/ FailsToBegin(q)
    BY <1>4 DEF Begins, FailsToBegin, EndedBy
  <1>5. CASE Sends(q)
    BY <1>5 DEF Sends, EndedBy
  <1>6. CASE GoesOn(q)
    BY <1>6 DEF GoesOn, EndedBy
  <1>7. CASE PassesOver(q)
    BY <1>7 DEF PassesOver, EndedBy
  <1>8. CASE Ends(q)
    <2>1. final[q] = NoEvent /\ errno[q] # "EIO"
      BY <1>8 DEF Ends, EndedBy
    <2>2. Refuses(cmd[q], Head(rxq[q])) => Head(rxq[q]).status # 0
      BY DEF Refuses
    <2> QED
      BY <1>8, <2>1, <2>2 DEF Ends, EndedBy
  <1>9. CASE Returns(q)
    <2>1. /\ pc[q] = "end" /\ pc'[q] = "idle"
          /\ cmd'[q] = cmd[q] /\ final'[q] = final[q]
      BY <1>9 DEF Returns
    <2>2. SUFFICES ASSUME final[q] # NoEvent PROVE EndedBy(q)'
      BY <2>1 DEF EndedBy
    <2>3. /\ cmd[q] \in Command
          /\ Answers(cmd[q], final[q]) \/ Refuses(cmd[q], final[q])
          /\ errno[q] = "EIO" => final[q].status # 0
      BY <2>2 DEF EndedBy
    <2>4. Answers(cmd[q], final[q]) => StatusRead(q) = {final[q].status}
      BY <2>2 DEF StatusRead, Answered
    <2>5. errno'[q] = "EIO" => final[q].status # 0
      <3>1. CASE Answers(cmd[q], final[q])
        BY <1>9, <2>3, <2>4, <3>1 DEF Returns
      <3>2. CASE ~Answers(cmd[q], final[q])
        BY <2>3, <3>2 DEF Refuses
      <3> QED
        BY <3>1, <3>2
    <2>6. result'[q] = "ok" /\ cmd[q].req.checked /\ Answers(cmd[q], final[q])
             => final[q].status = 0
      BY <1>9, <2>4 DEF Returns
    <2> QED
      BY <2>1, <2>2, <2>3, <2>5, <2>6 DEF EndedBy
  <1> QED
    BY <1>2, <1>3, <1>4, <1>5, <1>6, <1>7, <1>8, <1>9 DEF OwnStep

\* A refusal, or an answer, ends its command for good.
LEMMA EndingIsLast ==
    ASSUME NEW c \in Command, NEW e \in Event, e.id # NoId,
           Answers(c, e) \/ Refuses(c, e)
    PROVE  Last(e)
  <1>1. c.req.event # EVT_CMD_STATUS
    BY EventsAssumption DEF Command
  <1> QED
    BY <1>1 DEF Answers, Refuses, Last, EVT_CMD_STATUS, EVT_CMD_COMPLETE,
                EVT_REMOTE_NAME_REQ_COMPLETE, EVT_LE_META_EVENT

LEMMA NothingBehindStep ==
    ASSUME TypeInv, CommandIssued, OpenOnce, NEW q \in Procs,
           OwnStep(q) \/ Away(q) \/ ControllerStep(q),
           QueuedIsTrue(q), LastIsLast(q), EndedBy(q), NothingBehind(q)
    PROVE  NothingBehind(q)'
  <1> DEFINE Behind(i) == outcome[i] # "none" /\ \A e \in Queued(q) : e.id # i
  <1>1. Own(q) \subseteq Ids /\ NoId \notin Ids
    BY NoiseAssumption DEF Own, Ids
  <1>2. \A i \in Own(q) : Over(q, i) => Behind(i)
    BY DEF NothingBehind
  <1>3. ASSUME NEW i \in Own(q), Behind(i), OwnStep(q) \/ Away(q)
        PROVE  Behind(i)'
    BY <1>1, <1>3, Settled, QueuedThen
  <1>4. SUFFICES ASSUME NEW i \in Own(q), Over(q, i)'
                 PROVE  Behind(i)'
    BY DEF NothingBehind
  <1>5. CASE Sets(q) \/ FailsToBegin(q) \/ Reads(q)
    <2>1. Over(q, i) /\ OwnStep(q)
      BY <1>4, <1>5
      DEF Over, Sets, FailsToBegin, Reads, Same, Kept, OwnStep
    <2> QED
      BY <1>2, <1>3, <2>1
  <1>6. CASE Begins(q)
    <2>1. Over(q, i) /\ OwnStep(q)
      BY <1>4, <1>6 DEF Over, Begins, Kept, OwnStep
    <2> QED
      BY <1>2, <1>3, <2>1
  <1>7. CASE Sends(q) \/ GoesOn(q) \/ PassesOver(q)
    <2>1. final[q] = NoEvent
      BY <1>7 DEF Sends, GoesOn, PassesOver, EndedBy
    <2>2. Over(q, i) /\ OwnStep(q)
      BY <1>4, <1>7, <2>1
      DEF Over, Sends, GoesOn, PassesOver, Kept, OwnStep
    <2> QED
      BY <1>2, <1>3, <2>2
  <1>8. CASE Ends(q)
    <2>1. /\ i \in Written \ abandoned
          /\ i # cmd[q].id \/ Head(rxq[q]).id = i
          /\ OwnStep(q) /\ TakesHead(q)
      BY <1>4, <1>8 DEF Over, Ends, Kept, OwnStep
    <2>2. CASE i # cmd[q].id
      BY <1>2, <1>3, <2>1, <2>2 DEF Over
    <2>3. CASE Head(rxq[q]).id = i
      <3> DEFINE h == Head(rxq[q])
      <3>1. h \in Event /\ h.id # NoId /\ h \in Queued(q)
        BY <1>1, <2>1, <2>3 DEF TakesHead
      <3>2. Last(h)
        BY <1>8, <3>1, EndingIsLast DEF Ends
      <3>3. outcome[i] # "none"
        BY <2>3, <3>1, <3>2 DEF QueuedIsTrue, Told
      <3>4. \A x \in Queued(q)' : x.id # i
        <4>1. rxq[q] \in Seq(Event) /\ rxq[q] # <<>> /\ Ordered(rxq[q])
              /\ rxq'[q] = Tail(rxq[q])
          BY <2>1, Functions DEF TakesHead, LastIsLast
        <4>2. \A x \in Elements(Tail(rxq[q])) : x.id # h.id
          BY <3>2, <4>1, TailOrdered
        <4> QED
          BY <2>3, <4>1, <4>2 DEF Queued
      <3>5. outcome'[i] = outcome[i]
        BY <1>8 DEF Ends, Kept
      <3> QED
        BY <3>3, <3>4, <3>5
    <2> QED
      BY <2>1, <2>2, <2>3
  <1>9. CASE Returns(q)
    <2>1. Over(q, i) /\ OwnStep(q)
      BY <1>4, <1>9 DEF Over, Returns, Kept, OwnStep
    <2> QED
      BY <1>2, <1>3, <2>1
  <1>10. CASE Away(q)
    <2>1. Over(q, i)
      BY <1>4, <1>10 DEF Over, Away, Same
    <2> QED
      BY <1>2, <1>3, <1>10, <2>1
  <1>11. ASSUME NEW e \in Event,
                \/ \E c \in Command : Completes(q, c, e) \/ Accepts(q, c, e)
                \/ Offers(q, e)
         PROVE  Behind(i)'
    <2>1. Over(q, i)
      BY <1>4, <1>11 DEF Over, Completes, Accepts, Offers, Same
    <2>2. e.id # i
      <3>1. ASSUME NEW c \in Command, Completes(q, c, e) \/ Accepts(q, c, e)
            PROVE  e.id # i
        <4>1. e.id = c.id /\ outcome[c.id] = "none"
          BY <3>1 DEF Completes, Accepts, Ending, OpenOnce
        <4> QED
          BY <1>2, <2>1, <4>1
      <3> QED
        BY <1>1, <1>11, <3>1 DEF Offers
    <2>3. Queued(q)' \subseteq Queued(q) \cup {e}
      BY <1>11, QueuedThen DEF Completes, Accepts, Offers
    <2>4. outcome'[i] = outcome[i]
      BY <1>1, <1>2, <1>11, <2>1, Settled DEF ControllerStep
    <2> QED
      BY <1>2, <2>1, <2>2, <2>3, <2>4
  <1> QED
    BY <1>5, <1>6, <1>7, <1>8, <1>9, <1>10, <1>11 DEF OwnStep, ControllerStep

LEMMA NotStaleStep ==
    ASSUME TypeInv, CommandIssued, NEW q \in Procs,
           OwnStep(q) \/ Away(q) \/ ControllerStep(q),
           QueuedIsTrue(q), NothingBehind(q), NotStale(q)
    PROVE  NotStale(q)'
  <1>1. CASE Begins(q) \/ FailsToBegin(q)
    BY <1>1 DEF Begins, FailsToBegin, NotStale
  <1>2. CASE Ends(q)
    <2> DEFINE h == Head(rxq[q])
    <2>1. h \in Queued(q) /\ final'[q] = h /\ cmd'[q] = cmd[q]
          /\ abandoned' = abandoned
      BY <1>2 DEF Ends, TakesHead
    <2>2. SUFFICES ASSUME h.id \in Own(q), h.id \notin abandoned,
                          h.id # cmd[q].id
                   PROVE  FALSE
      BY <2>1 DEF NotStale
    <2>3. h.id \in Written
      <3>1. h.id # NoId
        BY <2>2, NoiseAssumption DEF Own, Ids
      <3> QED
        BY <2>1, <3>1 DEF QueuedIsTrue, Told
    <2>4. Over(q, h.id)
      BY <2>2, <2>3 DEF Over
    <2> QED
      BY <2>1, <2>2, <2>4 DEF NothingBehind
  <1>3. CASE \/ Sets(q) \/ Sends(q) \/ GoesOn(q) \/ Reads(q) \/ PassesOver(q)
             \/ Returns(q) \/ Away(q) \/ ControllerStep(q)
    <2>1. /\ final'[q] = final[q] /\ cmd'[q] = cmd[q]
          /\ \A i \in Own(q) : i \in abandoned => i \in abandoned'
      BY <1>3 DEF Sets, Sends, GoesOn, Reads, PassesOver, Returns, Away,
         ControllerStep, Completes, Accepts, Offers, Same
    <2> QED
      BY <2>1 DEF NotStale
  <1> QED
    BY <1>1, <1>2, <1>3 DEF OwnStep

LEMMA HeardStep ==
    ASSUME TypeInv, CommandIssued, OpenOnce, NEW q \in Procs,
           OwnStep(q) \/ Away(q) \/ ControllerStep(q),
           OfRequest(q), Heard(q)
    PROVE  Heard(q)'
  <1> DEFINE Found == \E e \in Queued(q) :
                 e.id = cmd[q].id /\ (Answers(cmd[q], e) \/ Refuses(cmd[q], e))
  <1>1. SUFFICES ASSUME pc'[q] \in {"check", "select"},
                        outcome'[cmd'[q].id] # "none",
                        cmd'[q].id \notin dropped'
                 PROVE  Found'
    BY DEF Heard
  <1>2. ASSUME pc[q] \in {"check", "select"}, outcome[cmd[q].id] # "none",
               cmd[q].id \notin dropped
        PROVE  Found
    BY <1>2 DEF Heard
  <1>3. CASE Sets(q) \/ FailsToBegin(q) \/ Reads(q) \/ Returns(q) \/ Begins(q)
             \/ Ends(q)
    BY <1>1, <1>3 DEF Sets, FailsToBegin, Reads, Same, Returns, Begins, Ends
  <1>4. CASE Sends(q)
    BY <1>1, <1>4 DEF Sends, Written, Own, Ids
  <1>5. CASE GoesOn(q) \/ Away(q)
    <2>1. /\ pc[q] \in {"check", "select"} /\ outcome' = outcome
          /\ dropped' = dropped /\ cmd'[q] = cmd[q] /\ Queued(q)' = Queued(q)
      BY <1>1, <1>5 DEF GoesOn, Kept, Away, Same, Unread
    <2> QED
      BY <1>1, <1>2, <2>1
  <1>6. CASE PassesOver(q)
    <2>1. /\ pc[q] = "select" /\ outcome' = outcome
          /\ dropped' = dropped /\ cmd'[q] = cmd[q]
          /\ Queued(q) = {Head(rxq[q])} \cup Queued(q)'
          /\ ~Answers(cmd[q], Head(rxq[q])) /\ ~Refuses(cmd[q], Head(rxq[q]))
      BY <1>6 DEF PassesOver, Kept, TakesHead
    <2> QED
      BY <1>1, <1>2, <2>1
  <1>7. ASSUME NEW e \in Event, Gets(q, e), Same(q)
        PROVE  /\ cmd'[q] = cmd[q] /\ pc[q] \in {"check", "select"}
               /\ Queued(q) \subseteq Queued(q)'
               /\ cmd[q].id \notin dropped
    BY <1>1, <1>7, QueuedThen DEF Gets, Same
  <1>8. ASSUME NEW c \in Command, NEW e \in Event, Completes(q, c, e)
        PROVE  Found'
    <2>1. /\ cmd'[q] = cmd[q] /\ pc[q] \in {"check", "select"}
          /\ Queued(q) \subseteq Queued(q)' /\ cmd[q].id \notin dropped
      BY <1>7, <1>8 DEF Completes
    <2>2. CASE outcome[cmd[q].id] # "none"
      BY <1>2, <2>1, <2>2
    <2>3. CASE outcome[cmd[q].id] = "none"
      <3>1. cmd[q].id = c.id
        <4>1. cmd[q].id \in Ids
          BY <2>1, OwnCommand DEF Command
        <4>2. outcome' = [outcome EXCEPT ![c.id] =
                             IF e.status = 0 THEN "ok" ELSE "refused"]
          BY <1>8 DEF Completes
        <4>3. outcome \in [Ids -> {"none", "ok", "refused"}]
          BY Functions
        <4> QED
          BY <1>1, <2>1, <2>3, <4>1, <4>2, <4>3
      <3>2. c = cmd[q] /\ filter[q] = RequestFilter(c.req)
        BY <1>8, <2>1, <3>1 DEF Completes, OfRequest
      <3>3. /\ e.id = c.id
            /\ Answers(c, e) \/ Refuses(c, e)
            /\ Passes(filter[q], e) /\ Gets(q, e)
        BY <1>8, <3>2 DEF Completes, Ending
      <3>4. e.id \in Own(q)
        BY <2>1, <3>2, <3>3, OwnCommand
      <3>5. e \in Queued(q)'
        BY <1>1, <2>1, <3>2, <3>3, <3>4 DEF Gets
      <3> QED
        BY <2>1, <3>2, <3>3, <3>5
    <2> QED
      BY <2>2, <2>3
  <1>9. ASSUME NEW e \in Event,
               (\E c \in Command : Accepts(q, c, e)) \/ Offers(q, e)
        PROVE  Found'
    <2>1. /\ cmd'[q] = cmd[q] /\ pc[q] \in {"check", "select"}
          /\ Queued(q) \subseteq Queued(q)' /\ cmd[q].id \notin dropped
          /\ outcome' = outcome
      BY <1>7, <1>9 DEF Accepts, Offers
    <2> QED
      BY <1>1, <1>2, <2>1
  <1> QED
    BY <1>3, <1>4, <1>5, <1>6, <1>8, <1>9 DEF OwnStep, ControllerStep

-----------------------------------------------------------------------------
(* The theorems                                                            *)

LEMMA AnswersInvInit == Init => AnswersInv
  <1> SUFFICES ASSUME Init PROVE AnswersInv
    OBVIOUS
  <1>1. /\ Elements(cmdq) = {} /\ Open = {} /\ Written = {}
        /\ \A p \in Procs : Queued(p) = {}
    BY DEF Init, Elements, Open, Written, Queued
  <1>2. OpenOnce
    BY <1>1 DEF Init, OpenOnce
  <1>3. \A p \in Procs : LastIsLast(p)
    BY DEF Init, LastIsLast, Ordered
  <1>4. \A p \in Procs : OfRequest(p) /\ QueuedIsTrue(p) /\ FinalIsTrue(p)
    BY <1>1 DEF Init, OfRequest, QueuedIsTrue, FinalIsTrue
  <1>5. \A p \in Procs : EndedBy(p) /\ NothingBehind(p) /\ NotStale(p)
    BY <1>1 DEF Init, EndedBy, NothingBehind, Over, NotStale
  <1>6. \A p \in Procs : Heard(p)
    BY DEF Init, Heard
  <1> QED
    BY <1>2, <1>3, <1>4, <1>5, <1>6 DEF AnswersInv

LEMMA AnswersInvStep ==
    TypeInv /\ CommandIssued /\ AnswersInv /\ [Next]_vars => AnswersInv'
  <1> SUFFICES ASSUME TypeInv, CommandIssued, AnswersInv, [Next]_vars
               PROVE  AnswersInv'
    OBVIOUS
  <1>1. OpenOnce /\ OpenOnce'
    BY OpenOnceStep DEF AnswersInv
  <1>2. ASSUME NEW q \in Procs
        PROVE  /\ OfRequest(q)' /\ QueuedIsTrue(q)' /\ FinalIsTrue(q)'
               /\ LastIsLast(q)' /\ EndedBy(q)' /\ NothingBehind(q)'
               /\ NotStale(q)' /\ Heard(q)'
    <2>1. OwnStep(q) \/ Away(q) \/ ControllerStep(q)
      BY <1>1, StepEffect
    <2>2. /\ OfRequest(q) /\ QueuedIsTrue(q) /\ FinalIsTrue(q)
          /\ LastIsLast(q) /\ EndedBy(q) /\ NothingBehind(q)
          /\ NotStale(q) /\ Heard(q)
      BY DEF AnswersInv
    <2>3. OfRequest(q)' /\ Heard(q)'
      BY <1>1, <2>1, <2>2, OfRequestStep, HeardStep
    <2>4. QueuedIsTrue(q)' /\ FinalIsTrue(q)' /\ LastIsLast(q)'
      BY <1>1, <2>1, <2>2, QueuedIsTrueStep, FinalIsTrueStep, LastIsLastStep
    <2>5. EndedBy(q)' /\ NothingBehind(q)' /\ NotStale(q)'
      BY <1>1, <2>1, <2>2, EndedByStep, NothingBehindStep, NotStaleStep
    <2> QED
      BY <2>3, <2>4, <2>5
  <1> QED
    BY <1>1, <1>2 DEF AnswersInv

LEMMA AnswersInvCorrect == Spec => []AnswersInv
  BY AnswersInvInit, AnswersInvStep, TypeInvCorrect, CommandIssuedCorrect, PTL
  DEF Spec

\* The filter is in place before the command is written (hci.c:1154), so the
\* answer to a command whose request still waits is in the queue, unless the
\* queue was full when it came.
THEOREM AnswersAreHeard == Spec => []NoLostAnswer
  <1>1. AnswersInv => NoLostAnswer
    BY DEF AnswersInv, Heard, NoLostAnswer, Queued, Elements
  <1> QED
    BY <1>1, AnswersInvCorrect, PTL

\* No request is ended by the answer to an earlier one of its process, but to
\* one that had given up on it.
THEOREM AnswersAreFresh == Spec => []NoStaleAnswer
  <1>1. AnswersInv => NoStaleAnswer
    BY DEF AnswersInv, NotStale, NoStaleAnswer, Own
  <1> QED
    BY <1>1, AnswersInvCorrect, PTL

\* A wrapper reports the success of a command that the controller carried out,
\* and raises EIO over one that it refused, if an answer ended the request.
THEOREM VerdictsAreTrue == Spec => []VerdictIsControllers
  <1>1. TypeInv /\ AnswersInv => VerdictIsControllers
    <2> SUFFICES ASSUME TypeInv, AnswersInv, NEW p \in Procs, pc[p] = "idle",
                        final[p] # NoEvent, final[p].id # NoId
                 PROVE  /\ (result[p] = "ok" /\ cmd[p].req.checked
                              /\ Answered(p)) => outcome[final[p].id] = "ok"
                        /\ errno[p] = "EIO" => outcome[final[p].id] = "refused"
      BY DEF VerdictIsControllers
    <2>1. final[p] \in Event /\ cmd[p] \in Command /\ EndedBy(p)
      BY Functions DEF AnswersInv, EndedBy
    <2>2. Last(final[p])
      BY <2>1, EndingIsLast DEF EndedBy
    <2>3. outcome[final[p].id] =
             IF final[p].status = 0 THEN "ok" ELSE "refused"
      BY <2>2 DEF AnswersInv, FinalIsTrue, Told
    <2> QED
      BY <2>1, <2>3 DEF EndedBy, Answered
  <1> QED
    BY <1>1, AnswersInvCorrect, TypeInvCorrect, PTL

-----------------------------------------------------------------------------
(* The refinement of HciExchange                                           *)

\* What is left of a request, from the place where it is: the event that ended
\* it is set with the label "end", a failure is returned only by the paths
\* that have read none, and success without an event only by a failed read.
Path(p) ==
    /\ pc[p] \in {"send", "check", "select"} =>
         final[p] = NoEvent /\ ret[p] = 0
    /\ pc[p] = "end" => \/ ret[p] = 0 /\ final[p] # NoEvent
                        \/ ret[p] = -1 /\ final[p] = NoEvent
                        \/ /\ ret[p] = 0 /\ final[p] = NoEvent
                           /\ Faults \cap {"select", "read"} # {}

PathInv == \A p \in Procs : Path(p)

\* A step of one process leaves these of the others alone.
Leaves(q) ==
    /\ pc'[q] = pc[q] /\ cmd'[q] = cmd[q] /\ of'[q] = of[q]
    /\ ret'[q] = ret[q] /\ errno'[q] = errno[q] /\ final'[q] = final[q]
    /\ result'[q] = result[q] /\ filter'[q] = filter[q] /\ rxq'[q] = rxq[q]

\* The types that are needed beside those of Functions.
LEMMA MoreFunctions ==
    ASSUME TypeInv
    PROVE  /\ of \in [Procs -> Filter]
           /\ ret \in [Procs -> {0, -1}]
  BY DEF TypeInv, TypeOK

\* A step of one process leaves the others as they are.
LEMMA LeavesOthers ==
    ASSUME TypeInv, NEW p \in Procs, NEW q \in Procs, p # q,
           \/ \E f \in CallerFilters : SetFilter(p, f)
           \/ ReadBetween(p)
           \/ \E r \in Requests, a \in Args : Begin(p, r, a)
           \/ BeginFails(p) \/ Step(p) \/ Tick(p)
    PROVE  Leaves(q)
  <1>1. CASE \E f \in CallerFilters : SetFilter(p, f)
    BY <1>1, Functions DEF SetFilter, procVars, netVars, Leaves
  <1>2. CASE ReadBetween(p)
    BY <1>2, Functions DEF ReadBetween, procVars, Leaves
  <1>3. CASE \E r \in Requests, a \in Args : Begin(p, r, a)
    BY <1>3, Functions, MoreFunctions DEF Begin, Goto, netVars, Leaves
  <1>4. CASE BeginFails(p)
    BY <1>4, Functions, MoreFunctions DEF BeginFails, netVars, Leaves
  <1>5. CASE Send(p) \/ SendFails(p)
    BY <1>5, Functions, MoreFunctions DEF Send, SendFails, Goto, netVars, Leaves
  <1>6. CASE TimeOut(p) \/ Proceed(p)
    BY <1>6, Functions, MoreFunctions
    DEF TimeOut, Proceed, Goto, netVars, Leaves
  <1>7. CASE SelectAgain(p) \/ ReceiveFails(p)
    BY <1>7, Functions, MoreFunctions
    DEF SelectAgain, ReceiveFails, Goto, netVars, Leaves
  <1>8. CASE Receive(p)
    <2>1. /\ rxq' = [rxq EXCEPT ![p] = Tail(@)]
          /\ UNCHANGED <<cmd, of, ret, result, filter>>
      BY <1>8 DEF Receive
    <2>2. /\ final'[q] = final[q] /\ errno'[q] = errno[q] /\ pc'[q] = pc[q]
      BY <1>8, Functions DEF Receive, Goto
    <2> QED
      BY <2>1, <2>2, Functions DEF Leaves
  <1>9. CASE Return(p)
    <2>1. UNCHANGED <<cmd, of, ret, final, rxq>>
      BY <1>9 DEF Return, netVars
    <2>2. /\ filter'[q] = filter[q] /\ errno'[q] = errno[q] /\ pc'[q] = pc[q]
          /\ result'[q] = result[q]
      BY <1>9, Functions DEF Return, Restore, Goto
    <2> QED
      BY <2>1, <2>2 DEF Leaves
  <1>10. CASE Tick(p)
    BY <1>10 DEF Tick, netVars, Leaves
  <1> QED
    BY <1>1, <1>2, <1>3, <1>4, <1>5, <1>6, <1>7, <1>8, <1>9, <1>10 DEF Step

\* The steps of the clock and of the controller move no process.
LEMMA EnvironmentLeaves ==
    ASSUME Environment
    PROVE  UNCHANGED <<pc, cmd, of, ret, errno, final, result, filter>>
  BY DEF Environment, SetClockBack, Refuse, Execute, Accept, Complete,
         Unsolicited, procVars

\* A request takes one of these paths, whatever fails.
LEMMA PathStep == TypeInv /\ PathInv /\ [Next]_vars => PathInv'
  <1> SUFFICES ASSUME TypeInv, PathInv, [Next]_vars, NEW q \in Procs
               PROVE  Path(q)'
    BY DEF PathInv
  <1>1. Path(q) /\ NoEvent \notin Event
    BY NoiseAssumption DEF PathInv
  <1>2. ASSUME Leaves(q)
        PROVE  Path(q)'
    BY <1>1, <1>2 DEF Leaves, Path
  <1>3. ASSUME \/ \E f \in CallerFilters : SetFilter(q, f)
               \/ ReadBetween(q) \/ BeginFails(q)
        PROVE  Path(q)'
    <2>1. pc'[q] = "idle"
      BY <1>3 DEF SetFilter, ReadBetween, BeginFails, procVars
    <2> QED
      BY <2>1 DEF Path
  <1>4. ASSUME NEW r \in Requests, NEW a \in Args, Begin(q, r, a)
        PROVE  Path(q)'
    <2>1. pc'[q] = "send" /\ final'[q] = NoEvent /\ ret'[q] = 0
      BY <1>4, Functions, MoreFunctions DEF Begin, Goto
    <2> QED
      BY <2>1 DEF Path
  <1>5. CASE Send(q) \/ Proceed(q) \/ SelectAgain(q)
    <2>1. /\ pc[q] \in {"send", "check", "select"}
          /\ pc'[q] \in {"check", "select"}
          /\ final' = final /\ ret' = ret
      BY <1>5, Functions DEF Send, Proceed, SelectAgain, Goto
    <2> QED
      BY <1>1, <2>1 DEF Path
  <1>6. CASE SendFails(q) \/ TimeOut(q)
    <2>1. /\ pc[q] \in {"send", "check"}
          /\ pc'[q] = "end" /\ final' = final /\ ret'[q] = -1
      BY <1>6, Functions, MoreFunctions DEF SendFails, TimeOut, Goto
    <2> QED
      BY <1>1, <2>1 DEF Path
  <1>7. CASE ReceiveFails(q)
    <2>1. /\ pc[q] = "select" /\ pc'[q] = "end"
          /\ final' = final /\ ret' = ret
          /\ Faults \cap {"select", "read"} # {}
      BY <1>7, Functions DEF ReceiveFails, Goto
    <2> QED
      BY <1>1, <2>1 DEF Path
  <1>8. CASE Receive(q)
    <2>1. /\ pc[q] = "select" /\ ret' = ret
          /\ \/ pc'[q] = "end" /\ final'[q] = Head(rxq[q])
             \/ pc'[q] = "check" /\ final' = final
      BY <1>8, Functions DEF Receive, Goto
    <2>2. Head(rxq[q]) # NoEvent
      BY <1>1, <1>8, Functions DEF Receive
    <2> QED
      BY <1>1, <2>1, <2>2 DEF Path
  <1>9. CASE Return(q)
    <2>1. pc'[q] = "idle"
      BY <1>9, Functions DEF Return, Goto
    <2> QED
      BY <2>1 DEF Path
  <1>10. CASE Tick(q) \/ Environment \/ UNCHANGED vars
    <2>1. UNCHANGED <<pc, ret, final>>
      BY <1>10, EnvironmentLeaves DEF Tick, vars, procVars
    <2> QED
      BY <1>1, <2>1 DEF Path
  <1>11. ASSUME NEW p \in Procs,
                \/ \E f \in CallerFilters : SetFilter(p, f)
                \/ ReadBetween(p)
                \/ \E r \in Requests, a \in Args : Begin(p, r, a)
                \/ BeginFails(p) \/ Step(p) \/ Tick(p)
         PROVE  Path(q)'
    <2>1. CASE p # q
      BY <1>2, <1>11, <2>1, LeavesOthers
    <2>2. CASE p = q
      BY <1>3, <1>4, <1>5, <1>6, <1>7, <1>8, <1>9, <1>10, <1>11, <2>2 DEF Step
    <2> QED
      BY <2>1, <2>2
  <1> QED
    BY <1>10, <1>11 DEF Next

\* ... and so it always does.
LEMMA PathCorrect == Spec => []PathInv
  <1>1. Init => PathInv
    BY DEF Init, PathInv, Path
  <1> QED
    BY <1>1, PathStep, TypeInvCorrect, PTL DEF Spec

-----------------------------------------------------------------------------
(* The abstract state of a process                                         *)

AsksOf(p) == IF pc[p] = "idle" THEN NoId ELSE cmd[p]

AbstractAsks == [p \in Procs |-> AsksOf(p)]
AbstractQueue == [p \in Procs |-> QueueOf(p)]
AbstractVerdict == [p \in Procs |-> VerdictOf(p)]

\* The abstract state of process q does not change.
Seen(q) ==
    /\ AsksOf(q)' = AsksOf(q) /\ Owned(q)' = Owned(q)
    /\ QueueOf(q)' = QueueOf(q) /\ VerdictOf(q)' = VerdictOf(q)

\* A step of p changes that of p only.
Alone(p) == \A q \in Procs \ {p} : Seen(q)

\* What a step leaves as it is looks the same.
LEMMA LeavesSeen ==
    ASSUME NEW q \in Procs, Leaves(q)
    PROVE  Seen(q)
  BY DEF Leaves, Seen, AsksOf, Owned, QueueOf, VerdictOf

\* So each step of a process is seen at that process only.
LEMMA StepAlone ==
    ASSUME TypeInv, NEW p \in Procs,
           \/ \E f \in CallerFilters : SetFilter(p, f)
           \/ ReadBetween(p)
           \/ \E r \in Requests, a \in Args : Begin(p, r, a)
           \/ BeginFails(p) \/ Step(p) \/ Tick(p)
    PROVE  Alone(p)
  BY LeavesOthers, LeavesSeen DEF Alone

\* The variables of HciExchange after such a step.
LEMMA AloneUpdates ==
    ASSUME NEW p \in Procs, Alone(p)
    PROVE  /\ AbstractAsks' = [AbstractAsks EXCEPT ![p] = AsksOf(p)']
           /\ AbstractOwned' = [AbstractOwned EXCEPT ![p] = Owned(p)']
           /\ AbstractQueue' = [AbstractQueue EXCEPT ![p] = QueueOf(p)']
           /\ AbstractVerdict' = [AbstractVerdict EXCEPT ![p] = VerdictOf(p)']
  <1>1. AbstractAsks' = [AbstractAsks EXCEPT ![p] = AsksOf(p)']
    BY DEF AbstractAsks, Alone, Seen
  <1>2. AbstractOwned' = [AbstractOwned EXCEPT ![p] = Owned(p)']
    BY DEF AbstractOwned, Alone, Seen
  <1>3. AbstractQueue' = [AbstractQueue EXCEPT ![p] = QueueOf(p)']
    BY DEF AbstractQueue, Alone, Seen
  <1>4. AbstractVerdict' = [AbstractVerdict EXCEPT ![p] = VerdictOf(p)']
    BY DEF AbstractVerdict, Alone, Seen
  <1> QED
    BY <1>1, <1>2, <1>3, <1>4

\* A step that is seen at no process is a stutter of HciExchange.
LEMMA AllSeen ==
    ASSUME \A q \in Procs : Seen(q)
    PROVE  UNCHANGED Exchange!xvars
  <1>1. /\ AbstractAsks' = AbstractAsks /\ AbstractOwned' = AbstractOwned
        /\ AbstractQueue' = AbstractQueue
        /\ AbstractVerdict' = AbstractVerdict
    BY DEF AbstractAsks, AbstractOwned, AbstractQueue, AbstractVerdict, Seen
  <1> QED
    BY <1>1 DEF Exchange!xvars, AbstractAsks, AbstractOwned, AbstractQueue,
                AbstractVerdict, AsksOf

\* What the functions are where nothing changes, and at one process.
LEMMA AbstractAt ==
    ASSUME NEW p \in Procs
    PROVE  /\ AbstractAsks[p] = AsksOf(p) /\ AbstractOwned[p] = Owned(p)
           /\ AbstractQueue[p] = QueueOf(p)
           /\ AbstractVerdict[p] = VerdictOf(p)
           /\ AbstractQueue'[p] = QueueOf(p)'
  BY DEF AbstractAsks, AbstractOwned, AbstractQueue, AbstractVerdict

\* A function does not change where its value is the same.
LEMMA SameUpdate ==
    ASSUME NEW p \in Procs
    PROVE  /\ [AbstractAsks EXCEPT ![p] = AsksOf(p)] = AbstractAsks
           /\ [AbstractOwned EXCEPT ![p] = Owned(p)] = AbstractOwned
           /\ [AbstractQueue EXCEPT ![p] = QueueOf(p)] = AbstractQueue
           /\ [AbstractVerdict EXCEPT ![p] = VerdictOf(p)] = AbstractVerdict
  BY DEF AbstractAsks, AbstractOwned, AbstractQueue, AbstractVerdict

-----------------------------------------------------------------------------
(* The steps of a process                                                  *)

\* The caller changes the filter, and that is its own filter.
LEMMA InstallsIt ==
    ASSUME TypeInv, NEW p \in Procs, NEW f \in CallerFilters, SetFilter(p, f)
    PROVE  Exchange!Install(p)
  <1>1. /\ pc[p] = "idle"
        /\ UNCHANGED <<pc, cmd, of, result, errno, final, rxq>>
        /\ filter' = [filter EXCEPT ![p] = f]
    BY DEF SetFilter, procVars, netVars
  <1>2. /\ AsksOf(p) = NoId /\ AsksOf(p)' = AsksOf(p) /\ Owned(p)' = f
        /\ QueueOf(p)' = QueueOf(p) /\ VerdictOf(p)' = VerdictOf(p)
    BY <1>1, Functions DEF AsksOf, Owned, QueueOf, VerdictOf
  <1>3. Alone(p)
    BY StepAlone
  <1>4. /\ AbstractAsks' = AbstractAsks /\ AbstractQueue' = AbstractQueue
        /\ AbstractVerdict' = AbstractVerdict
        /\ AbstractOwned' = [AbstractOwned EXCEPT ![p] = f]
        /\ AbstractAsks[p] = NoId
    BY <1>2, <1>3, AloneUpdates, SameUpdate, AbstractAt
  <1> QED
    BY <1>4 DEF Exchange!Install, Exchange!Idle, AbstractAsks, AsksOf,
                AbstractOwned, AbstractQueue, AbstractVerdict

\* The caller reads an event between two requests.
LEMMA ReadsOne ==
    ASSUME TypeInv, NEW p \in Procs, ReadBetween(p)
    PROVE  Exchange!ReadOne(p)
  <1>1. /\ pc[p] = "idle" /\ rxq[p] # <<>>
        /\ UNCHANGED <<pc, cmd, of, result, errno, final, filter>>
        /\ rxq' = [rxq EXCEPT ![p] = Tail(@)]
    BY DEF ReadBetween, procVars
  <1>2. /\ AsksOf(p) = NoId /\ AsksOf(p)' = AsksOf(p) /\ Owned(p)' = Owned(p)
        /\ QueueOf(p) # <<>> /\ QueueOf(p)' = Tail(QueueOf(p))
        /\ VerdictOf(p)' = VerdictOf(p)
    BY <1>1, Functions DEF AsksOf, Owned, QueueOf, VerdictOf
  <1>3. Alone(p)
    BY StepAlone
  <1>4. /\ AbstractAsks' = AbstractAsks /\ AbstractOwned' = AbstractOwned
        /\ AbstractVerdict' = AbstractVerdict
        /\ AbstractQueue' = [AbstractQueue EXCEPT ![p] = Tail(QueueOf(p))]
        /\ AbstractAsks[p] = NoId /\ AbstractQueue[p] = QueueOf(p)
    BY <1>2, <1>3, AloneUpdates, SameUpdate, AbstractAt
  <1>5. AbstractQueue' = [AbstractQueue EXCEPT ![p] = Tail(@)]
    BY <1>4
  <1> QED
    BY <1>2, <1>4, <1>5
    DEF Exchange!ReadOne, Exchange!Idle, AbstractAsks, AsksOf,
        AbstractOwned, AbstractQueue, AbstractVerdict

\* A request begins: the filter in force is that of the request.
LEMMA AsksForIt ==
    ASSUME TypeInv, [Next]_vars, NEW p \in Procs, NEW r \in Requests,
           NEW a \in Args, Begin(p, r, a)
    PROVE  Exchange!AskFor(p)
  <1>1. /\ pc[p] = "idle" /\ pc'[p] = "send"
        /\ of'[p] = filter[p] /\ rxq' = rxq
    BY Functions, MoreFunctions DEF Begin, Goto, netVars
  <1>2. cmd'[p] \in Command
    BY <1>1, TypeInvStep DEF TypeInv, CommandKnown
  <1>3. /\ AsksOf(p) = NoId /\ AsksOf(p)' = cmd'[p] /\ Owned(p)' = Owned(p)
        /\ QueueOf(p)' = QueueOf(p) /\ VerdictOf(p)' = "none"
    BY <1>1 DEF AsksOf, Owned, QueueOf, VerdictOf
  <1>4. Alone(p)
    BY StepAlone
  <1>5. /\ AbstractAsks' = [AbstractAsks EXCEPT ![p] = cmd'[p]]
        /\ AbstractVerdict' = [AbstractVerdict EXCEPT ![p] = "none"]
        /\ AbstractOwned' = AbstractOwned /\ AbstractQueue' = AbstractQueue
        /\ AbstractAsks[p] = NoId
    BY <1>3, <1>4, AloneUpdates, SameUpdate, AbstractAt
  <1> QED
    BY <1>2, <1>5
    DEF Exchange!AskFor, Exchange!Idle, AbstractAsks, AsksOf,
        AbstractOwned, AbstractQueue, AbstractVerdict

\* A request whose filter cannot be installed never begins.
LEMMA FailsToAsk ==
    ASSUME TypeInv, NEW p \in Procs, BeginFails(p)
    PROVE  Exchange!AskFails(p)
  <1>1. /\ pc[p] = "idle" /\ "filter" \in Faults
        /\ result'[p] = "failed" /\ errno'[p] = "other"
        /\ UNCHANGED <<pc, filter, rxq>>
    BY Functions DEF BeginFails, netVars
  <1>2. /\ AsksOf(p) = NoId /\ AsksOf(p)' = AsksOf(p) /\ Owned(p)' = Owned(p)
        /\ QueueOf(p)' = QueueOf(p) /\ VerdictOf(p)' = "other"
    BY <1>1 DEF AsksOf, Owned, QueueOf, VerdictOf
  <1>3. Alone(p)
    BY StepAlone
  <1>4. /\ AbstractAsks' = AbstractAsks /\ AbstractOwned' = AbstractOwned
        /\ AbstractVerdict' = [AbstractVerdict EXCEPT ![p] = "other"]
        /\ AbstractQueue' = AbstractQueue /\ AbstractAsks[p] = NoId
    BY <1>2, <1>3, AloneUpdates, SameUpdate, AbstractAt
  <1> QED
    BY <1>1, <1>4
    DEF Exchange!AskFails, Exchange!Idle, AbstractAsks, AsksOf,
        AbstractOwned, AbstractQueue, AbstractVerdict

\* The steps that show nothing: those before the last event is read, and the
\* one that reads it.
LEMMA StepUnseen ==
    ASSUME TypeInv, PathInv, NEW p \in Procs,
           \/ Send(p) \/ SendFails(p) \/ TimeOut(p) \/ Proceed(p)
           \/ SelectAgain(p) \/ ReceiveFails(p) \/ Tick(p)
    PROVE  UNCHANGED Exchange!xvars
  <1>1. /\ UNCHANGED <<cmd, of, result, final, filter, rxq>>
        /\ pc[p] # "idle" /\ pc'[p] # "idle"
        /\ final[p] = NoEvent \/ pc' = pc
    <2>1. CASE Send(p) \/ SendFails(p)
      BY <2>1, Functions DEF Send, SendFails, Goto, netVars, PathInv, Path
    <2>2. CASE TimeOut(p) \/ Proceed(p)
      BY <2>2, Functions DEF TimeOut, Proceed, Goto, netVars, PathInv, Path
    <2>3. CASE SelectAgain(p) \/ ReceiveFails(p)
      BY <2>3, Functions
      DEF SelectAgain, ReceiveFails, Goto, netVars, PathInv, Path
    <2>4. CASE Tick(p)
      BY <2>4 DEF Tick, netVars
    <2> QED
      BY <2>1, <2>2, <2>3, <2>4
  <1>2. Seen(p)
    BY <1>1 DEF Seen, AsksOf, Owned, QueueOf, VerdictOf
  <1>3. Alone(p)
    BY StepAlone DEF Step
  <1> QED
    BY <1>2, <1>3, AllSeen DEF Alone

\* An event before a queue, and one behind.
LEMMA InFront ==
    ASSUME NEW S, NEW s \in Seq(S), NEW e \in S
    PROVE  /\ <<e>> \o s # <<>>
           /\ Head(<<e>> \o s) = e /\ Tail(<<e>> \o s) = s
           /\ \A d \in S : Append(<<e>> \o s, d) = <<e>> \o Append(s, d)
  <1> DEFINE t == <<e>> \o s
  <1>1. /\ t \in Seq(S) /\ Len(t) = Len(s) + 1
        /\ t[1] = e
        /\ \A k \in 1 .. Len(s) : t[k + 1] = s[k]
    OBVIOUS
  <1> HIDE DEF t
  <1>2. t # <<>> /\ Head(t) = e
    BY <1>1
  <1>3. Tail(t) = s
    <2>1. /\ Tail(t) \in Seq(S) /\ Len(Tail(t)) = Len(s)
          /\ \A k \in 1 .. Len(s) : Tail(t)[k] = s[k]
      BY <1>1, <1>2
    <2> QED
      BY <2>1, SeqEqual
  <1>4. ASSUME NEW d \in S
        PROVE  Append(t, d) = <<e>> \o Append(s, d)
    <2>1. <<e>> \in Seq(S) /\ <<d>> \in Seq(S)
      OBVIOUS
    <2>2. Append(t, d) = t \o <<d>>
      BY <1>1, AppendIsConcat
    <2>3. Append(s, d) = s \o <<d>>
      BY AppendIsConcat
    <2>4. (<<e>> \o s) \o <<d>> = <<e>> \o (s \o <<d>>)
      BY <2>1, ConcatAssociative
    <2> QED
      BY <2>2, <2>3, <2>4 DEF t
  <1> QED
    BY <1>2, <1>3, <1>4 DEF t

\* A queue is its first event before the rest.
LEMMA HeadInFront ==
    ASSUME NEW S, NEW s \in Seq(S), s # <<>>
    PROVE  <<Head(s)>> \o Tail(s) = s
  <1>1. /\ Head(s) \in S /\ Tail(s) \in Seq(S) /\ Len(Tail(s)) = Len(s) - 1
        /\ Len(s) \in Nat \ {0} /\ Head(s) = s[1]
        /\ \A k \in 1 .. (Len(s) - 1) : Tail(s)[k] = s[k + 1]
    OBVIOUS
  <1> DEFINE h == Head(s)
             t == Tail(s)
  <1>2. /\ <<h>> \o t \in Seq(S) /\ Len(<<h>> \o t) = Len(s)
        /\ (<<h>> \o t)[1] = h
        /\ \A k \in 1 .. Len(t) : (<<h>> \o t)[k + 1] = t[k]
    <2> HIDE DEF h, t
    <2>1. h \in S /\ t \in Seq(S) /\ Len(s) = Len(t) + 1
      BY <1>1 DEF h, t
    <2> QED
      BY <2>1
  <1> HIDE DEF h, t
  <1>3. ASSUME NEW k \in 1 .. Len(s) PROVE (<<h>> \o t)[k] = s[k]
    <2>1. CASE k = 1
      BY <1>1, <1>2, <2>1 DEF h
    <2>2. CASE k # 1
      <3>1. k - 1 \in 1 .. Len(t) /\ (k - 1) + 1 = k
        BY <1>1, <2>2 DEF t
      <3> QED
        BY <1>1, <1>2, <3>1 DEF t
    <2> QED
      BY <2>1, <2>2
  <1>4. <<h>> \o t = s
    BY <1>2, <1>3, SeqEqual
  <1> QED
    BY <1>4 DEF h, t

\* The operators of HciPacket are the same on both sides.
LEMMA SamePackets ==
    ASSUME NEW c, NEW e, NEW f, NEW r
    PROVE  /\ Exchange!Answers(c, e) = Answers(c, e)
           /\ Exchange!Refuses(c, e) = Refuses(c, e)
           /\ Exchange!Passes(f, e) = Passes(f, e)
           /\ Exchange!RequestFilter(r) = RequestFilter(r)
  <1> USE DEF Exchange!EVT_CMD_COMPLETE, Exchange!EVT_CMD_STATUS,
              Exchange!EVT_LE_META_EVENT, Exchange!HCI_EVENT_PKT,
              Exchange!EVT_REMOTE_NAME_REQ_COMPLETE,
              EVT_CMD_COMPLETE, EVT_CMD_STATUS, EVT_LE_META_EVENT,
              EVT_REMOTE_NAME_REQ_COMPLETE, HCI_EVENT_PKT
  <1>1. Exchange!Answers(c, e) = Answers(c, e)
    BY Zenon DEF Exchange!Answers, Answers
  <1>2. Exchange!Refuses(c, e) = Refuses(c, e)
    BY Zenon DEF Exchange!Refuses, Refuses
  <1>3. \A n : Exchange!FilterBit(n) = FilterBit(n)
    BY DEF Exchange!FilterBit, FilterBit
  <1>4. Exchange!Passes(f, e) = Passes(f, e)
    BY <1>3, Zenon DEF Exchange!Passes, Passes
  <1>5. Exchange!RequestFilter(r) = RequestFilter(r)
    BY <1>3 DEF Exchange!RequestFilter, RequestFilter
  <1> QED
    BY <1>1, <1>2, <1>4, <1>5

\* An event that does not end the request is dropped; one that does stays
\* until the request returns.
LEMMA ReceiveSkips ==
    ASSUME TypeInv, PathInv, NEW p \in Procs, Receive(p)
    PROVE  Exchange!Skip(p) \/ UNCHANGED Exchange!xvars
  <1>1. /\ pc[p] = "select" /\ rxq[p] # <<>> /\ rxq'[p] = Tail(rxq[p])
        /\ UNCHANGED <<cmd, of, result, filter>>
        /\ rxq[p] \in Seq(Event)
    BY Functions DEF Receive
  <1>2. Alone(p)
    BY StepAlone DEF Step
  <1>3. cmd[p] \in Command /\ NoId \notin Command /\ NoEvent \notin Event
    BY <1>1, NoiseAssumption DEF TypeInv, CommandKnown
  <1>4. CASE pc'[p] = "end" /\ final'[p] = Head(rxq[p])
    <2>1. Head(rxq[p]) # NoEvent
      BY <1>1, <1>3
    <2>2. QueueOf(p) = rxq[p] /\ QueueOf(p)' = <<Head(rxq[p])>> \o Tail(rxq[p])
      BY <1>1, <1>4, <2>1 DEF QueueOf
    <2>3. QueueOf(p)' = QueueOf(p)
      BY <1>1, <2>2, HeadInFront
    <2>4. Seen(p)
      BY <1>1, <1>4, <2>3 DEF Seen, AsksOf, Owned, VerdictOf
    <2> QED
      BY <1>2, <2>4, AllSeen DEF Alone
  <1>5. CASE /\ pc'[p] = "check"
             /\ ~Answers(cmd[p], Head(rxq[p])) /\ ~Refuses(cmd[p], Head(rxq[p]))
    <2>1. /\ AsksOf(p) = cmd[p] /\ AsksOf(p)' = AsksOf(p)
          /\ Owned(p)' = Owned(p) /\ VerdictOf(p)' = VerdictOf(p)
          /\ QueueOf(p) = rxq[p] /\ QueueOf(p)' = Tail(QueueOf(p))
      BY <1>1, <1>5 DEF AsksOf, Owned, QueueOf, VerdictOf
    <2>2. /\ AbstractAsks' = AbstractAsks /\ AbstractOwned' = AbstractOwned
          /\ AbstractVerdict' = AbstractVerdict
          /\ AbstractQueue' = [AbstractQueue EXCEPT ![p] = Tail(QueueOf(p))]
          /\ AbstractAsks[p] = cmd[p] /\ AbstractQueue[p] = rxq[p]
      BY <1>2, <2>1, AloneUpdates, SameUpdate, AbstractAt
    <2>3. AbstractQueue' = [AbstractQueue EXCEPT ![p] = Tail(@)]
      BY <2>1, <2>2
    <2>4. cmd[p] # NoId
      BY <1>3
    <2>5. /\ ~Exchange!Answers(AbstractAsks[p], Head(AbstractQueue[p]))
          /\ ~Exchange!Refuses(AbstractAsks[p], Head(AbstractQueue[p]))
      BY <1>5, <2>2, SamePackets
    <2> QED
      BY <1>1, <2>2, <2>3, <2>4, <2>5
      DEF Exchange!Skip, Exchange!Idle, AbstractAsks, AsksOf,
          AbstractOwned, AbstractQueue, AbstractVerdict
  <1> QED
    BY <1>4, <1>5, Functions DEF Receive, Goto

\* What a request is worth when it returns: of an answer, its status ...
LEMMA AnswerVerdict ==
    ASSUME TypeInv, PathInv, NEW p \in Procs, Return(p),
           final[p] # NoEvent, Answers(cmd[p], final[p])
    PROVE  VerdictOf(p)' = Exchange!Verdict(cmd[p].req, final[p])
  <1>1. /\ pc[p] = "end" /\ pc'[p] = "idle" /\ ret[p] = 0
    BY Functions DEF Return, Goto, PathInv, Path
  <1>2. StatusRead(p) = {final[p].status}
    BY DEF StatusRead, Answered
  <1>3. \/ /\ ~cmd[p].req.checked \/ final[p].status = 0
           /\ result'[p] = "ok"
        \/ /\ cmd[p].req.checked /\ final[p].status # 0
           /\ result'[p] = "failed" /\ errno'[p] = "EIO"
    BY <1>1, <1>2, Functions DEF Return
  <1> QED
    BY <1>1, <1>3 DEF VerdictOf, Exchange!Verdict

\* ... and without one, what a buffer says that nothing was copied to.
LEMMA UnansweredVerdict ==
    ASSUME TypeInv, PathInv, NEW p \in Procs, Return(p), ret[p] = 0,
           final[p] = NoEvent \/ ~Answers(cmd[p], final[p])
    PROVE  VerdictOf(p)' \in Exchange!Unanswered(cmd[p].req)
  <1>1. pc[p] = "end" /\ pc'[p] = "idle"
    BY Functions DEF Return, Goto
  <1>2. StatusRead(p) = IF cmd[p].req.zeroed THEN {0} ELSE {0, 1}
    BY DEF StatusRead, Answered
  <1>3. \/ result'[p] = "ok"
        \/ /\ cmd[p].req.checked /\ ~cmd[p].req.zeroed
           /\ result'[p] = "failed" /\ errno'[p] = "EIO"
    BY <1>1, <1>2, Functions DEF Return
  <1> QED
    BY <1>1, <1>3 DEF VerdictOf, Exchange!Unanswered

\* A request that failed without an event has no errno of the controller.
LEMMA FailedVerdict ==
    ASSUME TypeInv, NEW p \in Procs, EndedBy(p), Return(p), ret[p] = -1,
           final[p] = NoEvent
    PROVE  VerdictOf(p)' = "other"
  <1>1. /\ pc[p] = "end" /\ pc'[p] = "idle" /\ errno[p] # "EIO"
        /\ result'[p] = "failed" /\ errno' = errno
    BY Functions DEF Return, Goto, EndedBy
  <1> QED
    BY <1>1 DEF VerdictOf

\* A request returns: the event that ended it, the verdict and the filter.
LEMMA ReturnEnds ==
    ASSUME TypeInv, PathInv, NEW p \in Procs, EndedBy(p), OfRequest(p),
           Return(p)
    PROVE  Exchange!End(p)
  <1>1. /\ pc[p] = "end" /\ pc'[p] = "idle"
        /\ UNCHANGED <<cmd, of, final, rxq>>
    BY Functions DEF Return, Goto, netVars
  <1>2. cmd[p] \in Command /\ cmd[p] # NoId /\ rxq[p] \in Seq(Event)
    BY <1>1, Functions, NoiseAssumption DEF TypeInv, CommandKnown
  <1> DEFINE v == VerdictOf(p)'
             q == QueueOf(p)
  <1>3. \/ Exchange!EndsByAnswer(cmd[p], q, v, rxq[p])
        \/ Exchange!EndsByRefusal(cmd[p], q, v, rxq[p])
        \/ Exchange!EndsInTime(cmd[p], q, v, rxq[p])
        \/ /\ Faults \cap {"select", "read"} # {}
           /\ Exchange!EndsUnread(cmd[p], q, v, rxq[p])
    <2>1. CASE final[p] # NoEvent
      <3>1. final[p] \in Event /\ ret[p] = 0
        BY <1>1, <2>1, Functions DEF PathInv, Path
      <3>2. q = <<final[p]>> \o rxq[p]
        BY <1>1, <2>1 DEF QueueOf
      <3>3. q # <<>> /\ Head(q) = final[p] /\ Tail(q) = rxq[p]
        BY <1>2, <3>1, <3>2, InFront
      <3>4. CASE Answers(cmd[p], final[p])
        <4>1. v = Exchange!Verdict(cmd[p].req, final[p])
          BY <2>1, <3>4, AnswerVerdict
        <4> HIDE DEF v, q
        <4> QED
          BY <3>3, <3>4, <4>1, SamePackets DEF Exchange!EndsByAnswer
      <3>5. CASE ~Answers(cmd[p], final[p])
        <4>1. v \in Exchange!Unanswered(cmd[p].req)
          BY <3>1, <3>5, UnansweredVerdict
        <4>2. Refuses(cmd[p], final[p])
          BY <2>1, <3>5 DEF EndedBy
        <4> HIDE DEF v, q
        <4> QED
          BY <3>3, <4>1, <4>2, SamePackets DEF Exchange!EndsByRefusal
      <3> QED
        BY <3>4, <3>5
    <2>2. CASE final[p] = NoEvent
      <3>1. q = rxq[p]
        BY <2>2 DEF QueueOf
      <3>2. CASE ret[p] = -1
        <4>1. v = "other"
          BY <2>2, <3>2, FailedVerdict
        <4> HIDE DEF v, q
        <4> QED
          BY <3>1, <4>1 DEF Exchange!EndsInTime
      <3>3. CASE ret[p] # -1
        <4>1. ret[p] = 0 /\ Faults \cap {"select", "read"} # {}
          BY <1>1, <2>2, <3>3 DEF PathInv, Path
        <4>2. v \in Exchange!Unanswered(cmd[p].req)
          BY <2>2, <4>1, UnansweredVerdict
        <4> HIDE DEF v, q
        <4> QED
          BY <3>1, <4>1, <4>2 DEF Exchange!EndsUnread
      <3> QED
        BY <3>2, <3>3
    <2> QED
      BY <2>1, <2>2
  <1>4. /\ AsksOf(p) = cmd[p] /\ AsksOf(p)' = NoId
        /\ QueueOf(p)' = rxq[p]
    BY <1>1 DEF AsksOf, QueueOf
  <1>5. /\ Owned(p)' = filter'[p] /\ Owned(p) = of[p]
        /\ filter[p] = RequestFilter(cmd[p].req)
        /\ \/ filter'[p] = of[p]
           \/ "restore" \in Faults /\ filter'[p] = filter[p]
    BY <1>1, Functions DEF Owned, Return, Restore, OfRequest
  <1>6. v \in Exchange!Verdicts
    <2>1. result'[p] \in {"ok", "failed"}
      BY Functions DEF Return
    <2> QED
      BY <1>1, <2>1 DEF VerdictOf, Exchange!Verdicts
  <1>7. Alone(p)
    BY StepAlone DEF Step
  <1> HIDE DEF v, q
  <1>8. /\ AbstractAsks' = [AbstractAsks EXCEPT ![p] = NoId]
        /\ AbstractQueue' = [AbstractQueue EXCEPT ![p] = rxq[p]]
        /\ AbstractVerdict' = [AbstractVerdict EXCEPT ![p] = v]
        /\ AbstractOwned' = [AbstractOwned EXCEPT ![p] = Owned(p)']
    BY <1>4, <1>7, AloneUpdates DEF v
  <1>9. /\ AbstractAsks[p] = cmd[p] /\ AbstractQueue[p] = q
        /\ AbstractQueue'[p] = rxq[p]
    BY <1>4, AbstractAt DEF q
  <1>10. ~Exchange!Idle(p)
    BY <1>2, <1>9 DEF Exchange!Idle, AbstractAsks, AsksOf
  <1>11. Exchange!EndsWith(p, v)
    BY <1>3, <1>9
    DEF Exchange!EndsWith, AbstractAsks, AsksOf, AbstractQueue
  <1>12. Exchange!InForce(p) = filter[p]
    BY <1>5, <1>9, <1>10, SamePackets
    DEF Exchange!InForce, AbstractAsks, AsksOf
  <1>13. \/ AbstractOwned' = AbstractOwned
         \/ /\ "restore" \in Faults
            /\ AbstractOwned' = [AbstractOwned EXCEPT ![p] = filter[p]]
    BY <1>5, <1>8, SameUpdate
  <1> QED
    BY <1>6, <1>8, <1>9, <1>10, <1>11, <1>12, <1>13
    DEF Exchange!End, AbstractAsks, AsksOf, AbstractQueue, AbstractOwned,
        AbstractVerdict

-----------------------------------------------------------------------------
(* The steps of the controller                                             *)

\* The filter of the socket is the one that is in force in the exchange.
LEMMA ForceIsFilter ==
    ASSUME TypeInv, NEW p \in Procs, OfRequest(p)
    PROVE  Exchange!InForce(p) = filter[p]
  <1>1. CASE pc[p] = "idle"
    <2>1. AbstractAsks[p] = NoId /\ AbstractOwned[p] = filter[p]
      BY <1>1, AbstractAt DEF AsksOf, Owned
    <2> QED
      BY <2>1 DEF Exchange!InForce, Exchange!Idle, AbstractAsks, AsksOf,
                  AbstractOwned
  <1>2. CASE pc[p] # "idle"
    <2>1. AbstractAsks[p] = cmd[p] /\ cmd[p] # NoId
      BY <1>2, AbstractAt, NoiseAssumption DEF AsksOf, TypeInv, CommandKnown
    <2>2. filter[p] = Exchange!RequestFilter(cmd[p].req)
      BY <1>2, SamePackets DEF OfRequest
    <2> QED
      BY <2>1, <2>2 DEF Exchange!InForce, Exchange!Idle, AbstractAsks, AsksOf
  <1> QED
    BY <1>1, <1>2

\* An event the kernel delivers arrives where the filter in force lets it in.
LEMMA DeliverArrives ==
    ASSUME TypeInv, \A p \in Procs : OfRequest(p), NEW e \in Event, Deliver(e),
           UNCHANGED <<pc, cmd, of, errno, final, result, filter>>
    PROVE  Exchange!Arrive(e)
  <1>1. /\ AbstractAsks' = AbstractAsks /\ AbstractOwned' = AbstractOwned
        /\ AbstractVerdict' = AbstractVerdict
    BY DEF AbstractAsks, AbstractOwned, AbstractVerdict, AsksOf, Owned,
           VerdictOf
  <1>2. ASSUME NEW p \in Procs
        PROVE  \/ AbstractQueue'[p] = AbstractQueue[p]
               \/ /\ Exchange!Passes(Exchange!InForce(p), e)
                  /\ AbstractQueue'[p] = Append(AbstractQueue[p], e)
    <2>1. \/ rxq'[p] = rxq[p]
          \/ Passes(filter[p], e) /\ rxq'[p] = Append(rxq[p], e)
      BY DEF Deliver
    <2>2. CASE rxq'[p] = rxq[p]
      BY <2>2, AbstractAt DEF QueueOf
    <2>3. CASE Passes(filter[p], e) /\ rxq'[p] = Append(rxq[p], e)
      <3>1. QueueOf(p)' = Append(QueueOf(p), e)
        <4>1. final[p] # NoEvent =>
                 Append(<<final[p]>> \o rxq[p], e)
                   = <<final[p]>> \o Append(rxq[p], e)
          <5>1. /\ rxq[p] \in Seq(Event)
                /\ final[p] # NoEvent => final[p] \in Event
            BY Functions
          <5> QED
            BY <5>1, InFront
        <4> QED
          BY <2>3, <4>1 DEF QueueOf
      <3>2. Exchange!Passes(Exchange!InForce(p), e)
        BY <2>3, ForceIsFilter, SamePackets
      <3> QED
        BY <3>1, <3>2, AbstractAt
    <2> QED
      BY <2>1, <2>2, <2>3
  <1>3. AbstractQueue' = [p \in Procs |-> AbstractQueue'[p]]
    BY DEF AbstractQueue
  <1> QED
    BY <1>1, <1>2, <1>3
    DEF Exchange!Arrive, AbstractAsks, AbstractOwned, AbstractQueue,
        AbstractVerdict, AsksOf

\* The clock and the controller do nothing else that is seen.
LEMMA EnvironmentArrives ==
    ASSUME TypeInv, \A p \in Procs : OfRequest(p), Environment
    PROVE  (\E e \in ControllerEvents : Exchange!Arrive(e))
           \/ UNCHANGED Exchange!xvars
  <1>1. UNCHANGED <<pc, cmd, of, errno, final, result, filter>>
    BY EnvironmentLeaves
  <1>2. ASSUME NEW e \in ControllerEvents, e \in Event, Deliver(e)
        PROVE  \E d \in ControllerEvents : Exchange!Arrive(d)
    BY <1>1, <1>2, DeliverArrives
  <1>3. ASSUME NEW c \in Command, NEW s \in {0, 1}
        PROVE  /\ {CommandStatus(c, s), CommandComplete(c, s),
                   Completion(c, s)} \subseteq ControllerEvents
               /\ {CommandStatus(c, s), CommandComplete(c, s),
                   Completion(c, s)} \subseteq Event
    <2> DEFINE sent(d, u) == {CommandStatus(d, u), CommandComplete(d, u),
                              Completion(d, u)}
    <2>1. sent(c, s) \subseteq Event
      BY AnswerType
    <2>2. ControllerEvents =
              Noise \cup UNION {sent(d, u) : d \in Command, u \in {0, 1}}
      BY DEF ControllerEvents
    <2>3. sent(c, s) \in {sent(d, u) : d \in Command, u \in {0, 1}}
      OBVIOUS
    <2> HIDE DEF sent
    <2>4. sent(c, s) \subseteq ControllerEvents
      BY <2>2, <2>3
    <2> QED
      BY <2>1, <2>4 DEF sent
  <1>4. cmdq # <<>> => Head(cmdq) \in Command
    BY Functions
  <1>5. CASE Refuse
    BY <1>2, <1>3, <1>4, <1>5 DEF Refuse
  <1>6. CASE Execute
    BY <1>2, <1>3, <1>4, <1>6 DEF Execute
  <1>7. CASE Accept
    BY <1>2, <1>3, <1>4, <1>7 DEF Accept
  <1>8. CASE \E c \in running : Complete(c)
    <2>1. PICK c \in running, s \in {0, 1} : Deliver(Completion(c, s))
      BY <1>8 DEF Complete
    <2>2. c \in Command
      BY Functions
    <2> QED
      BY <1>2, <1>3, <2>1, <2>2
  <1>9. CASE \E e \in Noise : Unsolicited(e)
    <2>1. PICK e \in Noise : Deliver(e)
      BY <1>9 DEF Unsolicited
    <2>2. e \in Event /\ e \in ControllerEvents
      BY NoiseAssumption DEF ControllerEvents
    <2> QED
      BY <1>2, <2>1, <2>2
  <1>10. CASE SetClockBack
    <2>1. \A p \in Procs : Seen(p)
      BY <1>1, <1>10
      DEF SetClockBack, netVars, Seen, AsksOf, Owned, QueueOf, VerdictOf
    <2> QED
      BY <2>1, AllSeen
  <1> QED
    BY <1>5, <1>6, <1>7, <1>8, <1>9, <1>10 DEF Environment

-----------------------------------------------------------------------------
(* The refinement                                                          *)

\* At first no request is under way, and every queue is empty.
LEMMA ExchangeBegins == Init => Exchange!ExchangeInit
  BY DEF Init, Exchange!ExchangeInit, Owned, QueueOf, VerdictOf,
         hci_filter_clear, Exchange!hci_filter_clear

\* Every step is one of HciExchange, or is not seen there.
LEMMA ExchangeStep ==
    ASSUME TypeInv, PathInv, AnswersInv, [Next]_vars
    PROVE  [Exchange!ExchangeNext]_(Exchange!xvars)
  <1>1. \A p \in Procs : OfRequest(p) /\ EndedBy(p)
    BY DEF AnswersInv
  <1>2. ASSUME NEW p \in Procs, \E f \in CallerFilters : SetFilter(p, f)
        PROVE  Exchange!Install(p)
    BY <1>2, InstallsIt
  <1>3. ASSUME NEW p \in Procs, ReadBetween(p)
        PROVE  Exchange!ReadOne(p)
    BY <1>3, ReadsOne
  <1>4. ASSUME NEW p \in Procs,
               \E r \in Requests, a \in Args : Begin(p, r, a)
        PROVE  Exchange!AskFor(p)
    BY <1>4, AsksForIt
  <1>5. ASSUME NEW p \in Procs, BeginFails(p)
        PROVE  Exchange!AskFails(p)
    BY <1>5, FailsToAsk
  <1>6. ASSUME NEW p \in Procs, Receive(p)
        PROVE  Exchange!Skip(p) \/ UNCHANGED Exchange!xvars
    BY <1>6, ReceiveSkips
  <1>7. ASSUME NEW p \in Procs, Return(p)
        PROVE  Exchange!End(p)
    BY <1>1, <1>7, ReturnEnds
  <1>8. ASSUME NEW p \in Procs,
               \/ Send(p) \/ SendFails(p) \/ TimeOut(p) \/ Proceed(p)
               \/ SelectAgain(p) \/ ReceiveFails(p) \/ Tick(p)
        PROVE  UNCHANGED Exchange!xvars
    BY <1>8, StepUnseen
  <1>9. CASE Environment
    BY <1>1, <1>9, EnvironmentArrives DEF Exchange!ExchangeNext
  <1>10. CASE UNCHANGED vars
    <2>1. \A p \in Procs : Seen(p)
      BY <1>10 DEF vars, procVars, netVars, Seen, AsksOf, Owned, QueueOf,
                   VerdictOf
    <2> QED
      BY <2>1, AllSeen
  <1> QED
    BY <1>2, <1>3, <1>4, <1>5, <1>6, <1>7, <1>8, <1>9, <1>10
    DEF Next, Step, Exchange!ExchangeNext

\* hci_send_req implements HciExchange, whichever system calls fail: every
\* step of the loop, of the kernel and of the controller is one of the
\* exchange, or shows nothing.
THEOREM RefinesExchange == Spec => KeepsExchange
  BY ExchangeBegins, ExchangeStep, TypeInvCorrect, PathCorrect,
     AnswersInvCorrect, PTL
  DEF Spec, KeepsExchange, Exchange!ExchangeSpec
=============================================================================
