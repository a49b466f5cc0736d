------------------------------ MODULE HciSendReq ------------------------------
(***************************************************************************)
(* hci_send_req (hci.c): one HCI command, and the wait for its answer.     *)
(*                                                                         *)
(* Each process has one raw HCI socket on the same adapter.  To run a      *)
(* request it saves the socket's filter, installs one that lets the answer *)
(* through, writes the command, and reads events until one of them ends    *)
(* the wait, the time is up or a system call fails; it then puts the saved *)
(* filter back, and the wrapper that called it looks at the answer.        *)
(*                                                                         *)
(* The kernel and the controller run concurrently: the kernel copies an    *)
(* event into the receive queue of every socket whose filter lets it       *)
(* through when it arrives, and drops it where the queue is full; the      *)
(* controller takes commands one at a time, may refuse one, and completes  *)
(* in any order those it has accepted.  An answer names its opcode, never  *)
(* the command it answers, and nothing withdraws a command whose request   *)
(* has given up.                                                           *)
(*                                                                         *)
(* The receive loop declares a second variable ret, which hides the one    *)
(* the function returns.  Only the timeout, at the head of the loop, and   *)
(* the failures before it reach the returned one; what the loop assigns    *)
(* after its call of select is lost, and is not modelled by a variable.    *)
(***************************************************************************)
EXTENDS HciPacket, Integers, Sequences

CONSTANTS
    Procs,          \* processes, each with a socket of its own
    Requests,       \* requests a process may make (records of HciRequests)
    Args,           \* devices or links that a command or an event is about
    Noise,          \* events the controller sends on its own account
    CallerFilters,  \* filters a process installs between its requests
    Faults,         \* system calls that may fail, out of FaultKinds
    Timeout,        \* parameter "to", in ticks of the clock
    MaxCalls,       \* bound: requests of one process
    QueueLen,       \* capacity of a socket's receive queue, in events
    MaxClockBack,   \* bound: ticks the wall clock may be set back
    NoId, NoEvent

FaultKinds == {"filter", "write", "select", "read", "restore"}

Ids == Procs \X (1 .. MaxCalls)

Request == [name : STRING, opcode : Nat, event : Nat, le : BOOLEAN,
            checked : BOOLEAN, zeroed : BOOLEAN]

Command == [id : Ids, req : Requests, arg : Args]

Event == [evt : Nat, opcode : Nat, sub : Nat, status : Nat, arg : Args,
          id : Ids \cup {NoId}]

ASSUME BoundsAssumption ==
    /\ Timeout \in Nat
    /\ MaxCalls \in Nat
    /\ QueueLen \in Nat
    /\ MaxClockBack \in Nat
    /\ Faults \subseteq FaultKinds

ASSUME RequestsAssumption == Requests \subseteq Request

\* No wrapper waits for one of the events that answer by opcode, and none
\* outside the LE group for the LE meta event.
ASSUME EventsAssumption == \A r \in Requests :
    /\ r.event # EVT_CMD_STATUS
    /\ ~r.le => r.event \notin {EVT_CMD_COMPLETE, EVT_LE_META_EVENT}

ASSUME FiltersAssumption == CallerFilters \subseteq Filter

ASSUME NoiseAssumption ==
    /\ NoId \notin Ids
    /\ NoId \notin Command
    /\ NoEvent \notin Event
    /\ Noise \subseteq {e \in Event : e.id = NoId}

VARIABLES
    pc,         \* where each process is
    calls,      \* requests each process has begun
    cmd,        \* the command of the current or last request
    of,         \* the filter saved by the current or last request
    ret,        \* what hci_send_req returns: 0 or -1
    errno,
    final,      \* the event that ended the wait, NoEvent if none did
    elapsed,    \* ticks since the request began
    clockBack,  \* ticks the wall clock has been set back
    result,     \* what the last wrapper returned: "ok" or "failed"
    filter,     \* the filter of each socket
    rxq,        \* the receive queue of each socket
    cmdq,       \* commands written and not yet taken by the controller
    running,    \* commands accepted and not yet completed
    base,       \* history: the filter the caller last installed itself
    outcome,    \* history: what the controller did with each command
    abandoned,  \* history: commands whose request ended on something else
    dropped     \* history: commands with an event lost at a full queue

procVars == <<pc, calls, cmd, of, ret, errno, final, elapsed, result>>
ctrlVars == <<cmdq, running, outcome>>
netVars == <<rxq, dropped>>
vars == <<procVars, clockBack, filter, netVars, ctrlVars, base, abandoned>>

-----------------------------------------------------------------------------
(* Types and initial states                                                *)

Pcs == {"idle", "send", "check", "select", "end"}

TypeOK ==
    /\ pc \in [Procs -> Pcs]
    /\ calls \in [Procs -> 0 .. MaxCalls]
    /\ cmd \in [Procs -> Command \cup {NoId}]
    /\ of \in [Procs -> Filter]
    /\ ret \in [Procs -> {0, -1}]
    /\ errno \in [Procs -> {"none", "EIO", "ETIMEDOUT", "other"}]
    /\ final \in [Procs -> Event \cup {NoEvent}]
    /\ elapsed \in [Procs -> Int]
    /\ clockBack \in 0 .. MaxClockBack
    /\ result \in [Procs -> {"none", "ok", "failed"}]
    /\ filter \in [Procs -> Filter]
    /\ rxq \in [Procs -> Seq(Event)]
    /\ cmdq \in Seq(Command)
    /\ running \in SUBSET Command
    /\ base \in [Procs -> Filter]
    /\ outcome \in [Ids -> {"none", "ok", "refused"}]
    /\ abandoned \in SUBSET Ids
    /\ dropped \in SUBSET Ids

\* A freshly opened socket lets no packet through.
Init ==
    /\ pc = [p \in Procs |-> "idle"]
    /\ calls = [p \in Procs |-> 0]
    /\ cmd = [p \in Procs |-> NoId]
    /\ of = [p \in Procs |-> hci_filter_clear]
    /\ ret = [p \in Procs |-> 0]
    /\ errno = [p \in Procs |-> "none"]
    /\ final = [p \in Procs |-> NoEvent]
    /\ elapsed = [p \in Procs |-> 0]
    /\ clockBack = 0
    /\ result = [p \in Procs |-> "none"]
    /\ filter = [p \in Procs |-> hci_filter_clear]
    /\ rxq = [p \in Procs |-> <<>>]
    /\ cmdq = <<>>
    /\ running = {}
    /\ base = [p \in Procs |-> hci_filter_clear]
    /\ outcome = [i \in Ids |-> "none"]
    /\ abandoned = {}
    /\ dropped = {}

-----------------------------------------------------------------------------
(* The process                                                             *)

Goto(p, label) == pc' = [pc EXCEPT ![p] = label]

\* A process installs a filter of its own between two requests.
SetFilter(p, f) ==
    /\ pc[p] = "idle"
    /\ filter' = [filter EXCEPT ![p] = f]
    /\ base' = [base EXCEPT ![p] = f]
    /\ UNCHANGED <<procVars, clockBack, netVars, ctrlVars, abandoned>>

\* A process reads an event between two requests, as hci_scan_ble does.
ReadBetween(p) ==
    /\ pc[p] = "idle"
    /\ rxq[p] # <<>>
    /\ rxq' = [rxq EXCEPT ![p] = Tail(@)]
    /\ UNCHANGED <<procVars, clockBack, filter, ctrlVars, base, abandoned,
                   dropped>>

\* A wrapper calls hci_send_req: the clock is read, the filter saved and the
\* filter of the request installed.
Begin(p, r, a) ==
    /\ pc[p] = "idle"
    /\ calls[p] < MaxCalls
    /\ calls' = [calls EXCEPT ![p] = @ + 1]
    /\ cmd' = [cmd EXCEPT ![p] =
                  [id |-> <<p, calls[p] + 1>>, req |-> r, arg |-> a]]
    /\ of' = [of EXCEPT ![p] = filter[p]]
    /\ filter' = [filter EXCEPT ![p] = RequestFilter(r)]
    /\ ret' = [ret EXCEPT ![p] = 0]
    /\ errno' = [errno EXCEPT ![p] = "none"]
    /\ final' = [final EXCEPT ![p] = NoEvent]
    /\ elapsed' = [elapsed EXCEPT ![p] = 0]
    /\ result' = [result EXCEPT ![p] = "none"]
    /\ Goto(p, "send")
    /\ UNCHANGED <<clockBack, netVars, ctrlVars, base, abandoned>>

\* Mutated: the failure is not noticed.
BeginFailsGoesOn(p) ==
    /\ "filter" \in Faults
    /\ pc[p] = "idle"
    /\ calls[p] < MaxCalls
    /\ calls' = [calls EXCEPT ![p] = @ + 1]
    /\ cmd' = [cmd EXCEPT ![p] = NoId]
    /\ Goto(p, "send")
    /\ UNCHANGED <<of, ret, errno, final, elapsed, result, clockBack, filter,
                   netVars, ctrlVars, base, abandoned>>

\* getsockopt or setsockopt fails, before anything has been changed.
BeginFails(p) ==
    /\ "filter" \in Faults
    /\ pc[p] = "idle"
    /\ calls[p] < MaxCalls
    /\ calls' = [calls EXCEPT ![p] = @ + 1]
    /\ cmd' = [cmd EXCEPT ![p] = NoId]
    /\ ret' = [ret EXCEPT ![p] = -1]
    /\ errno' = [errno EXCEPT ![p] = "other"]
    /\ final' = [final EXCEPT ![p] = NoEvent]
    /\ result' = [result EXCEPT ![p] = "failed"]
    /\ UNCHANGED <<pc, of, elapsed, clockBack, filter, netVars, ctrlVars, base,
                   abandoned>>

\* hci_send_cmd.  writev is repeated for EAGAIN and EINTR, which changes
\* nothing, so the step is the attempt that succeeds or fails for good.
Send(p) ==
    /\ pc[p] = "send"
    /\ cmdq' = Append(cmdq, cmd[p])
    /\ Goto(p, "check")
    /\ UNCHANGED <<calls, cmd, of, ret, errno, final, elapsed, result,
                   clockBack, filter, netVars, running, outcome, base,
                   abandoned>>

\* Mutated: the failure is assigned to a ret that is not the returned one.
SendFailsUnnoticed(p) ==
    /\ "write" \in Faults
    /\ pc[p] = "send"
    /\ errno' = [errno EXCEPT ![p] = "other"]
    /\ Goto(p, "end")
    /\ UNCHANGED <<calls, cmd, of, ret, final, elapsed, result, clockBack,
                   filter, netVars, ctrlVars, base, abandoned>>

SendFails(p) ==
    /\ "write" \in Faults
    /\ pc[p] = "send"
    /\ ret' = [ret EXCEPT ![p] = -1]
    /\ errno' = [errno EXCEPT ![p] = "other"]
    /\ Goto(p, "end")
    /\ UNCHANGED <<calls, cmd, of, final, elapsed, result, clockBack, filter,
                   netVars, ctrlVars, base, abandoned>>

\* Mutated: the time is looked at only when there is nothing to read.
TimeUpWhenQuiet(p) == elapsed[p] > Timeout /\ rxq[p] = <<>>

TimeUp(p) == elapsed[p] > Timeout

\* The head of the loop: the time is up ...
TimeOut(p) ==
    /\ pc[p] = "check"
    /\ TimeUp(p)
    /\ ret' = [ret EXCEPT ![p] = -1]
    /\ errno' = [errno EXCEPT ![p] = "ETIMEDOUT"]
    /\ Goto(p, "end")
    /\ UNCHANGED <<calls, cmd, of, final, elapsed, result, clockBack, filter,
                   netVars, ctrlVars, base, abandoned>>

\* ... or not yet.
Proceed(p) ==
    /\ pc[p] = "check"
    /\ ~TimeUp(p)
    /\ Goto(p, "select")
    /\ UNCHANGED <<calls, cmd, of, ret, errno, final, elapsed, result,
                   clockBack, filter, netVars, ctrlVars, base, abandoned>>

\* select finds nothing to read for half a second, or the read that follows
\* it is to be repeated (EAGAIN, EINTR).
SelectAgain(p) ==
    /\ pc[p] = "select"
    /\ rxq[p] = <<>> \/ "read" \in Faults
    /\ Goto(p, "check")
    /\ UNCHANGED <<calls, cmd, of, ret, errno, final, elapsed, result,
                   clockBack, filter, netVars, ctrlVars, base, abandoned>>

\* select fails, or read fails or finds the end of the file: all three leave the
\* loop with the returned ret at the 0 that hci_send_cmd gave it, and are one
\* action.  They differ in errno, which the end of the file leaves alone and
\* nobody looks at after a ret of 0.
ReceiveFails(p) ==
    /\ Faults \cap {"select", "read"} # {}
    /\ pc[p] = "select"
    /\ errno' = [errno EXCEPT ![p] = "other"]
    /\ Goto(p, "end")
    /\ UNCHANGED <<calls, cmd, of, ret, final, elapsed, result, clockBack,
                   filter, netVars, ctrlVars, base, abandoned>>

\* An event is read.  The one that answers the command, or refuses it, ends
\* the loop; any other is dropped.  A refusal sets errno and a ret that is
\* not the returned one.
Receive(p) ==
    /\ pc[p] = "select"
    /\ rxq[p] # <<>>
    /\ rxq' = [rxq EXCEPT ![p] = Tail(@)]
    /\ LET e == Head(rxq[p]) IN
         \/ /\ Answers(cmd[p], e)
            /\ final' = [final EXCEPT ![p] = e]
            /\ Goto(p, "end")
            /\ UNCHANGED errno
         \/ /\ Refuses(cmd[p], e)
            /\ final' = [final EXCEPT ![p] = e]
            /\ errno' = [errno EXCEPT ![p] = "EIO"]
            /\ Goto(p, "end")
         \/ /\ ~Answers(cmd[p], e)
            /\ ~Refuses(cmd[p], e)
            /\ Goto(p, "check")
            /\ UNCHANGED <<final, errno>>
    /\ UNCHANGED <<calls, cmd, of, ret, elapsed, result, clockBack, filter,
                   ctrlVars, base, abandoned, dropped>>

\* Has an answer been copied to the wrapper's buffer?
Answered(p) == final[p] # NoEvent /\ Answers(cmd[p], final[p])

\* Mutated: the answer is not copied to the wrapper's buffer.
StatusReadUncopied(p) == IF cmd[p].req.zeroed THEN {0} ELSE {0, 1}

\* The status the wrapper finds in its buffer.  A buffer nothing was copied
\* to is an uninitialised local variable, unless the wrapper has cleared it.
StatusRead(p) ==
    IF Answered(p) THEN {final[p].status}
    ELSE IF cmd[p].req.zeroed THEN {0}
    ELSE {0, 1}

\* Every command the controller has been given, by its id.
Written == {cmdq[k].id : k \in DOMAIN cmdq}
           \cup {c.id : c \in running}
           \cup {i \in Ids : outcome[i] # "none"}

\* Mutated: the filter is left alone when the time is up.
RestoreUnlessTimedOut(p) ==
    IF errno[p] = "ETIMEDOUT" THEN UNCHANGED filter
    ELSE filter' = [filter EXCEPT ![p] = of[p]]

\* Label "end": the filter saved at the start is put back, on every path.  A
\* failure of this call is ignored.
Restore(p) ==
    \/ filter' = [filter EXCEPT ![p] = of[p]]
    \/ "restore" \in Faults /\ UNCHANGED filter

\* Then hci_send_req returns; the wrapper fails if it returned -1, or if the
\* status the wrapper looks at is not 0.
Return(p) ==
    /\ pc[p] = "end"
    /\ Restore(p)
    /\ \/ /\ ret[p] = -1
          /\ result' = [result EXCEPT ![p] = "failed"]
          /\ UNCHANGED errno
       \/ /\ ret[p] = 0
          /\ ~cmd[p].req.checked \/ 0 \in StatusRead(p)
          /\ result' = [result EXCEPT ![p] = "ok"]
          /\ UNCHANGED errno
       \/ /\ ret[p] = 0
          /\ cmd[p].req.checked /\ StatusRead(p) # {0}
          /\ result' = [result EXCEPT ![p] = "failed"]
          /\ errno' = [errno EXCEPT ![p] = "EIO"]
    /\ abandoned' = IF final[p] = NoEvent \/ final[p].id # cmd[p].id
                    THEN abandoned \cup ({cmd[p].id} \cap Written)
                    ELSE abandoned
    /\ Goto(p, "idle")
    /\ UNCHANGED <<calls, cmd, of, ret, final, elapsed, clockBack, netVars,
                   ctrlVars, base>>

-----------------------------------------------------------------------------
(* The clock, gettimeofday: it runs, and may be set back.                  *)

Tick(p) ==
    /\ pc[p] # "idle"
    /\ elapsed[p] <= Timeout
    /\ elapsed' = [elapsed EXCEPT ![p] = @ + 1]
    /\ UNCHANGED <<pc, calls, cmd, of, ret, errno, final, result, clockBack,
                   filter, netVars, ctrlVars, base, abandoned>>

SetClockBack ==
    /\ clockBack < MaxClockBack
    /\ clockBack' = clockBack + 1
    /\ elapsed' = [p \in Procs |-> IF pc[p] = "idle" THEN elapsed[p]
                                                     ELSE elapsed[p] - 1]
    /\ UNCHANGED <<pc, calls, cmd, of, ret, errno, final, result, filter,
                   netVars, ctrlVars, base, abandoned>>

-----------------------------------------------------------------------------
(* The kernel and the controller                                           *)

\* The kernel offers event e to every socket on the adapter.
Deliver(e) ==
    /\ rxq' = [p \in Procs |->
                 IF Passes(filter[p], e) /\ Len(rxq[p]) < QueueLen
                 THEN Append(rxq[p], e)
                 ELSE rxq[p]]
    /\ dropped' = IF \E p \in Procs : /\ e.id \in {p} \X (1 .. MaxCalls)
                                     /\ Len(rxq[p]) >= QueueLen
                  THEN dropped \cup {e.id}
                  ELSE dropped

\* The controller takes the next command: it refuses it with a command status,
\* runs it and sends its command complete event, or begins it.
Refuse ==
    /\ cmdq # <<>>
    /\ cmdq' = Tail(cmdq)
    /\ outcome' = [outcome EXCEPT ![Head(cmdq).id] = "refused"]
    /\ Deliver(CommandStatus(Head(cmdq), 1))
    /\ UNCHANGED <<procVars, clockBack, filter, running, base, abandoned>>

Execute ==
    /\ cmdq # <<>>
    /\ Head(cmdq).req.event = 0
    /\ cmdq' = Tail(cmdq)
    /\ \E status \in {0, 1} :
         /\ outcome' = [outcome EXCEPT ![Head(cmdq).id] =
                           IF status = 0 THEN "ok" ELSE "refused"]
         /\ Deliver(CommandComplete(Head(cmdq), status))
    /\ UNCHANGED <<procVars, clockBack, filter, running, base, abandoned>>

Accept ==
    /\ cmdq # <<>>
    /\ Head(cmdq).req.event # 0
    /\ cmdq' = Tail(cmdq)
    /\ running' = running \cup {Head(cmdq)}
    /\ Deliver(CommandStatus(Head(cmdq), 0))
    /\ UNCHANGED <<procVars, clockBack, filter, outcome, base, abandoned>>

Complete(c) ==
    /\ c \in running
    /\ running' = running \ {c}
    /\ \E status \in {0, 1} :
         /\ outcome' = [outcome EXCEPT ![c.id] =
                           IF status = 0 THEN "ok" ELSE "refused"]
         /\ Deliver(Completion(c, status))
    /\ UNCHANGED <<procVars, clockBack, filter, cmdq, base, abandoned>>

\* An event nobody asked for: an advertising report, a link lost, ...
Unsolicited(e) ==
    /\ Deliver(e)
    /\ UNCHANGED <<procVars, clockBack, filter, ctrlVars, base, abandoned>>

-----------------------------------------------------------------------------
\* The steps of a process inside a request.
Step(p) ==
    \/ Send(p) \/ SendFails(p)
    \/ TimeOut(p) \/ Proceed(p)
    \/ SelectAgain(p) \/ ReceiveFails(p) \/ Receive(p)
    \/ Return(p)

Environment ==
    \/ SetClockBack
    \/ Refuse \/ Execute \/ Accept
    \/ \E c \in running : Complete(c)
    \/ \E e \in Noise : Unsolicited(e)

Next ==
    \/ \E p \in Procs :
         \/ \E f \in CallerFilters : SetFilter(p, f)
         \/ ReadBetween(p)
         \/ \E r \in Requests, a \in Args : Begin(p, r, a)
         \/ BeginFails(p)
         \/ Step(p)
         \/ Tick(p)
    \/ Environment

Spec == Init /\ [][Next]_vars

\* A process inside a request goes on, and the clock runs.  Nothing is assumed
\* of the controller: it may never answer.
FairSpec ==
    /\ Spec
    /\ \A p \in Procs : WF_vars(Step(p)) /\ WF_vars(Tick(p))

-----------------------------------------------------------------------------
(* Properties                                                              *)

\* hci_send_req borrows the socket's filter: while it runs it holds the one
\* its caller had installed, and when it has returned, on whichever path, that
\* one is in place again.
FilterRestored ==
    "restore" \notin Faults =>
        \A p \in Procs : IF pc[p] = "idle" THEN filter[p] = base[p]
                                         ELSE of[p] = base[p]

\* The filter is in place before the command is written and lets the answer
\* through: once the controller has dealt with a command whose request is still
\* waiting, its answer stands in the queue, unless the queue was full.
NoLostAnswer ==
    \A p \in Procs :
        /\ pc[p] \in {"check", "select"}
        /\ outcome[cmd[p].id] # "none"
        /\ cmd[p].id \notin dropped
        => \E k \in DOMAIN rxq[p] :
               /\ rxq[p][k].id = cmd[p].id
               /\ \/ Answers(cmd[p], rxq[p][k])
                  \/ Refuses(cmd[p], rxq[p][k])

\* What a wrapper reports is what the controller decided, when an answer of
\* the controller to some command ended the wait: it reports no success of a
\* command that was refused or is still running, and raises no EIO over one
\* that was carried out.  Whose command that was is not its matter, but that of
\* NoStaleAnswer and AnswerMatches.
VerdictIsControllers ==
    \A p \in Procs :
        /\ pc[p] = "idle"
        /\ final[p] # NoEvent
        /\ final[p].id # NoId
        => /\ (result[p] = "ok" /\ cmd[p].req.checked /\ Answered(p))
                  => outcome[final[p].id] = "ok"
           /\ errno[p] = "EIO" => outcome[final[p].id] = "refused"

\* A command answers once: a request is never ended by an event of an earlier
\* command of the same process, unless the request of that command had given
\* up on it.
NoStaleAnswer ==
    \A p \in Procs :
        (final[p] # NoEvent /\ final[p].id \in {p} \X (1 .. MaxCalls))
            => final[p].id \in abandoned \cup {cmd[p].id}

\* A command complete or status event ends a request only if it names the
\* opcode of that request, though events of earlier requests and of other
\* sockets wait in the same queue; a remote name only if it is that of the
\* device asked about.
AnswerMatches ==
    \A p \in Procs : final[p] # NoEvent =>
        /\ final[p].evt \in {EVT_CMD_COMPLETE, EVT_CMD_STATUS}
               => final[p].opcode = cmd[p].req.opcode
        /\ final[p].evt = EVT_REMOTE_NAME_REQ_COMPLETE
               => final[p].arg = cmd[p].arg

\* The specification of a request as its caller sees it.  While a request runs
\* the filter of the caller is the saved one.
Owned(p) == IF pc[p] = "idle" THEN filter[p] ELSE of[p]

Promise == INSTANCE HciCommand WITH
    Calls    <- MaxCalls,
    Filters  <- CallerFilters,
    NoFilter <- hci_filter_clear,
    phase    <- [p \in Procs |-> IF pc[p] = "idle" THEN "idle" ELSE "busy"],
    begun    <- calls,
    issued   <- Written,
    verdict  <- result,
    owned    <- [p \in Procs |-> Owned(p)]

\* hci_send_req keeps that promise: one command at most, the filter handed
\* back, no success without a command.
KeepsPromise == Promise!AbstractSpec

\* What the controller may send.
ControllerEvents ==
    Noise \cup UNION {{CommandStatus(c, s), CommandComplete(c, s),
                       Completion(c, s)} : c \in Command, s \in {0, 1}}

\* The specification of a request as the functions built on it see it.  The
\* event that ends the request counts as unread until the request returns.
QueueOf(p) ==
    IF pc[p] = "end" /\ final[p] # NoEvent THEN <<final[p]>> \o rxq[p]
                                          ELSE rxq[p]

VerdictOf(p) ==
    IF pc[p] # "idle" \/ result[p] = "none" THEN "none"
    ELSE IF result[p] = "ok" THEN "ok"
    ELSE IF errno[p] = "EIO" THEN "EIO"
    ELSE "other"

Exchange == INSTANCE HciExchange WITH
    Commands  <- Command,
    Events    <- ControllerEvents,
    NoCommand <- NoId,
    asks      <- [p \in Procs |-> IF pc[p] = "idle" THEN NoId ELSE cmd[p]],
    own       <- [p \in Procs |-> Owned(p)],
    queue     <- [p \in Procs |-> QueueOf(p)],
    verdict   <- [p \in Procs |-> VerdictOf(p)]

\* hci_send_req is such an exchange: it reads no further than the event that
\* ends the request and throws away none but those in front of it, no event
\* gets into the queue that the filter of the request, or else the caller's,
\* would stop, and the verdict is that of the event, on every path through the
\* loop; only a socket that could not be read, or a refusal, leaves it open.
KeepsExchange == Exchange!ExchangeSpec

\* A request ends, whatever the controller and the other processes do.
CallReturns == \A p \in Procs : pc[p] # "idle" ~> pc[p] = "idle"

\* What the comments of the receive loop say ("select error", "read failed"),
\* and the code does not do: a request that ended on no answer, whether a
\* system call failed or the controller refused the command, has failed.
FailureReported ==
    \A p \in Procs :
        (pc[p] = "idle" /\ cmd[p] # NoId /\ ~Answered(p))
            => result[p] = "failed"
=============================================================================
