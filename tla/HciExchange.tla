------------------------------ MODULE HciExchange ------------------------------
(***************************************************************************)
(* What a request is to the functions that are built on it: an exchange    *)
(* with the controller over the socket of the process.                     *)
(*                                                                         *)
(* A process has a filter of its own, and a queue of the events that the   *)
(* filter in force let in.  While it asks, the filter in force is that of  *)
(* the request.  The request drops the events in front of the one that     *)
(* ends it, and no other; it ends with that event, or gives up and leaves  *)
(* the queue as it is; and what ends it decides its verdict.               *)
(*                                                                         *)
(* Left out, against module HciSendReq that implements this one: the       *)
(* filter that is saved, the clock and the number of rounds of the loop,   *)
(* the return value and errno, the event that was read, when the command   *)
(* is written, and all that the kernel and the controller do but send.     *)
(***************************************************************************)
EXTENDS HciOutcome

CONSTANTS
    Procs,          \* the processes
    Commands,       \* what a process may ask
    Events,         \* what the controller may send
    CallerFilters,  \* filters a process installs between its requests
    Faults,         \* system calls that may fail
    NoCommand

VARIABLES
    asks,       \* the command of each process under way, or NoCommand
    own,        \* the filter of its own
    queue,      \* events let in and not yet read
    verdict     \* how its last request ended, "none" while it asks

xvars == <<asks, own, queue, verdict>>

ExchangeInit ==
    /\ asks = [p \in Procs |-> NoCommand]
    /\ own = [p \in Procs |-> hci_filter_clear]
    /\ queue = [p \in Procs |-> <<>>]
    /\ verdict = [p \in Procs |-> "none"]

Idle(p) == asks[p] = NoCommand

\* The filter in force: it follows from what the process is doing.
InForce(p) == IF Idle(p) THEN own[p] ELSE RequestFilter(asks[p].req)

Install(p) ==
    /\ Idle(p)
    /\ \E f \in CallerFilters : own' = [own EXCEPT ![p] = f]
    /\ UNCHANGED <<asks, queue, verdict>>

\* The process reads an event that its own filter has let in, or one that a
\* request has left behind.
ReadOne(p) ==
    /\ Idle(p)
    /\ queue[p] # <<>>
    /\ queue' = [queue EXCEPT ![p] = Tail(@)]
    /\ UNCHANGED <<asks, own, verdict>>

AskFor(p) ==
    /\ Idle(p)
    /\ \E c \in Commands : asks' = [asks EXCEPT ![p] = c]
    /\ verdict' = [verdict EXCEPT ![p] = "none"]
    /\ UNCHANGED <<own, queue>>

\* The filter of the request cannot be installed.
AskFails(p) ==
    /\ "filter" \in Faults
    /\ Idle(p)
    /\ verdict' = [verdict EXCEPT ![p] = "other"]
    /\ UNCHANGED <<asks, own, queue>>

\* An event in front of the one that ends the request is dropped.
Skip(p) ==
    /\ ~Idle(p)
    /\ queue[p] # <<>>
    /\ ~Answers(asks[p], Head(queue[p]))
    /\ ~Refuses(asks[p], Head(queue[p]))
    /\ queue' = [queue EXCEPT ![p] = Tail(@)]
    /\ UNCHANGED <<asks, own, verdict>>

\* What becomes of the queue when a request of p ends with verdict v.
EndsWith(p, v) ==
    LET rest == queue'[p] IN
    \/ EndsByAnswer(asks[p], queue[p], v, rest)
    \/ EndsByRefusal(asks[p], queue[p], v, rest)
    \/ EndsInTime(asks[p], queue[p], v, rest)
    \/ /\ Faults \cap {"select", "read"} # {}
       /\ EndsUnread(asks[p], queue[p], v, rest)

\* The request ends: the process has its own filter back, or keeps that of the
\* request, if the last system call fails.
End(p) ==
    /\ ~Idle(p)
    /\ asks' = [asks EXCEPT ![p] = NoCommand]
    /\ \E v \in Verdicts :
         EndsWith(p, v) /\ verdict' = [verdict EXCEPT ![p] = v]
    /\ queue' = [queue EXCEPT ![p] = queue'[p]]
    /\ \/ UNCHANGED own
       \/ "restore" \in Faults /\ own' = [own EXCEPT ![p] = InForce(p)]

\* An event comes in: at the end of the queue, for those whose filter lets it
\* in, and of these not for those whose queue is full.
Arrive(e) ==
    /\ \A p \in Procs : \/ queue'[p] = queue[p]
                        \/ /\ Passes(InForce(p), e)
                           /\ queue'[p] = Append(queue[p], e)
    /\ queue' = [p \in Procs |-> queue'[p]]
    /\ UNCHANGED <<asks, own, verdict>>

ExchangeNext ==
    \/ \E p \in Procs :
         \/ Install(p) \/ ReadOne(p) \/ AskFor(p) \/ AskFails(p)
         \/ Skip(p) \/ End(p)
    \/ \E e \in Events : Arrive(e)

ExchangeSpec == ExchangeInit /\ [][ExchangeNext]_xvars
=============================================================================
