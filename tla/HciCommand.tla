------------------------------ MODULE HciCommand ------------------------------
(***************************************************************************)
(* What a request of the library promises its caller, whatever happens     *)
(* below it: the call is one command at most, the filter the caller has    *)
(* installed is as the caller left it, and a call reports success only if  *)
(* its command was handed to the controller.                               *)
(*                                                                         *)
(* hci_send_req (module HciSendReq) implements this specification.         *)
(***************************************************************************)
EXTENDS Naturals

CONSTANTS
    Procs,          \* the processes
    Calls,          \* how many requests one process may make
    Filters,        \* what a process may install as its filter
    NoFilter        \* the filter of a fresh socket

VARIABLES
    phase,      \* "idle" or "busy": is a request under way?
    begun,      \* requests begun
    issued,     \* commands handed to the controller, as <<process, number>>
    verdict,    \* what the last request reported
    owned       \* the filter each process believes is installed

avars == <<phase, begun, issued, verdict, owned>>

AbstractInit ==
    /\ phase = [p \in Procs |-> "idle"]
    /\ begun = [p \in Procs |-> 0]
    /\ issued = {}
    /\ verdict = [p \in Procs |-> "none"]
    /\ owned = [p \in Procs |-> NoFilter]

Install(p) ==
    /\ phase[p] = "idle"
    /\ \E f \in Filters : owned' = [owned EXCEPT ![p] = f]
    /\ UNCHANGED <<phase, begun, issued, verdict>>

Call(p) ==
    /\ phase[p] = "idle"
    /\ begun[p] < Calls
    /\ begun' = [begun EXCEPT ![p] = @ + 1]
    /\ phase' = [phase EXCEPT ![p] = "busy"]
    /\ verdict' = [verdict EXCEPT ![p] = "none"]
    /\ UNCHANGED <<issued, owned>>

\* A call that fails before it has done anything.
CallFails(p) ==
    /\ phase[p] = "idle"
    /\ begun[p] < Calls
    /\ begun' = [begun EXCEPT ![p] = @ + 1]
    /\ verdict' = [verdict EXCEPT ![p] = "failed"]
    /\ UNCHANGED <<phase, issued, owned>>

\* The command of the call under way: never twice, never after the call.
Issue(p) ==
    /\ phase[p] = "busy"
    /\ <<p, begun[p]>> \notin issued
    /\ issued' = issued \cup {<<p, begun[p]>>}
    /\ UNCHANGED <<phase, begun, verdict, owned>>

Finish(p) ==
    /\ phase[p] = "busy"
    /\ phase' = [phase EXCEPT ![p] = "idle"]
    /\ \/ verdict' = [verdict EXCEPT ![p] = "failed"]
       \/ /\ <<p, begun[p]>> \in issued
          /\ verdict' = [verdict EXCEPT ![p] = "ok"]
    /\ UNCHANGED <<begun, issued, owned>>

AbstractNext ==
    \E p \in Procs :
        Install(p) \/ Call(p) \/ CallFails(p) \/ Issue(p) \/ Finish(p)

AbstractSpec == AbstractInit /\ [][AbstractNext]_avars
=============================================================================
