------------------------------ MODULE HciOutcome ------------------------------
(***************************************************************************)
(* How a request can end, as its caller sees it: the verdict of the        *)
(* wrapper, and what the request leaves in the receive queue of the        *)
(* socket.  The verdict is "ok"; "EIO", the errno by which hci_scan_ble    *)
(* knows a refusal; or "other" for any other failure.                      *)
(*                                                                         *)
(* These operators are what the modules HciExchange, BleScan and BleLinks  *)
(* have in common of a request.                                            *)
(***************************************************************************)
EXTENDS HciPacket, Sequences

Verdicts == {"ok", "EIO", "other"}

\* An answer was copied to the buffer of the wrapper of request r: event e.
Verdict(r, e) == IF r.checked /\ e.status # 0 THEN "EIO" ELSE "ok"

\* Nothing was, and yet hci_send_req has returned 0: what a buffer says that
\* was never written, unless the wrapper had cleared it.
Unanswered(r) == IF r.checked /\ ~r.zeroed THEN {"ok", "EIO"} ELSE {"ok"}

\* Command c is under way and q is the receive queue.  The request ends with
\* verdict v and leaves rest in the queue ...
EndsByAnswer(c, q, v, rest) ==
    /\ q # <<>>
    /\ Answers(c, Head(q))
    /\ v = Verdict(c.req, Head(q))
    /\ rest = Tail(q)

\* ... because the controller refuses the command ...
EndsByRefusal(c, q, v, rest) ==
    /\ q # <<>>
    /\ Refuses(c, Head(q))
    /\ v \in Unanswered(c.req)
    /\ rest = Tail(q)

\* ... the time is up, or the command could not be written ...
EndsInTime(c, q, v, rest) == v = "other" /\ rest = q

\* ... or the socket could not be read.
EndsUnread(c, q, v, rest) == v \in Unanswered(c.req) /\ rest = q
=============================================================================
