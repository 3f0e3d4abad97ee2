---------------------------- MODULE PrivateStreams ----------------------------
(***************************************************************************)
(* What the callers of an agent are promised: each request has a stream of  *)
(* its own.  There are no connections, frames IDs, buffers or pools here:   *)
(* the agent writes the frames 1 .. Replies of an answer, the caller gets   *)
(* them in this order and nothing else, and either has all of them or is    *)
(* told that the request failed.                                            *)
(***************************************************************************)
EXTENDS Naturals, Sequences

CONSTANTS
    Callers,
    Replies     \* frames of an answer

VARIABLES
    written,    \* how many frames of the answer the agent has written
    got,        \* what the caller has received
    result

vars == <<written, got, result>>

Init ==
    /\ written = [q \in Callers |-> 0]
    /\ got = [q \in Callers |-> <<>>]
    /\ result = [q \in Callers |-> "none"]

(* The agent does not know whether the caller still waits.                  *)
Write(q) ==
    /\ written[q] < Replies
    /\ written' = [written EXCEPT ![q] = @ + 1]
    /\ UNCHANGED <<got, result>>

(* The next frame, and after the last one the request is done.              *)
Receive(q) ==
    /\ result[q] = "none"
    /\ Len(got[q]) < written[q]
    /\ got' = [got EXCEPT ![q] = Append(@, Len(@) + 1)]
    /\ result' = IF Len(got[q]) + 1 = Replies THEN [result EXCEPT ![q] = "ok"] ELSE result
    /\ UNCHANGED written

Fail(q, why) ==
    /\ result[q] = "none"
    /\ result' = [result EXCEPT ![q] = why]
    /\ UNCHANGED <<written, got>>

Next ==
    \E q \in Callers :
        Write(q) \/ Receive(q) \/ \E why \in {"error", "timeout"} : Fail(q, why)

Spec == Init /\ [][Next]_vars
=============================================================================
