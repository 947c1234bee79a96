---------------------------- MODULE AtomicPublish ----------------------------
(***************************************************************************)
(* What a cache upload promises, with no chunk, request or retry in it: a  *)
(* stream is published whole in one step or not at all, it never changes   *)
(* once published, and a call succeeds only for a published stream.  A     *)
(* call may fail although its stream is published: the answer to the last  *)
(* request can be lost.                                                    *)
(***************************************************************************)
CONSTANTS Calls, Nothing

VARIABLES stream,    \* what each call has to publish
          stored,    \* what the service shows of it
          outcome

Init == /\ stored = [c \in Calls |-> Nothing]
        /\ outcome = [c \in Calls |-> "running"]

Publish(c) == /\ stored[c] = Nothing
              /\ stored' = [stored EXCEPT ![c] = stream[c]]
              /\ UNCHANGED <<stream, outcome>>

Succeed(c) == /\ outcome[c] = "running"
              /\ stored[c] = stream[c]
              /\ outcome' = [outcome EXCEPT ![c] = "ok"]
              /\ UNCHANGED <<stream, stored>>

Fail(c) == /\ outcome[c] = "running"
           /\ outcome' = [outcome EXCEPT ![c] = "failed"]
           /\ UNCHANGED <<stream, stored>>

Next == \E c \in Calls : Publish(c) \/ Succeed(c) \/ Fail(c)

Spec == Init /\ [][Next]_<<stream, stored, outcome>>
==============================================================================
