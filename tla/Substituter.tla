----------------------------- MODULE Substituter -----------------------------
(***************************************************************************)
(* What a binary cache promises the clients that substitute from it, with  *)
(* no file, negative cache or breaker in it.  A path is in the cache whole *)
(* or not at all.  Of a path a client is told that it is there only when   *)
(* it is, and that it is not there only when it once was not; a failure is *)
(* told as a failure.  Whoever was told that a path is there gets it, or a *)
(* failure, and never hears that it is missing.                            *)
(***************************************************************************)
EXTENDS Integers

CONSTANTS Paths, Clients, NoPath

VARIABLES whole,     \* paths in the cache
          absent,    \* paths that were looked for in vain
          told,      \* what each client was told of its path
          path,      \* the path, once it was told
          brought,   \* how a path that is there was brought to the client
          forwarded  \* how many were told that theirs is not there

vars == <<whole, absent, told, path, brought, forwarded>>

Init == /\ whole = {} /\ absent \in {{}, Paths}
        /\ told = [c \in Clients |-> "nothing"]
        /\ path = [c \in Clients |-> NoPath]
        /\ brought = [c \in Clients |-> "nothing"]
        /\ forwarded = 0

Put(p) == /\ whole' = whole \cup {p}
          /\ UNCHANGED <<absent, told, path, brought, forwarded>>

LookInVain(p) == /\ p \notin whole
                 /\ absent' = absent \cup {p}
                 /\ UNCHANGED <<whole, told, path, brought, forwarded>>

Tell(c, p, what) == /\ told[c] = "nothing"
                    /\ told' = [told EXCEPT ![c] = what]
                    /\ path' = [path EXCEPT ![c] = p]
                    /\ UNCHANGED <<whole, absent, brought>>

Offer(c, p) == /\ p \in whole
               /\ Tell(c, p, "there") /\ UNCHANGED forwarded

Forward(c, p) == /\ p \in absent
                 /\ Tell(c, p, "missing") /\ forwarded' = forwarded + 1

Refuse(c, p) == Tell(c, p, "failure") /\ UNCHANGED forwarded

Bring(c, how) == /\ told[c] = "there" /\ path[c] \in whole
                 /\ brought[c] = "nothing"
                 /\ brought' = [brought EXCEPT ![c] = how]
                 /\ UNCHANGED <<whole, absent, told, path, forwarded>>

Next == \/ \E p \in Paths : Put(p) \/ LookInVain(p)
        \/ \E c \in Clients, p \in Paths : Offer(c, p) \/ Forward(c, p) \/ Refuse(c, p)
        \/ \E c \in Clients : Bring(c, "whole") \/ Bring(c, "failure")

Spec == Init /\ [][Next]_vars
==============================================================================
