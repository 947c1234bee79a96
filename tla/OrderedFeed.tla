----------------------------- MODULE OrderedFeed -----------------------------
(***************************************************************************)
(* What a subscription to numbered items promises, with no socket, frame   *)
(* or reconnect in it: it may lose an item, but it never gives one twice,  *)
(* before it was made, or after a later one, and it ends only when it was  *)
(* asked to and gives nothing from then on.                                *)
(***************************************************************************)
EXTENDS Integers, Sequences

VARIABLES made,    \* how many items there have been
          given,   \* those that were given on, in order
          asked,   \* the feed has been asked to end
          ended

vars == <<made, given, asked, ended>>

Init == /\ made = 0 /\ given = <<>>
        /\ asked = FALSE /\ ended = FALSE

Make == /\ made' = made + 1
        /\ UNCHANGED <<given, asked, ended>>

Later(n) == \A i \in DOMAIN given : given[i] < n

Give(n) == /\ ~ended
           /\ Later(n)
           /\ given' = Append(given, n)
           /\ UNCHANGED <<made, asked, ended>>

Ask == /\ asked' = TRUE
       /\ UNCHANGED <<made, given, ended>>

End == /\ asked
       /\ ended' = TRUE
       /\ UNCHANGED <<made, given, asked>>

Next == Make \/ (\E n \in 1 .. made : Give(n)) \/ Ask \/ End

Spec == Init /\ [][Next]_vars
==============================================================================
