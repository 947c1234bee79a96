---------------------------- MODULE GracefulDrain ----------------------------
(***************************************************************************)
(* What a queue with one worker promises about its end, with no channel,   *)
(* lock or message in it: the worker tries each item once and one at a     *)
(* time, only items that were offered, and leaves only after it has dealt  *)
(* with all that were offered while the queue was accepting.  What is      *)
(* offered later it may leave behind.                                      *)
(***************************************************************************)
CONSTANT Items

VARIABLES accepting,
          offered,    \* items ever given to the queue
          owed,       \* those given to it while it was accepting
          tried,      \* those the worker has started on
          passed,     \* those it decided not to try
          current,    \* the one it is working on, at most one
          gone        \* the worker has left

vars == <<accepting, offered, owed, tried, passed, current, gone>>

Init == /\ accepting \in BOOLEAN
        /\ offered = {} /\ owed = {} /\ tried = {} /\ passed = {}
        /\ current = {} /\ gone = FALSE

Offer(i) == /\ ~gone
            /\ offered' = offered \cup {i}
            /\ owed' = IF accepting THEN owed \cup {i} ELSE owed
            /\ UNCHANGED <<accepting, tried, passed, current, gone>>

Free == ~gone /\ current = {}

Try(i) == /\ Free
          /\ i \in offered \ tried
          /\ tried' = tried \cup {i} /\ current' = {i}
          /\ UNCHANGED <<accepting, offered, owed, passed, gone>>

Pass(i) == /\ Free
           /\ i \in offered
           /\ passed' = passed \cup {i}
           /\ UNCHANGED <<accepting, offered, owed, tried, current, gone>>

Complete == /\ current' = {}
            /\ UNCHANGED <<accepting, offered, owed, tried, passed, gone>>

Close == /\ accepting
         /\ accepting' = FALSE
         /\ UNCHANGED <<offered, owed, tried, passed, current, gone>>

Leave == /\ Free
         /\ ~accepting /\ owed \subseteq tried \cup passed
         /\ gone' = TRUE
         /\ UNCHANGED <<accepting, offered, owed, tried, passed, current>>

Next == \/ \E i \in Items : Offer(i) \/ Try(i) \/ Pass(i)
        \/ Complete \/ Close \/ Leave

Spec == Init /\ [][Next]_vars
==============================================================================
