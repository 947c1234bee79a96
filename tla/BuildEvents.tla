----------------------------- MODULE BuildEvents -----------------------------
(***************************************************************************)
(* The subscription to determinate-nixd's build events of                  *)
(* magic-nix-cache/src/pbh.rs: connect to the socket, subscribe, and hand  *)
(* the outputs of every built-path event to enqueue_paths, until the       *)
(* shutdown token is cancelled.                                            *)
(*                                                                         *)
(* An event is one `data: ...` line, but what the loop takes is an HTTP/2  *)
(* frame, and it decodes a frame only when that holds exactly one event.   *)
(* A frame is the sequence of the whole events in it: empty for a comment  *)
(* or a piece of an event, longer than one when events were sent at once.  *)
(* determinate-nixd is external; it sends an event to whoever is           *)
(* subscribed and does not repeat it.                                      *)
(***************************************************************************)
EXTENDS Integers, Sequences

CONSTANTS MaxEvents,   \* model bound: built-path events
          MaxOutages   \* model bound: how often the socket goes away

ASSUME BoundAssumption == MaxEvents \in Nat /\ MaxOutages \in Nat

VARIABLES
  pc,        \* where handle_events is
  frames,    \* the frames of the response that have not been taken
  open,      \* determinate-nixd has this subscription
  up,        \* its socket accepts connections
  emitted,   \* events so far, numbered in order
  outages,
  cancelled, \* shutdown_token
  current,   \* the event being enqueued
  handed,    \* events given to enqueue_paths, in order
  alone      \* history: events that arrived in a frame of their own

nixdVars == <<up, emitted, outages>>
vars == <<pc, frames, open, nixdVars, cancelled, current, handed, alone>>

Events == 1 .. MaxEvents

Init ==
  /\ pc = "connect"
  /\ frames = <<>> /\ open = FALSE
  /\ up \in BOOLEAN /\ emitted = 0 /\ outages = 0
  /\ cancelled = FALSE
  /\ current = 0 /\ handed = <<>>
  /\ alone = {}

Goto(from, to) == pc = from /\ pc' = to

(***************************************************************************)
(* determinate-nixd                                                        *)
(***************************************************************************)
Last == frames[Len(frames)]   \* the frame that was sent last

\* A build ends.  Its event goes into a frame of its own, in pieces, or
\* after another event that is still to be taken; or nobody listens.
Emit ==
  /\ emitted < MaxEvents
  /\ emitted' = emitted + 1
  /\ \/ /\ ~open
        /\ UNCHANGED <<frames, alone>>
     \/ /\ open
        /\ frames' = Append(frames, <<emitted + 1>>)
        /\ alone' = alone \cup {emitted + 1}
     \/ /\ open
        /\ frames' = Append(Append(frames, <<>>), <<>>)
        /\ UNCHANGED alone
     \/ /\ open /\ frames # <<>> /\ Last # <<>>
        /\ frames' = [frames EXCEPT ![Len(frames)] = Append(Last, emitted + 1)]
        /\ alone' = alone \ {Last[i] : i \in DOMAIN Last}
  /\ UNCHANGED <<pc, open, up, outages, cancelled, current, handed>>

\* The socket goes away, with the subscription; frames that have not been
\* taken still arrive or are lost.
Outage ==
  /\ up /\ outages < MaxOutages
  /\ up' = FALSE /\ outages' = outages + 1
  /\ open' = FALSE
  /\ \/ UNCHANGED <<frames, alone>>
     \/ /\ frames' = <<>>
        /\ alone' = alone \ {e \in alone : \E i \in DOMAIN frames : frames[i] = <<e>>}
  /\ UNCHANGED <<pc, emitted, cancelled, current, handed>>

Return ==
  /\ ~up
  /\ up' = TRUE
  /\ UNCHANGED <<pc, frames, open, emitted, outages, cancelled, current, handed, alone>>

Nixd == Emit \/ Outage \/ Return

(***************************************************************************)
(* handle_events                                                           *)
(***************************************************************************)
Connected ==
  /\ up
  /\ Goto("connect", "subscribe")
  /\ UNCHANGED <<frames, open, nixdVars, cancelled, current, handed, alone>>

\* Faulty: a failed connect ends the task.
ConnectFatal ==
  /\ ~up
  /\ Goto("connect", "stopped")
  /\ UNCHANGED <<frames, open, nixdVars, cancelled, current, handed, alone>>

\* Ten seconds, then again.
ConnectFails ==
  /\ ~up
  /\ Goto("connect", "sleep")
  /\ UNCHANGED <<frames, open, nixdVars, cancelled, current, handed, alone>>

Wake ==
  /\ Goto("sleep", "connect")
  /\ UNCHANGED <<frames, open, nixdVars, cancelled, current, handed, alone>>

\* Faulty: the response is kept, and the loop starts over without reading it.
SubscribedUnread ==
  /\ up
  /\ Goto("subscribe", "connect")
  /\ open' = TRUE
  /\ UNCHANGED <<frames, nixdVars, cancelled, current, handed, alone>>

\* Handshake and GET /events; a failure of either starts over at once.
Subscribed ==
  /\ up
  /\ Goto("subscribe", "listen")
  /\ open' = TRUE
  /\ UNCHANGED <<frames, nixdVars, cancelled, current, handed, alone>>

SubscribeFails ==
  /\ Goto("subscribe", "connect")
  /\ UNCHANGED <<frames, open, nixdVars, cancelled, current, handed, alone>>

\* The frame is one event.  Its outputs may not be store paths any more;
\* that costs the event and nothing else.
TakeEvent ==
  /\ frames # <<>> /\ Len(Head(frames)) = 1
  /\ current' = Head(frames)[1]
  /\ \/ /\ Goto("listen", "enqueue")
        /\ handed' = Append(handed, Head(frames)[1])
     \/ /\ pc = "listen"
        /\ UNCHANGED <<pc, handed>>
  /\ frames' = Tail(frames)
  /\ UNCHANGED <<open, nixdVars, cancelled, alone>>

\* Faulty: a frame that does not decode ends the subscription.
SkipResubscribes ==
  /\ frames # <<>> /\ Len(Head(frames)) # 1
  /\ Goto("listen", "connect")
  /\ frames' = <<>> /\ open' = FALSE
  /\ UNCHANGED <<nixdVars, cancelled, current, handed, alone>>

\* Not a data line, or not one event: ignored.
SkipFrame ==
  /\ pc = "listen"
  /\ frames # <<>> /\ Len(Head(frames)) # 1
  /\ frames' = Tail(frames)
  /\ UNCHANGED <<pc, open, nixdVars, cancelled, current, handed, alone>>

\* Faulty: a batch that could not be enqueued is tried again.
EnqueueRetries ==
  /\ pc = "enqueue"
  /\ \/ pc' = "listen" /\ UNCHANGED handed
     \/ pc' = "enqueue" /\ Len(handed) < MaxEvents /\ handed' = Append(handed, current)
  /\ UNCHANGED <<frames, open, nixdVars, cancelled, current, alone>>

\* enqueue_paths returns; an error is logged and the batch is given up.
Enqueued ==
  /\ Goto("enqueue", "listen")
  /\ UNCHANGED <<frames, open, nixdVars, cancelled, current, handed, alone>>

\* The response ends, or breaks off.
StreamEnds ==
  /\ ~open /\ frames = <<>>
  /\ Goto("listen", "connect")
  /\ UNCHANGED <<frames, open, nixdVars, cancelled, current, handed, alone>>

Listen == TakeEvent \/ SkipFrame \/ StreamEnds

(***************************************************************************)
(* subscribe_uds_post_build_hook                                           *)
(***************************************************************************)
Cancel ==
  /\ ~cancelled
  /\ cancelled' = TRUE
  /\ UNCHANGED <<pc, frames, open, nixdVars, current, handed, alone>>

\* Faulty: the token is looked at between two subscriptions only.
StopBetween ==
  /\ cancelled
  /\ Goto("connect", "stopped")
  /\ UNCHANGED <<frames, open, nixdVars, cancelled, current, handed, alone>>

\* select! drops handle_events wherever it awaits, and the response with it.
Stop ==
  /\ cancelled
  /\ pc # "stopped" /\ pc' = "stopped"
  /\ open' = FALSE /\ frames' = <<>>
  /\ UNCHANGED <<nixdVars, cancelled, current, handed, alone>>

Step == \/ Connected \/ ConnectFails \/ Wake \/ Subscribed \/ SubscribeFails
        \/ Listen \/ Enqueued

Next == Nixd \/ Step \/ Cancel \/ Stop

Spec == Init /\ [][Next]_vars

\* The task is run, sleeps end, enqueue_paths returns, and a socket that is
\* there answers a subscription some time.
Fairness == /\ WF_vars(Connected) /\ WF_vars(ConnectFails) /\ WF_vars(Wake)
            /\ WF_vars(Subscribed \/ SubscribeFails) /\ SF_vars(Subscribed)
            /\ WF_vars(Listen) /\ WF_vars(Enqueued) /\ WF_vars(Stop)
            /\ WF_vars(Return)

FairSpec == Spec /\ Fairness

(***************************************************************************)
(* Properties.                                                             *)
(***************************************************************************)
\* Every variable stays in its range, and the subscription is held only by
\* a task that listens.
TypeOK ==
  /\ pc \in {"connect", "sleep", "subscribe", "listen", "enqueue", "stopped"}
  /\ frames \in Seq(Seq(Events))
  /\ open \in BOOLEAN /\ up \in BOOLEAN /\ cancelled \in BOOLEAN
  /\ open => up /\ pc \in {"listen", "enqueue"}
  /\ frames # <<>> => pc \in {"listen", "enqueue"}
  /\ emitted \in 0 .. MaxEvents /\ outages \in 0 .. MaxOutages
  /\ current \in 0 .. MaxEvents
  /\ handed \in Seq(Events)
  /\ alone \subseteq Events

\* Events are enqueued in the order of the builds and none twice, whatever
\* reconnects and failed batches there are in between.
InOrderOnce == \A i, j \in DOMAIN handed : i < j => handed[i] < handed[j]

\* An event that arrived in a frame of its own has been looked at, or still
\* waits while the task runs: frames that do not decode cost no other event.
BadFrameIsLocal ==
  pc # "stopped" =>
    \A e \in alone : e <= current \/ \E i \in DOMAIN frames : frames[i] = <<e>>

\* To the outside the subscription is a feed of build events which may lose
\* one, gives each on at most once and in order, and ends only when the
\* shutdown token was cancelled, whatever the socket does.
Feed == INSTANCE OrderedFeed WITH
          made <- emitted, given <- handed, asked <- cancelled,
          ended <- pc = "stopped"
FeedsInOrder == Feed!Spec

\* Once the socket stays, the task is subscribed for good, or shut down.
StaysSubscribed == <>[]((open /\ pc \in {"listen", "enqueue"}) \/ cancelled)

\* Cancelling the token ends the task.
StopsOnCancel == cancelled ~> (pc = "stopped")
==============================================================================
