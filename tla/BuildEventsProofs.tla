-------------------------- MODULE BuildEventsProofs --------------------------
(***************************************************************************)
(* The event subscription hands over each event once and in order.  What   *)
(* is in the frames is ahead of what has been taken, and what has been     *)
(* handed over is behind it.                                               *)
(***************************************************************************)
EXTENDS BuildEvents, TLAPS

\* The events that wait are in order, within a frame and from one to the
\* next, and lie between those that were taken and the next one.
Waiting ==
  /\ \A i \in DOMAIN frames : \A k \in DOMAIN frames[i] :
       current < frames[i][k] /\ frames[i][k] <= emitted
  /\ \A i, j \in DOMAIN frames : \A k \in DOMAIN frames[i], l \in DOMAIN frames[j] :
       i < j \/ (i = j /\ k < l) => frames[i][k] < frames[j][l]

\* What was handed over was taken before, and no event is ahead of its build.
Behind == /\ current <= emitted
          /\ \A i \in DOMAIN handed : handed[i] <= current

IInv == TypeOK /\ Waiting /\ Behind /\ InOrderOnce

\* The first state.
LEMMA InitInv == Init => IInv
<1> USE BoundAssumption
<1> SUFFICES ASSUME Init PROVE IInv
  OBVIOUS
<1>1. TypeOK
  <2>1. open \in BOOLEAN /\ up \in BOOLEAN /\ cancelled \in BOOLEAN
    BY Zenon DEF Init
  <2>2. frames \in Seq(Seq(Events)) /\ handed \in Seq(Events)
    BY DEF Init
  <2> QED BY <2>1, <2>2 DEF Init, TypeOK
<1>2. Waiting /\ Behind /\ InOrderOnce
  BY <1>1 DEF Init, Waiting, Behind, InOrderOnce
<1> QED BY <1>1, <1>2 DEF IInv

(***************************************************************************)
(* The frames: how a step of determinate-nixd changes them.                *)
(***************************************************************************)
\* An event in a frame of its own.
LEMMA OwnFrame ==
  ASSUME IInv, emitted < MaxEvents, emitted' = emitted + 1, current' = current,
         frames' = Append(frames, <<emitted + 1>>)
  PROVE  frames' \in Seq(Seq(Events)) /\ Waiting'
<1> USE BoundAssumption DEF IInv
<1>1. emitted + 1 \in Events
  BY DEF TypeOK, Events
<1>2. <<emitted + 1>> \in Seq(Events)
  BY <1>1
<1>3. frames' \in Seq(Seq(Events))
  BY <1>2 DEF TypeOK
<1>4. /\ Len(frames') = Len(frames) + 1
      /\ \A i \in DOMAIN frames : frames'[i] = frames[i]
      /\ frames'[Len(frames) + 1] = <<emitted + 1>>
      /\ DOMAIN frames' = DOMAIN frames \cup {Len(frames) + 1}
  BY <1>2 DEF TypeOK
<1>5. \A i \in DOMAIN frames : i \in Nat /\ i < Len(frames) + 1
  BY DEF TypeOK
<1>6. \A i \in DOMAIN frames : \A k \in DOMAIN frames[i] : frames[i][k] \in Int
  BY DEF TypeOK, Events
<1>7. DOMAIN <<emitted + 1>> = {1} /\ <<emitted + 1>>[1] = emitted + 1
  OBVIOUS
<1>8. Waiting'
  <2>1. ASSUME NEW i \in DOMAIN frames', NEW k \in DOMAIN frames'[i]
        PROVE  current < frames'[i][k] /\ frames'[i][k] <= emitted + 1
    BY <1>4, <1>6, <1>7 DEF Waiting, TypeOK, Behind
  <2>2. ASSUME NEW i \in DOMAIN frames', NEW j \in DOMAIN frames',
               NEW k \in DOMAIN frames'[i], NEW l \in DOMAIN frames'[j],
               i < j \/ (i = j /\ k < l)
        PROVE  frames'[i][k] < frames'[j][l]
    BY <2>2, <1>4, <1>5, <1>6, <1>7, SMTT(30) DEF Waiting, TypeOK
  <2> QED BY <2>1, <2>2 DEF Waiting
<1> QED BY <1>3, <1>8

\* An event in two pieces.
LEMMA InPieces ==
  ASSUME IInv, emitted < MaxEvents, emitted' = emitted + 1, current' = current,
         frames' = Append(Append(frames, <<>>), <<>>)
  PROVE  frames' \in Seq(Seq(Events)) /\ Waiting'
<1> USE BoundAssumption DEF IInv
<1>1. <<>> \in Seq(Events) /\ DOMAIN <<>> = {}
  OBVIOUS
<1>2. frames' \in Seq(Seq(Events))
  BY <1>1 DEF TypeOK
<1>3. DOMAIN frames = 1 .. Len(frames) /\ Len(frames) \in Nat
  BY DEF TypeOK
<1>4. DOMAIN frames' = 1 .. Len(frames) + 2
  BY <1>1, <1>3 DEF TypeOK
<1>5. /\ \A i \in 1 .. Len(frames) : frames'[i] = frames[i]
      /\ frames'[Len(frames) + 1] = <<>>
      /\ frames'[Len(frames) + 2] = <<>>
  BY <1>1, <1>3 DEF TypeOK
<1>6. \A i \in DOMAIN frames' :
        DOMAIN frames'[i] # {} => i \in DOMAIN frames /\ frames'[i] = frames[i]
  BY <1>1, <1>3, <1>4, <1>5
<1>7. \A i \in DOMAIN frames : \A k \in DOMAIN frames[i] :
        current < frames[i][k] /\ frames[i][k] <= emitted + 1
  BY DEF Waiting, TypeOK, Events
<1>8. Waiting'
  <2>1. ASSUME NEW i \in DOMAIN frames', NEW k \in DOMAIN frames'[i]
        PROVE  current' < frames'[i][k] /\ frames'[i][k] <= emitted'
    BY <1>6, <1>7
  <2>2. ASSUME NEW i \in DOMAIN frames', NEW j \in DOMAIN frames',
               NEW k \in DOMAIN frames'[i], NEW l \in DOMAIN frames'[j],
               i < j \/ (i = j /\ k < l)
        PROVE  frames'[i][k] < frames'[j][l]
    <3>1. /\ i \in DOMAIN frames /\ frames'[i] = frames[i]
          /\ j \in DOMAIN frames /\ frames'[j] = frames[j]
      BY <1>6
    <3> QED BY <2>2, <3>1 DEF Waiting
  <2> QED BY <2>1, <2>2 DEF Waiting
<1> QED BY <1>2, <1>8

\* An event behind others in their frame.
LEMMA SharedFrame ==
  ASSUME IInv, emitted < MaxEvents, emitted' = emitted + 1, current' = current,
         frames # <<>>,
         frames' = [frames EXCEPT ![Len(frames)] = Append(Last, emitted + 1)]
  PROVE  frames' \in Seq(Seq(Events)) /\ Waiting'
<1> USE BoundAssumption DEF IInv
<1> DEFINE n == Len(frames)
<1>1. emitted + 1 \in Events
  BY DEF TypeOK, Events
<1>2. n \in Nat /\ n \in DOMAIN frames /\ DOMAIN frames = 1 .. n
  BY DEF TypeOK
<1>3. Last \in Seq(Events)
  BY <1>2 DEF Last, TypeOK
<1>4. Append(Last, emitted + 1) \in Seq(Events)
  BY <1>1, <1>3
<1>5. frames' \in Seq(Seq(Events)) /\ DOMAIN frames' = 1 .. n
  BY <1>2, <1>4 DEF TypeOK
<1>6. /\ \A i \in 1 .. n : i # n => frames'[i] = frames[i]
      /\ frames'[n] = Append(frames[n], emitted + 1)
  BY <1>2 DEF Last, TypeOK
<1>7. /\ DOMAIN frames'[n] = DOMAIN frames[n] \cup {Len(frames[n]) + 1}
      /\ \A k \in DOMAIN frames[n] : /\ frames'[n][k] = frames[n][k]
                                     /\ k \in Nat /\ k < Len(frames[n]) + 1
      /\ frames'[n][Len(frames[n]) + 1] = emitted + 1
      /\ Len(frames[n]) \in Nat
  BY <1>1, <1>3, <1>6 DEF Last
<1>8. \A i \in 1 .. n : \A k \in DOMAIN frames[i] : frames[i][k] \in Int
  BY <1>2 DEF TypeOK, Events
<1>9. ASSUME NEW i \in 1 .. n, NEW k \in DOMAIN frames'[i]
      PROVE  \/ k \in DOMAIN frames[i] /\ frames'[i][k] = frames[i][k]
             \/ i = n /\ k = Len(frames[n]) + 1 /\ frames'[i][k] = emitted + 1
  BY <1>6, <1>7
<1>10. \A i \in 1 .. n : \A k \in DOMAIN frames[i] :
         current < frames[i][k] /\ frames[i][k] <= emitted
  BY <1>2 DEF Waiting
<1>11. current \in Int /\ emitted \in Int /\ current <= emitted
  BY DEF TypeOK, Behind
<1>12. ASSUME NEW i \in 1 .. n, NEW k \in DOMAIN frames'[i]
       PROVE  current' < frames'[i][k] /\ frames'[i][k] <= emitted'
  BY <1>8, <1>9, <1>10, <1>11
<1>13. ASSUME NEW i \in 1 .. n, NEW j \in 1 .. n,
              NEW k \in DOMAIN frames'[i], NEW l \in DOMAIN frames'[j],
              i < j \/ (i = j /\ k < l)
       PROVE  frames'[i][k] < frames'[j][l]
  <2>1. k \in DOMAIN frames[i] /\ frames'[i][k] = frames[i][k]
    <3>1. CASE i = n /\ k = Len(frames[n]) + 1
      <4>1. j = n /\ k < l
        BY <1>13, <3>1, <1>2
      <4> QED BY <4>1, <3>1, <1>7, <1>9
    <3> QED BY <3>1, <1>9
  <2>2. CASE l \in DOMAIN frames[j] /\ frames'[j][l] = frames[j][l]
    BY <1>13, <2>1, <2>2, <1>2 DEF Waiting
  <2>3. CASE frames'[j][l] = emitted + 1
    BY <2>1, <2>3, <1>8, <1>10, <1>11
  <2> QED BY <1>9, <2>2, <2>3
<1>14. Waiting'
  <2>1. \A i \in DOMAIN frames' : \A k \in DOMAIN frames'[i] :
          current' < frames'[i][k] /\ frames'[i][k] <= emitted'
    BY <1>5, <1>12
  <2>2. ASSUME NEW i \in DOMAIN frames', NEW j \in DOMAIN frames',
               NEW k \in DOMAIN frames'[i], NEW l \in DOMAIN frames'[j],
               i < j \/ (i = j /\ k < l)
        PROVE  frames'[i][k] < frames'[j][l]
    <3>1. i \in 1 .. n /\ j \in 1 .. n
      BY <1>5
    <3> QED BY <2>2, <3>1, <1>13
  <2> QED BY <2>1, <2>2 DEF Waiting
<1> QED BY <1>5, <1>14

\* The head is taken.
LEMMA Taken ==
  ASSUME IInv, frames # <<>>, frames' = Tail(frames), emitted' = emitted,
         current' = current \/ (Len(Head(frames)) = 1 /\ current' = Head(frames)[1])
  PROVE  frames' \in Seq(Seq(Events)) /\ Waiting'
<1> USE BoundAssumption DEF IInv
<1>1. frames' \in Seq(Seq(Events))
  BY DEF TypeOK
<1>2. \A i \in DOMAIN frames' : i + 1 \in DOMAIN frames /\ frames'[i] = frames[i + 1]
  BY DEF TypeOK
<1>3. \A i \in DOMAIN frames' : i \in Nat /\ 1 < i + 1
  BY <1>1
<1>4. \A i \in DOMAIN frames : \A k \in DOMAIN frames[i] : frames[i][k] \in Int
  BY DEF TypeOK, Events
<1>5. ASSUME NEW i \in DOMAIN frames', NEW k \in DOMAIN frames'[i]
      PROVE  current' < frames'[i][k] /\ frames'[i][k] <= emitted
  <2>1. CASE current' = current
    BY <2>1, <1>2 DEF Waiting
  <2>2. CASE Len(Head(frames)) = 1 /\ current' = Head(frames)[1]
    <3>1. 1 \in DOMAIN frames /\ Head(frames) = frames[1] /\ frames[1] \in Seq(Events)
      BY DEF TypeOK
    <3>2. 1 \in DOMAIN frames[1]
      BY <2>2, <3>1
    <3> QED BY <2>2, <3>1, <3>2, <1>2, <1>3 DEF Waiting
  <2> QED BY <2>1, <2>2
<1>6. ASSUME NEW i \in DOMAIN frames', NEW j \in DOMAIN frames',
             NEW k \in DOMAIN frames'[i], NEW l \in DOMAIN frames'[j],
             i < j \/ (i = j /\ k < l)
      PROVE  frames'[i][k] < frames'[j][l]
  <2>1. i + 1 < j + 1 \/ (i + 1 = j + 1 /\ k < l)
    BY <1>6, <1>3
  <2> QED BY <2>1, <1>2 DEF Waiting
<1> QED BY <1>1, <1>5, <1>6 DEF Waiting

\* Nothing waits.
LEMMA Dropped ==
  ASSUME frames' = <<>>
  PROVE  frames' \in Seq(Seq(Events)) /\ Waiting'
BY DEF Waiting

(***************************************************************************)
(* The events that are handed over.                                        *)
(***************************************************************************)
\* The head of the frames is ahead of everything that was handed over.
LEMMA TakeStep ==
  ASSUME IInv, TakeEvent
  PROVE  /\ current' \in Events /\ handed' \in Seq(Events)
         /\ Behind' /\ InOrderOnce'
<1> USE BoundAssumption DEF IInv
<1> DEFINE e == Head(frames)[1]
<1>1. 1 \in DOMAIN frames /\ Head(frames) = frames[1] /\ frames[1] \in Seq(Events)
  BY DEF TakeEvent, TypeOK
<1>2. 1 \in DOMAIN frames[1] /\ e \in Events
  BY <1>1 DEF TakeEvent
<1>3. current < e /\ e <= emitted
  BY <1>1, <1>2 DEF Waiting
<1>4. current' = e /\ emitted' = emitted
  BY DEF TakeEvent, nixdVars
<1>5. current \in Int /\ e \in Int /\ \A i \in DOMAIN handed : handed[i] \in Int
  BY <1>2 DEF TypeOK, Events
<1>6. CASE handed' = handed
  BY <1>2, <1>3, <1>4, <1>5, <1>6 DEF Behind, InOrderOnce, TypeOK
<1>7. CASE handed' = Append(handed, e)
  <2>1. /\ handed' \in Seq(Events)
        /\ DOMAIN handed' = DOMAIN handed \cup {Len(handed) + 1}
        /\ handed'[Len(handed) + 1] = e
        /\ \A i \in DOMAIN handed : /\ handed'[i] = handed[i]
                                   /\ i \in Nat /\ i < Len(handed) + 1
    BY <1>2, <1>7 DEF TypeOK
  <2>2. \A i \in DOMAIN handed : handed[i] < e
    BY <1>3, <1>5 DEF Behind
  <2>3. Behind'
    BY <1>3, <1>4, <1>5, <2>1, <2>2 DEF Behind
  <2>4. ASSUME NEW i \in DOMAIN handed', NEW j \in DOMAIN handed', i < j
        PROVE  handed'[i] < handed'[j]
    <3>1. i \in DOMAIN handed
      BY <2>1, <2>4 DEF TypeOK
    <3> QED BY <3>1, <2>1, <2>2, <2>4 DEF InOrderOnce
  <2> QED BY <1>2, <1>4, <2>1, <2>3, <2>4 DEF InOrderOnce
<1> QED BY <1>6, <1>7 DEF TakeEvent

(***************************************************************************)
(* The invariant.                                                          *)
(***************************************************************************)
\* A step that leaves the events and what was done with them alone.
LEMMA SameEvents ==
  ASSUME IInv, emitted' = emitted \/ emitted' = emitted + 1,
         UNCHANGED <<frames, current, handed>>
  PROVE  Waiting' /\ Behind' /\ InOrderOnce'
<1> USE BoundAssumption DEF IInv
<1>1. \A i \in DOMAIN frames : \A k \in DOMAIN frames[i] : frames[i][k] <= emitted
  BY DEF Waiting
<1>2. \A i \in DOMAIN frames : \A k \in DOMAIN frames[i] : frames[i][k] \in Int
  BY DEF TypeOK, Events
<1>3. emitted \in Int /\ current \in Int
  BY DEF TypeOK
<1> QED BY <1>1, <1>2, <1>3 DEF Waiting, Behind, InOrderOnce

\* determinate-nixd.
LEMMA NixdStep == IInv /\ Nixd => IInv'
<1> USE BoundAssumption
<1>1. ASSUME IInv, Emit PROVE IInv'
  <2> USE DEF IInv
  <2>1. emitted' \in 0 .. MaxEvents /\ emitted + 1 \in Events
    BY <1>1 DEF Emit, TypeOK, Events
  <2>2. Behind' /\ InOrderOnce'
    BY <1>1 DEF Emit, Behind, InOrderOnce, TypeOK
  <2>3. frames' \in Seq(Seq(Events)) /\ Waiting'
    <3>1. CASE frames' = frames
      BY <1>1, <3>1, SameEvents DEF Emit, TypeOK
    <3>2. CASE frames' # frames
      BY <1>1, <3>2, OwnFrame, InPieces, SharedFrame DEF Emit
    <3> QED BY <3>1, <3>2
  <2>4. alone' \subseteq Events
    BY <1>1, <2>1 DEF Emit, TypeOK
  <2>5. frames' # <<>> => pc' \in {"listen", "enqueue"}
    BY <1>1 DEF Emit, TypeOK
  <2>6. TypeOK'
    BY <1>1, <2>1, <2>3, <2>4, <2>5 DEF Emit, TypeOK
  <2> QED BY <2>2, <2>3, <2>6
<1>2. ASSUME IInv, Outage PROVE IInv'
  <2>1. Waiting' /\ Behind' /\ InOrderOnce'
    <3>1. CASE UNCHANGED frames
      BY <1>2, <3>1, SameEvents DEF Outage
    <3>2. CASE frames' = <<>>
      BY <1>2, <3>2 DEF Outage, IInv, Waiting, Behind, InOrderOnce
    <3> QED BY <1>2, <3>1, <3>2 DEF Outage
  <2>2. /\ frames' \in Seq(Seq(Events)) /\ (frames' # <<>> => frames' = frames)
        /\ alone' \subseteq Events
    <3>1. CASE UNCHANGED <<frames, alone>>
      BY <1>2, <3>1 DEF IInv, TypeOK
    <3>2. CASE frames' = <<>>
      BY <1>2, <3>2 DEF Outage, IInv, TypeOK
    <3> QED BY <1>2, <3>1, <3>2 DEF Outage
  <2>3. /\ up' = FALSE /\ outages' \in 0 .. MaxOutages /\ open' = FALSE
        /\ UNCHANGED <<pc, emitted, cancelled, current, handed>>
    BY <1>2 DEF Outage, IInv, TypeOK
  <2>4. TypeOK'
    BY <1>2, <2>2, <2>3 DEF IInv, TypeOK
  <2> QED BY <2>1, <2>4 DEF IInv
<1>3. ASSUME IInv, Return PROVE IInv'
  <2>1. Waiting' /\ Behind' /\ InOrderOnce'
    BY <1>3, SameEvents DEF Return
  <2>2. TypeOK'
    BY <1>3 DEF Return, IInv, TypeOK
  <2> QED BY <2>1, <2>2 DEF IInv
<1> QED BY <1>1, <1>2, <1>3 DEF Nixd

\* The task: only TakeEvent and SkipFrame touch the frames while it runs.
LEMMA TaskStep ==
  ASSUME IInv, Step \/ Cancel \/ Stop
  PROVE  IInv'
<1> USE BoundAssumption
<1>1. CASE Connected \/ ConnectFails \/ Wake \/ Subscribed \/ SubscribeFails \/ Enqueued
           \/ StreamEnds \/ Cancel
  <2>1. Waiting' /\ Behind' /\ InOrderOnce'
    BY <1>1, SameEvents DEF Connected, ConnectFails, Wake, Subscribed,
       SubscribeFails, Enqueued, StreamEnds, Cancel, nixdVars
  <2>2. TypeOK'
    <3>1. CASE Connected
      BY <3>1 DEF Connected, Goto, IInv, TypeOK, nixdVars
    <3>2. CASE ConnectFails
      BY <3>2 DEF ConnectFails, Goto, IInv, TypeOK, nixdVars
    <3>3. CASE Wake
      BY <3>3 DEF Wake, Goto, IInv, TypeOK, nixdVars
    <3>4. CASE Subscribed
      BY <3>4 DEF Subscribed, Goto, IInv, TypeOK, nixdVars
    <3>5. CASE SubscribeFails
      BY <3>5 DEF SubscribeFails, Goto, IInv, TypeOK, nixdVars
    <3>6. CASE Enqueued
      BY <3>6 DEF Enqueued, Goto, IInv, TypeOK, nixdVars
    <3>7. CASE StreamEnds
      BY <3>7 DEF StreamEnds, Goto, IInv, TypeOK, nixdVars
    <3>8. CASE Cancel
      BY <3>8 DEF Cancel, IInv, TypeOK, nixdVars
    <3> QED BY <1>1, <3>1, <3>2, <3>3, <3>4, <3>5, <3>6, <3>7, <3>8
  <2> QED BY <2>1, <2>2 DEF IInv
<1>2. CASE TakeEvent
  <2>1. frames' \in Seq(Seq(Events)) /\ Waiting'
    BY <1>2, Taken DEF TakeEvent, nixdVars
  <2>2. TypeOK'
    BY <1>2, <2>1, TakeStep, SMTT(30) DEF TakeEvent, Goto, IInv, TypeOK, Events, nixdVars
  <2> QED BY <1>2, <2>1, <2>2, TakeStep DEF IInv
<1>3. CASE SkipFrame
  <2>1. frames' \in Seq(Seq(Events)) /\ Waiting'
    BY <1>3, Taken DEF SkipFrame, nixdVars
  <2>2. TypeOK' /\ Behind' /\ InOrderOnce'
    BY <1>3, <2>1 DEF SkipFrame, IInv, TypeOK, Behind, InOrderOnce, nixdVars
  <2> QED BY <2>1, <2>2 DEF IInv
<1>4. CASE Stop
  <2>1. frames' \in Seq(Seq(Events)) /\ Waiting'
    BY <1>4, Dropped DEF Stop
  <2>2. TypeOK' /\ Behind' /\ InOrderOnce'
    BY <1>4, <2>1 DEF Stop, IInv, TypeOK, Behind, InOrderOnce, nixdVars
  <2> QED BY <2>1, <2>2 DEF IInv
<1> QED BY <1>1, <1>2, <1>3, <1>4 DEF Step, Listen

\* IInv holds of every reachable state.
LEMMA InductiveInvariant == Spec => []IInv
<1>1. ASSUME IInv, UNCHANGED vars PROVE IInv'
  <2>1. Waiting' /\ Behind' /\ InOrderOnce'
    BY <1>1, SameEvents DEF vars, nixdVars
  <2>2. TypeOK'
    BY <1>1 DEF IInv, TypeOK, vars, nixdVars
  <2> QED BY <2>1, <2>2 DEF IInv
<1>2. IInv /\ [Next]_vars => IInv'
  BY <1>1, NixdStep, TaskStep DEF Next
<1> QED BY InitInv, <1>2, PTL DEF Spec

\* Every variable stays in its range, and handle_events holds a subscription
\* only where it reads the response.
THEOREM TypeCorrect == Spec => []TypeOK
<1>1. IInv => TypeOK
  BY DEF IInv
<1> QED BY <1>1, InductiveInvariant, PTL

\* handle_events gives the outputs of a build to enqueue_paths once at most
\* and in the order of the builds, over any number of subscriptions and
\* frames split or merged in any way.
THEOREM EventsInOrderOnce == Spec => []InOrderOnce
<1>1. IInv => InOrderOnce
  BY DEF IInv
<1> QED BY <1>1, InductiveInvariant, PTL

(***************************************************************************)
(* The events that arrived in a frame of their own.                        *)
(***************************************************************************)
\* Frames that are added leave those that wait where they are.
LEMMA EmitKeepsAlone ==
  ASSUME IInv, BadFrameIsLocal, Emit
  PROVE  BadFrameIsLocal'
<1> USE BoundAssumption
<1> SUFFICES ASSUME pc # "stopped", NEW e \in alone'
             PROVE  e <= current \/ \E i \in DOMAIN frames' : frames'[i] = <<e>>
  BY DEF Emit, BadFrameIsLocal
<1>1. /\ frames \in Seq(Seq(Events)) /\ emitted \in Nat
      /\ DOMAIN frames = 1 .. Len(frames) /\ Len(frames) \in Nat
  BY DEF IInv, TypeOK
<1>2. e \in alone => e <= current \/ \E i \in DOMAIN frames : frames[i] = <<e>>
  BY DEF BadFrameIsLocal
<1>3. CASE UNCHANGED <<frames, alone>>
  BY <1>2, <1>3
<1>4. CASE frames' = Append(frames, <<emitted + 1>>) /\ alone' = alone \cup {emitted + 1}
  <2>1. /\ DOMAIN frames' = 1 .. Len(frames) + 1
        /\ \A i \in DOMAIN frames : frames'[i] = frames[i]
        /\ frames'[Len(frames) + 1] = <<emitted + 1>>
    BY <1>1, <1>4
  <2>2. \A i \in DOMAIN frames : i \in DOMAIN frames'
    BY <1>1, <2>1
  <2>3. Len(frames) + 1 \in DOMAIN frames'
    BY <1>1, <2>1
  <2>4. CASE e \in alone
    BY <1>2, <2>1, <2>2, <2>4
  <2>5. CASE e = emitted + 1
    BY <2>1, <2>3, <2>5
  <2> QED BY <1>4, <2>4, <2>5
<1>5. CASE frames' = Append(Append(frames, <<>>), <<>>) /\ alone' = alone
  <2>1. DOMAIN frames' = 1 .. Len(frames) + 2 /\ \A i \in DOMAIN frames : frames'[i] = frames[i]
    BY <1>1, <1>5
  <2>2. \A i \in DOMAIN frames : i \in DOMAIN frames'
    BY <1>1, <2>1
  <2> QED BY <1>2, <1>5, <2>1, <2>2
<1>6. CASE /\ frames # <<>>
           /\ frames' = [frames EXCEPT ![Len(frames)] = Append(Last, emitted + 1)]
           /\ alone' = alone \ {Last[i] : i \in DOMAIN Last}
  <2>1. e \in alone /\ \A i \in DOMAIN Last : Last[i] # e
    BY <1>6
  <2>2. Last # <<e>>
    <3>1. 1 \in DOMAIN <<e>> /\ <<e>>[1] = e
      OBVIOUS
    <3> QED BY <2>1, <3>1
  <2>3. \A i \in DOMAIN frames : i \in DOMAIN frames' /\ (i # Len(frames) => frames'[i] = frames[i])
    BY <1>1, <1>6
  <2> QED BY <1>2, <2>1, <2>2, <2>3 DEF Last
<1> QED BY <1>3, <1>4, <1>5, <1>6 DEF Emit

\* The frame that is taken is the event, or none that waits.
LEMMA TakenKeepsAlone ==
  ASSUME IInv, BadFrameIsLocal, TakeEvent \/ SkipFrame
  PROVE  BadFrameIsLocal'
<1> USE BoundAssumption
<1>1. frames \in Seq(Seq(Events)) /\ frames # <<>> /\ frames' = Tail(frames)
  BY DEF IInv, TypeOK, TakeEvent, SkipFrame
<1>2. alone' = alone /\ pc = "listen"
  BY DEF TakeEvent, SkipFrame, Goto
<1> SUFFICES ASSUME NEW e \in alone
             PROVE  e <= current' \/ \E i \in DOMAIN frames' : frames'[i] = <<e>>
  BY <1>2 DEF BadFrameIsLocal
<1>3. e \in Nat /\ current \in Nat
  BY DEF IInv, TypeOK, Events
<1>4. /\ Len(frames) \in Nat /\ DOMAIN frames = 1 .. Len(frames)
      /\ 1 \in DOMAIN frames /\ Head(frames) = frames[1]
      /\ DOMAIN frames' = 1 .. Len(frames) - 1
      /\ \A i \in DOMAIN frames' : frames'[i] = frames[i + 1]
  BY <1>1
<1>5. CASE e <= current
  <2>1. CASE TakeEvent
    <3>1. Len(frames[1]) = 1 /\ current' = frames[1][1] /\ frames[1] \in Seq(Events)
      BY <2>1, <1>1, <1>4 DEF TakeEvent
    <3>2. 1 \in DOMAIN frames[1] /\ frames[1][1] \in Nat
      BY <3>1 DEF Events
    <3>3. current < frames[1][1]
      BY <1>4, <3>2 DEF IInv, Waiting
    <3> QED BY <1>3, <1>5, <3>1, <3>2, <3>3
  <2>2. CASE SkipFrame
    BY <2>2, <1>5 DEF SkipFrame
  <2> QED BY <2>1, <2>2
<1>6. CASE \E i \in DOMAIN frames : frames[i] = <<e>>
  <2>1. PICK i \in DOMAIN frames : frames[i] = <<e>>
    BY <1>6
  <2>2. CASE i = 1
    <3>1. Len(Head(frames)) = 1 /\ Head(frames)[1] = e
      <4>1. Head(frames) = <<e>>
        BY <1>4, <2>1, <2>2
      <4>2. Len(<<e>>) = 1 /\ <<e>>[1] = e
        OBVIOUS
      <4> QED BY <4>1, <4>2
    <3>2. current' = e
      BY <3>1 DEF TakeEvent, SkipFrame
    <3> QED BY <1>3, <3>2
  <2>3. CASE i # 1
    <3>1. i - 1 \in DOMAIN frames' /\ i - 1 + 1 = i
      BY <1>4, <2>1, <2>3
    <3> QED BY <1>4, <2>1, <3>1
  <2> QED BY <2>2, <2>3
<1>7. e <= current \/ \E i \in DOMAIN frames : frames[i] = <<e>>
  BY <1>2 DEF BadFrameIsLocal
<1> QED BY <1>5, <1>6, <1>7

\* A frame that handle_events cannot decode costs no event but those in it.
THEOREM BadFramesAreLocal == Spec => []BadFrameIsLocal
<1>1. Init => BadFrameIsLocal
  BY DEF Init, BadFrameIsLocal
<1>2. ASSUME IInv, BadFrameIsLocal, [Next]_vars PROVE BadFrameIsLocal'
  <2>1. CASE Emit
    BY <1>2, <2>1, EmitKeepsAlone
  <2>2. CASE TakeEvent \/ SkipFrame
    BY <1>2, <2>2, TakenKeepsAlone
  <2>3. CASE Outage
    BY <1>2, <2>3 DEF Outage, BadFrameIsLocal
  <2>4. CASE Return \/ Cancel \/ Enqueued \/ StreamEnds \/ Connected \/ ConnectFails
             \/ Wake \/ Subscribed \/ SubscribeFails \/ UNCHANGED vars
    BY <1>2, <2>4
    DEF Return, Cancel, Enqueued, StreamEnds, Connected, ConnectFails, Wake,
        Subscribed, SubscribeFails, vars, nixdVars, Goto, BadFrameIsLocal
  <2>5. CASE Stop
    BY <2>5 DEF Stop, BadFrameIsLocal
  <2> QED BY <1>2, <2>1, <2>2, <2>3, <2>4, <2>5 DEF Next, Nixd, Step, Listen
<1> QED BY <1>1, <1>2, InductiveInvariant, PTL DEF Spec

(***************************************************************************)
(* BuildEvents implements OrderedFeed: TakeEvent gives, Emit makes, Cancel *)
(* asks and Stop ends; the other steps are not seen.                       *)
(***************************************************************************)
\* What is taken was made, and comes after all that was given before.
LEMMA TakeGives ==
  ASSUME IInv, TakeEvent
  PROVE  (\E n \in 1 .. emitted : Feed!Give(n)) \/ UNCHANGED Feed!vars
<1>1. frames # <<>> /\ Len(Head(frames)) = 1 /\ frames \in Seq(Seq(Events))
  BY DEF TakeEvent, IInv, TypeOK
<1>2. 1 \in DOMAIN frames /\ Head(frames) = frames[1] /\ frames[1] \in Seq(Events)
  BY <1>1
<1>3. 1 \in DOMAIN frames[1] /\ frames[1][1] \in Events
  <2>1. Len(frames[1]) = 1 /\ frames[1] \in Seq(Events)
    BY <1>1, <1>2
  <2> QED BY <2>1
<1> DEFINE n == frames[1][1]
<1>4. n \in 1 .. emitted /\ current < n
  BY <1>2, <1>3 DEF IInv, Waiting, TypeOK, Events
<1>5. \A i \in DOMAIN handed : handed[i] < n
  <2>1. n \in Nat /\ current \in Nat /\ current < n
    BY <1>3, <1>4 DEF IInv, TypeOK, Events
  <2>2. \A i \in DOMAIN handed : handed[i] \in Events
    BY DEF IInv, TypeOK
  <2>3. \A i \in DOMAIN handed : handed[i] \in Nat /\ handed[i] <= current
    BY <2>2 DEF IInv, Behind, Events
  <2> QED BY <2>1, <2>3
<1>6. UNCHANGED <<emitted, cancelled>> /\ pc = "listen" /\ pc' \in {"listen", "enqueue"}
  BY DEF TakeEvent, Goto, nixdVars
<1>7. CASE handed' = Append(handed, n)
  <2>1. Feed!Give(n)
    BY <1>5, <1>6, <1>7 DEF Feed!Give, Feed!Later
  <2> QED BY <1>4, <2>1
<1>8. CASE UNCHANGED handed
  BY <1>6, <1>8 DEF Feed!vars
<1> QED BY <1>2, <1>7, <1>8 DEF TakeEvent

\* A step of the subscription is a step of the feed, or changes nothing of it.
LEMMA FeedStep == IInv /\ [Next]_vars => [Feed!Next]_(Feed!vars)
<1> SUFFICES ASSUME IInv, [Next]_vars PROVE Feed!Next \/ UNCHANGED Feed!vars
  BY Zenon
<1>1. CASE Emit
  BY <1>1 DEF Emit, Feed!Next, Feed!Make
<1>2. CASE TakeEvent
  BY <1>2, TakeGives DEF Feed!Next
<1>3. CASE Cancel
  BY <1>3 DEF Cancel, nixdVars, Feed!Next, Feed!Ask
<1>4. CASE Stop
  BY <1>4 DEF Stop, nixdVars, Feed!Next, Feed!End
<1>5. CASE Outage \/ Return
  BY <1>5 DEF Outage, Return, Feed!vars
<1>6. CASE Connected \/ ConnectFails \/ Wake \/ Subscribed \/ SubscribeFails
           \/ SkipFrame \/ StreamEnds \/ Enqueued \/ UNCHANGED vars
  BY <1>6 DEF Connected, ConnectFails, Wake, Subscribed, SubscribeFails, SkipFrame,
              StreamEnds, Enqueued, Goto, vars, nixdVars, Feed!vars
<1> QED BY <1>1, <1>2, <1>3, <1>4, <1>5, <1>6 DEF Next, Nixd, Step, Listen

\* Whatever the socket and the frames do, the paths that reach enqueue_paths
\* are an ordered feed that ends only when the shutdown token asks for it.
THEOREM SubscriptionFeedsInOrder == Spec => FeedsInOrder
<1>1. Init => Feed!Init
  BY DEF Init, Feed!Init
<1> QED BY <1>1, FeedStep, InductiveInvariant, PTL DEF Spec, FeedsInOrder, Feed!Spec
==============================================================================
