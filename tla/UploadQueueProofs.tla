-------------------------- MODULE UploadQueueProofs --------------------------
(***************************************************************************)
(* Theorems about the upload queue for any sets of paths and calls: what   *)
(* the channel owes, and what a finish call waits for.                     *)
(***************************************************************************)
EXTENDS UploadQueue, TLAPS

USE DEF Callers, Ended, Awaiting, Goto, Without, Handled

(***************************************************************************)
(* The inductive invariant.                                                *)
(***************************************************************************)
Elements == {channel[i] : i \in DOMAIN channel}

\* While the handle is there nobody has sent the shutdown message.
HandleMeansOpen == handle => worker # "exited" /\ "shutdown" \notin Elements

\* p waits in the channel ahead of every shutdown message.
Ahead(p) == \E i \in DOMAIN channel :
              /\ channel[i] = p
              /\ \A j \in 1 .. i : channel[j] # "shutdown"
OwedAhead == \A p \in owed : p \in Handled \/ (worker # "exited" /\ Ahead(p))

\* What a call has found and sent is in the channel or handled.
Sent(c) == IF pc[c] = "sending" THEN closure[c] \ pending[c] ELSE closure[c]
ClosureKept ==
  gha => \A c \in Callers :
    /\ pc[c] \in {"idle", "lock", "scan", "closure"} => closure[c] = {}
    /\ pc[c] \notin {"failed", "dropped"} => Sent(c) \subseteq Handled \cup Elements

\* When no finish call was dropped: a finish call that is past a wait, or finds
\* that somebody else has been, finds the work done.
Drained ==
  /\ gha /\ ~handle => handleLock # Nobody \/ worker = "exited"
  /\ ~session => stateLock # Nobody \/ queued \subseteq settled
  /\ handleLock # Nobody => pc[handleLock] = "join"
  /\ stateLock # Nobody => pc[stateLock] = "wait"
  /\ \A h \in Hooks : pc[h] \notin {"join", "wait"}
  /\ \A f \in Callers :
       /\ gha /\ pc[f] \in {"take", "wait", "cancel"} => worker = "exited"
       /\ pc[f] = "wait" => ~session
       /\ pc[f] = "cancel" => ~session /\ queued \subseteq settled
  /\ cancelled => /\ gha => worker = "exited"
                  /\ ~session /\ queued \subseteq settled

IInv == /\ TypeOK
        /\ HandleMeansOpen
        /\ OwedAhead
        /\ ClosureKept
        /\ NoneDropped => Drained

(***************************************************************************)
(* The channel.                                                            *)
(***************************************************************************)
\* Sending keeps what is in the channel, in its place.
LEMMA Sending ==
  ASSUME NEW S, channel \in Seq(S), NEW m \in S, channel' = Append(channel, m)
  PROVE  /\ Elements' = Elements \cup {m}
         /\ \A p : Ahead(p) => Ahead(p)'
         /\ "shutdown" \notin Elements /\ m # "shutdown" => Ahead(m)'
<1>1. /\ DOMAIN channel = 1 .. Len(channel) /\ Len(channel) \in Nat
      /\ DOMAIN channel' = 1 .. Len(channel) + 1
      /\ channel'[Len(channel) + 1] = m
      /\ \A i \in DOMAIN channel : channel'[i] = channel[i]
  OBVIOUS
<1>2. Elements' = Elements \cup {m}
  <2>1. ASSUME NEW x \in Elements \cup {m} PROVE x \in Elements'
    <3>1. CASE x = m
      BY <3>1, <1>1, Len(channel) + 1 \in DOMAIN channel' DEF Elements
    <3>2. CASE x \in Elements
      <4>1. PICK i \in DOMAIN channel : x = channel[i]
        BY <3>2 DEF Elements
      <4>2. i \in DOMAIN channel' /\ channel'[i] = x
        BY <1>1, <4>1
      <4> QED BY <4>2 DEF Elements
    <3> QED BY <2>1, <3>1, <3>2
  <2>2. ASSUME NEW x \in Elements' PROVE x \in Elements \cup {m}
    <3>1. PICK i \in DOMAIN channel' : x = channel'[i]
      BY <2>2 DEF Elements
    <3>2. i \in DOMAIN channel \/ i = Len(channel) + 1
      BY <1>1
    <3> QED BY <1>1, <3>1, <3>2 DEF Elements
  <2> QED BY <2>1, <2>2
<1>3. ASSUME NEW p, Ahead(p) PROVE Ahead(p)'
  <2>1. PICK i \in DOMAIN channel : /\ channel[i] = p
                                    /\ \A j \in 1 .. i : channel[j] # "shutdown"
    BY <1>3 DEF Ahead
  <2>2. /\ i \in DOMAIN channel' /\ channel'[i] = p
        /\ \A j \in 1 .. i : j \in DOMAIN channel /\ channel'[j] # "shutdown"
    BY <1>1, <2>1
  <2> QED BY <2>2 DEF Ahead
<1>4. ASSUME "shutdown" \notin Elements, m # "shutdown" PROVE Ahead(m)'
  <2>1. \A j \in 1 .. Len(channel) + 1 : channel'[j] # "shutdown"
    BY <1>1, <1>4 DEF Elements
  <2> QED BY <1>1, <2>1, Len(channel) + 1 \in DOMAIN channel' DEF Ahead
<1> QED BY <1>2, <1>3, <1>4

\* Receiving takes the head, and nothing else, from the channel.
LEMMA Receiving ==
  ASSUME NEW S, channel \in Seq(S), channel # <<>>, channel' = Tail(channel)
  PROVE  /\ Elements = Elements' \cup {Head(channel)}
         /\ Head(channel) \in S
         /\ \A p : Ahead(p) => \/ p = Head(channel) /\ Head(channel) # "shutdown"
                               \/ Ahead(p)' /\ Head(channel) # "shutdown"
<1>1. /\ DOMAIN channel = 1 .. Len(channel) /\ Len(channel) \in Nat \ {0}
      /\ DOMAIN channel' = 1 .. Len(channel) - 1
      /\ Head(channel) = channel[1]
      /\ \A i \in DOMAIN channel' : channel'[i] = channel[i + 1]
  OBVIOUS
<1>2. Elements = Elements' \cup {Head(channel)}
  <2>1. ASSUME NEW x \in Elements PROVE x \in Elements' \cup {Head(channel)}
    <3>1. PICK i \in DOMAIN channel : x = channel[i]
      BY <2>1 DEF Elements
    <3>2. CASE i = 1
      BY <3>1, <3>2, <1>1
    <3>3. CASE i # 1
      <4>1. i - 1 \in DOMAIN channel' /\ channel'[i - 1] = x
        BY <1>1, <3>1, <3>3
      <4> QED BY <4>1 DEF Elements
    <3> QED BY <3>2, <3>3
  <2>2. ASSUME NEW x \in Elements' \cup {Head(channel)} PROVE x \in Elements
    <3>1. CASE x = Head(channel)
      BY <1>1, <3>1, 1 \in DOMAIN channel DEF Elements
    <3>2. CASE x \in Elements'
      <4>1. PICK i \in DOMAIN channel' : x = channel'[i]
        BY <3>2 DEF Elements
      <4>2. i + 1 \in DOMAIN channel /\ x = channel[i + 1]
        BY <1>1, <4>1
      <4> QED BY <4>2 DEF Elements
    <3> QED BY <2>2, <3>1, <3>2
  <2> QED BY <2>1, <2>2
<1>3. Head(channel) \in S
  BY <1>1
<1>4. ASSUME NEW p, Ahead(p)
      PROVE  /\ Head(channel) # "shutdown"
             /\ p = Head(channel) \/ Ahead(p)'
  <2>1. PICK i \in DOMAIN channel : /\ channel[i] = p
                                    /\ \A j \in 1 .. i : channel[j] # "shutdown"
    BY <1>4 DEF Ahead
  <2>2. Head(channel) # "shutdown"
    BY <1>1, <2>1
  <2>3. CASE i = 1
    BY <1>1, <2>1, <2>2, <2>3
  <2>4. CASE i # 1
    <3>1. i - 1 \in DOMAIN channel' /\ channel'[i - 1] = p
      BY <1>1, <2>1, <2>4
    <3>2. \A j \in 1 .. i - 1 : channel'[j] # "shutdown"
      BY <1>1, <2>1, <2>4
    <3> QED BY <2>2, <3>1, <3>2 DEF Ahead
  <2> QED BY <2>3, <2>4
<1> QED BY <1>2, <1>3, <1>4

(***************************************************************************)
(* Types, and that a lock's holder is where it holds it.                   *)
(***************************************************************************)
\* Every step keeps TypeOK: a lock is taken only when nobody holds it and
\* given back by its holder.
LEMMA TypeStep ==
  ASSUME TypeOK, Next
  PROVE  TypeOK'
<1> USE CallersAssumption
<1>1. ASSUME NEW c \in Callers, HookArrives(c) PROVE TypeOK'
  BY <1>1 DEF HookArrives, Arrive, TypeOK, workerVars, lockVars, pushVars,
      endVars
<1>2. ASSUME NEW c \in Callers, ComputeClosure(c) PROVE TypeOK'
  BY <1>2 DEF ComputeClosure, FailEnqueue, TypeOK, workerVars, pushVars,
      endVars
<1>3. ASSUME NEW c \in Callers, SendFails(c) PROVE TypeOK'
  BY <1>3 DEF SendFails, FailEnqueue, TypeOK, workerVars, pushVars, endVars
<1>4. ASSUME NEW c \in Callers, AllSent(c) PROVE TypeOK'
  BY <1>4 DEF AllSent, TypeOK, workerVars, lockVars, pushVars, endVars
<1>5. ASSUME NEW c \in Callers, QueueBatch(c) PROVE TypeOK'
  BY <1>5 DEF QueueBatch, FailEnqueue, AfterEnqueue, TypeOK, workerVars,
      endVars
<1>6. ASSUME NEW c \in Callers, FinishArrives(c) PROVE TypeOK'
  BY <1>6 DEF FinishArrives, Arrive, TypeOK, workerVars, lockVars, pushVars,
      endVars
<1>7. ASSUME NEW c \in Callers, LockOriginal(c) PROVE TypeOK'
  BY <1>7 DEF LockOriginal, TypeOK, workerVars, pushVars, endVars
<1>8. ASSUME NEW c \in Callers, ScanStore(c) PROVE TypeOK'
  BY <1>8 DEF ScanStore, FailEnqueue, TypeOK, workerVars, pushVars, endVars
<1>9. ASSUME NEW c \in Callers, TakeHandle(c) PROVE TypeOK'
  <2>1. channel' \in Seq(Paths \cup {"shutdown"})
    BY <1>9 DEF TakeHandle, TypeOK
  <2>2. \A f \in Callers : pc'[f] = "join" => handleLock' = f
    BY <1>9 DEF TakeHandle, TypeOK
  <2> QED BY <1>9, <2>1, <2>2 DEF TakeHandle, TypeOK, workerVars, pushVars,
      endVars
<1>10. ASSUME NEW c \in Callers, HandleGone(c) PROVE TypeOK'
  BY <1>10 DEF HandleGone, TypeOK, workerVars, lockVars, pushVars, endVars
<1>11. ASSUME NEW c \in Callers, JoinWorker(c) PROVE TypeOK'
  BY <1>11 DEF JoinWorker, TypeOK, workerVars, pushVars, endVars
<1>12. ASSUME NEW c \in Callers, TakeSession(c) PROVE TypeOK'
  BY <1>12, ZenonT(40) DEF TakeSession, TypeOK, workerVars, pushVars, endVars
<1>13. ASSUME NEW c \in Callers, WaitSession(c) PROVE TypeOK'
  BY <1>13 DEF WaitSession, TypeOK, workerVars, endVars
<1>14. ASSUME NEW c \in Callers, Cancel(c) PROVE TypeOK'
  BY <1>14 DEF Cancel, TypeOK, workerVars, lockVars, pushVars
<1>15. ASSUME NEW c \in Callers, Disconnect(c) PROVE TypeOK'
  BY <1>15 DEF Disconnect, TypeOK, workerVars, pushVars, endVars
<1>16. ASSUME NEW c \in Callers, NEW p \in Paths, SendPath(c, p) PROVE TypeOK'
  BY <1>16 DEF SendPath, TypeOK, workerVars, lockVars, pushVars, endVars
<1>17. CASE Receive
  <2>1. /\ channel' \in Seq(Paths \cup {"shutdown"})
        /\ Head(channel) \in Paths \cup {"shutdown"}
    BY <1>17 DEF Receive, TypeOK
  <2> QED BY <1>17, <2>1 DEF Receive, TypeOK, lockVars, pushVars, endVars
<1>18. CASE UploadEnds
  BY <1>18 DEF UploadEnds, TypeOK, lockVars, pushVars, endVars
<1>19. CASE TrippedElsewhere
  BY <1>19 DEF TrippedElsewhere, TypeOK, lockVars, pushVars, endVars
<1>20. CASE StopListening \/ Exit
  BY <1>20 DEF StopListening, Exit, TypeOK, workerVars, lockVars, pushVars
<1> QED
  BY <1>1, <1>2, <1>3, <1>4, <1>5, <1>6, <1>7, <1>8, <1>9, <1>10, <1>11,
      <1>12, <1>13, <1>14, <1>15, <1>16, <1>17, <1>18, <1>19, <1>20
     DEF Next, CallerStep, Enqueue, Finish

(***************************************************************************)
(* What the channel owes.                                                  *)
(***************************************************************************)
\* The shutdown message is sent by whoever takes the handle, and the worker
\* ends by receiving it.
LEMMA OpenStep ==
  ASSUME TypeOK, HandleMeansOpen, Next
  PROVE  HandleMeansOpen'
<1> USE PathsAssumption
<1>1. ASSUME NEW c \in Callers, HookArrives(c) PROVE HandleMeansOpen'
  BY <1>1 DEF HookArrives, Arrive, HandleMeansOpen, Elements, TypeOK,
      workerVars, lockVars
<1>2. ASSUME NEW c \in Callers, ComputeClosure(c) PROVE HandleMeansOpen'
  BY <1>2 DEF ComputeClosure, FailEnqueue, HandleMeansOpen, Elements, TypeOK,
      workerVars
<1>3. ASSUME NEW c \in Callers, SendFails(c) PROVE HandleMeansOpen'
  BY <1>3 DEF SendFails, FailEnqueue, HandleMeansOpen, Elements, TypeOK,
      workerVars
<1>4. ASSUME NEW c \in Callers, AllSent(c) PROVE HandleMeansOpen'
  BY <1>4 DEF AllSent, HandleMeansOpen, Elements, TypeOK, workerVars, lockVars
<1>5. ASSUME NEW c \in Callers, QueueBatch(c) PROVE HandleMeansOpen'
  BY <1>5 DEF QueueBatch, FailEnqueue, AfterEnqueue, HandleMeansOpen,
      Elements, TypeOK, workerVars
<1>6. ASSUME NEW c \in Callers, FinishArrives(c) PROVE HandleMeansOpen'
  BY <1>6 DEF FinishArrives, Arrive, HandleMeansOpen, Elements, TypeOK,
      workerVars, lockVars
<1>7. ASSUME NEW c \in Callers, LockOriginal(c) PROVE HandleMeansOpen'
  BY <1>7 DEF LockOriginal, HandleMeansOpen, Elements, TypeOK, workerVars
<1>8. ASSUME NEW c \in Callers, ScanStore(c) PROVE HandleMeansOpen'
  BY <1>8 DEF ScanStore, FailEnqueue, HandleMeansOpen, Elements, TypeOK,
      workerVars
<1>9. ASSUME NEW c \in Callers, TakeHandle(c) PROVE HandleMeansOpen'
  BY <1>9 DEF TakeHandle, HandleMeansOpen
<1>10. ASSUME NEW c \in Callers, HandleGone(c) PROVE HandleMeansOpen'
  BY <1>10 DEF HandleGone, HandleMeansOpen, Elements, TypeOK, workerVars,
      lockVars
<1>11. ASSUME NEW c \in Callers, JoinWorker(c) PROVE HandleMeansOpen'
  BY <1>11 DEF JoinWorker, HandleMeansOpen, Elements, TypeOK, workerVars
<1>12. ASSUME NEW c \in Callers, TakeSession(c) PROVE HandleMeansOpen'
  BY <1>12 DEF TakeSession, HandleMeansOpen, Elements, TypeOK, workerVars
<1>13. ASSUME NEW c \in Callers, WaitSession(c) PROVE HandleMeansOpen'
  BY <1>13 DEF WaitSession, HandleMeansOpen, Elements, TypeOK, workerVars
<1>14. ASSUME NEW c \in Callers, Cancel(c) PROVE HandleMeansOpen'
  BY <1>14 DEF Cancel, HandleMeansOpen, Elements, TypeOK, workerVars, lockVars
<1>15. ASSUME NEW c \in Callers, Disconnect(c) PROVE HandleMeansOpen'
  BY <1>15 DEF Disconnect, HandleMeansOpen, Elements, TypeOK, workerVars
<1>16. ASSUME NEW c \in Callers, NEW p \in Paths, SendPath(c, p) PROVE HandleMeansOpen'
  <2>1. Elements' = Elements \cup {p}
    BY <1>16, Sending DEF SendPath, TypeOK
  <2> QED BY <1>16, <2>1 DEF SendPath, HandleMeansOpen, workerVars, lockVars
<1>17. CASE Receive
  <2>1. Elements = Elements' \cup {Head(channel)} /\ Head(channel) \in Paths \cup {"shutdown"}
    BY <1>17, Receiving DEF Receive, TypeOK
  <2> QED BY <1>17, <2>1 DEF Receive, HandleMeansOpen, TypeOK, lockVars
<1>18. CASE UploadEnds
  BY <1>18 DEF UploadEnds, HandleMeansOpen, Elements, TypeOK, lockVars
<1>19. CASE TrippedElsewhere
  BY <1>19 DEF TrippedElsewhere, HandleMeansOpen, Elements, TypeOK, lockVars
<1>20. CASE StopListening \/ Exit
  BY <1>20 DEF StopListening, Exit, HandleMeansOpen, Elements, TypeOK, workerVars, lockVars
<1> QED
  BY <1>1, <1>2, <1>3, <1>4, <1>5, <1>6, <1>7, <1>8, <1>9, <1>10, <1>11,
      <1>12, <1>13, <1>14, <1>15, <1>16, <1>17, <1>18, <1>19, <1>20
     DEF Next, CallerStep, Enqueue, Finish

\* A path that was sent in time stays ahead of the shutdown message until the
\* worker takes it.
LEMMA OwedStep ==
  ASSUME TypeOK, HandleMeansOpen, OwedAhead, Next
  PROVE  OwedAhead'
<1> USE PathsAssumption
<1>1. ASSUME NEW c \in Callers, HookArrives(c) PROVE OwedAhead'
  BY <1>1 DEF HookArrives, Arrive, OwedAhead, Ahead, workerVars
<1>2. ASSUME NEW c \in Callers, ComputeClosure(c) PROVE OwedAhead'
  BY <1>2 DEF ComputeClosure, FailEnqueue, OwedAhead, Ahead, workerVars
<1>3. ASSUME NEW c \in Callers, SendFails(c) PROVE OwedAhead'
  BY <1>3 DEF SendFails, FailEnqueue, OwedAhead, Ahead, workerVars
<1>4. ASSUME NEW c \in Callers, AllSent(c) PROVE OwedAhead'
  BY <1>4 DEF AllSent, OwedAhead, Ahead, workerVars
<1>5. ASSUME NEW c \in Callers, QueueBatch(c) PROVE OwedAhead'
  BY <1>5 DEF QueueBatch, FailEnqueue, AfterEnqueue, OwedAhead, Ahead,
      workerVars
<1>6. ASSUME NEW c \in Callers, FinishArrives(c) PROVE OwedAhead'
  BY <1>6 DEF FinishArrives, Arrive, OwedAhead, Ahead, workerVars
<1>7. ASSUME NEW c \in Callers, LockOriginal(c) PROVE OwedAhead'
  BY <1>7 DEF LockOriginal, OwedAhead, Ahead, workerVars
<1>8. ASSUME NEW c \in Callers, ScanStore(c) PROVE OwedAhead'
  BY <1>8 DEF ScanStore, FailEnqueue, OwedAhead, Ahead, workerVars
<1>9. ASSUME NEW c \in Callers, TakeHandle(c) PROVE OwedAhead'
  <2>1. \A p : Ahead(p) => Ahead(p)'
    BY <1>9, Sending DEF TakeHandle, TypeOK
  <2> QED BY <1>9, <2>1 DEF TakeHandle, OwedAhead, workerVars
<1>10. ASSUME NEW c \in Callers, HandleGone(c) PROVE OwedAhead'
  BY <1>10 DEF HandleGone, OwedAhead, Ahead, workerVars
<1>11. ASSUME NEW c \in Callers, JoinWorker(c) PROVE OwedAhead'
  BY <1>11 DEF JoinWorker, OwedAhead, Ahead, workerVars
<1>12. ASSUME NEW c \in Callers, TakeSession(c) PROVE OwedAhead'
  BY <1>12 DEF TakeSession, OwedAhead, Ahead, workerVars
<1>13. ASSUME NEW c \in Callers, WaitSession(c) PROVE OwedAhead'
  BY <1>13 DEF WaitSession, OwedAhead, Ahead, workerVars
<1>14. ASSUME NEW c \in Callers, Cancel(c) PROVE OwedAhead'
  BY <1>14 DEF Cancel, OwedAhead, Ahead, workerVars
<1>15. ASSUME NEW c \in Callers, Disconnect(c) PROVE OwedAhead'
  BY <1>15 DEF Disconnect, OwedAhead, Ahead, workerVars
<1>16. ASSUME NEW c \in Callers, NEW p \in Paths, SendPath(c, p) PROVE OwedAhead'
  <2>1. /\ \A q : Ahead(q) => Ahead(q)'
        /\ handle => Ahead(p)'
    BY <1>16, Sending DEF SendPath, TypeOK, HandleMeansOpen
  <2> QED BY <1>16, <2>1 DEF SendPath, OwedAhead, workerVars
<1>17. CASE Receive
  <2>2. Head(channel) # "shutdown" => Head(channel) \in Handled' /\ worker' # "exited"
    BY <1>17, Receiving DEF Receive, TypeOK
  <2>3. Handled \subseteq Handled' /\ worker # "exited" /\ owed' = owed
    BY <1>17 DEF Receive
  <2>4. ASSUME NEW q \in owed'
        PROVE  (q \in Handled \/ (worker # "exited" /\ Ahead(q)))'
    <3>1. q \in Handled \/ Ahead(q)
      BY <2>3, <2>4 DEF OwedAhead
    <3>2. CASE q \in Handled
      BY <2>3, <3>2
    <3>3. CASE Ahead(q)
      <4>1. Head(channel) # "shutdown" /\ (q = Head(channel) \/ Ahead(q)')
        BY <1>17, <3>3, Receiving DEF Receive, TypeOK
      <4> QED BY <2>2, <4>1
    <3> QED BY <3>1, <3>2, <3>3
  <2> QED BY <2>4 DEF OwedAhead
<1>18. CASE UploadEnds
  BY <1>18 DEF UploadEnds, OwedAhead, Ahead
<1>19. CASE TrippedElsewhere
  BY <1>19 DEF TrippedElsewhere, OwedAhead, Ahead
<1>20. CASE StopListening \/ Exit
  BY <1>20 DEF StopListening, Exit, OwedAhead, Ahead, workerVars
<1> QED
  BY <1>1, <1>2, <1>3, <1>4, <1>5, <1>6, <1>7, <1>8, <1>9, <1>10, <1>11,
      <1>12, <1>13, <1>14, <1>15, <1>16, <1>17, <1>18, <1>19, <1>20
     DEF Next, CallerStep, Enqueue, Finish

(***************************************************************************)
(* What a call found is not lost.                                          *)
(***************************************************************************)
\* The loop leaves with an error when a send fails, so what it has passed is
\* in the channel, and the worker drops nothing it takes out.
LEMMA KeptStep ==
  ASSUME TypeOK, ClosureKept, Next
  PROVE  ClosureKept'
<1> USE CallersAssumption, PathsAssumption
<1> DEFINE Kept == Handled \cup Elements
<1>1. ASSUME NEW c \in Callers, HookArrives(c) PROVE ClosureKept'
  BY <1>1 DEF HookArrives, Arrive, ClosureKept, Sent, Elements, TypeOK,
      workerVars
<1>2. ASSUME NEW c \in Callers, ComputeClosure(c) PROVE ClosureKept'
  BY <1>2 DEF ComputeClosure, FailEnqueue, ClosureKept, Sent, Elements,
      TypeOK, workerVars
<1>3. ASSUME NEW c \in Callers, SendFails(c) PROVE ClosureKept'
  BY <1>3 DEF SendFails, FailEnqueue, ClosureKept, Sent, Elements, TypeOK,
      workerVars
<1>4. ASSUME NEW c \in Callers, AllSent(c) PROVE ClosureKept'
  BY <1>4 DEF AllSent, ClosureKept, Sent, Elements, TypeOK, workerVars
<1>5. ASSUME NEW c \in Callers, QueueBatch(c) PROVE ClosureKept'
  BY <1>5 DEF QueueBatch, FailEnqueue, AfterEnqueue, ClosureKept, Sent,
      Elements, TypeOK, workerVars
<1>6. ASSUME NEW c \in Callers, FinishArrives(c) PROVE ClosureKept'
  BY <1>6 DEF FinishArrives, Arrive, ClosureKept, Sent, Elements, TypeOK,
      workerVars
<1>7. ASSUME NEW c \in Callers, LockOriginal(c) PROVE ClosureKept'
  BY <1>7 DEF LockOriginal, ClosureKept, Sent, Elements, TypeOK, workerVars
<1>8. ASSUME NEW c \in Callers, ScanStore(c) PROVE ClosureKept'
  BY <1>8 DEF ScanStore, FailEnqueue, ClosureKept, Sent, Elements, TypeOK,
      workerVars
<1>9. ASSUME NEW c \in Callers, TakeHandle(c) PROVE ClosureKept'
  <2>1. Elements \subseteq Elements'
    BY <1>9, Sending DEF TakeHandle, TypeOK
  <2> QED BY <1>9, <2>1 DEF TakeHandle, ClosureKept, Sent, TypeOK, workerVars
<1>10. ASSUME NEW c \in Callers, HandleGone(c) PROVE ClosureKept'
  BY <1>10 DEF HandleGone, ClosureKept, Sent, Elements, TypeOK, workerVars
<1>11. ASSUME NEW c \in Callers, JoinWorker(c) PROVE ClosureKept'
  BY <1>11 DEF JoinWorker, ClosureKept, Sent, Elements, TypeOK, workerVars
<1>12. ASSUME NEW c \in Callers, TakeSession(c) PROVE ClosureKept'
  BY <1>12 DEF TakeSession, ClosureKept, Sent, Elements, TypeOK, workerVars
<1>13. ASSUME NEW c \in Callers, WaitSession(c) PROVE ClosureKept'
  BY <1>13 DEF WaitSession, ClosureKept, Sent, Elements, TypeOK, workerVars
<1>14. ASSUME NEW c \in Callers, Cancel(c) PROVE ClosureKept'
  BY <1>14 DEF Cancel, ClosureKept, Sent, Elements, TypeOK, workerVars
<1>15. ASSUME NEW c \in Callers, Disconnect(c) PROVE ClosureKept'
  BY <1>15 DEF Disconnect, ClosureKept, Sent, Elements, TypeOK, workerVars
<1>16. ASSUME NEW c \in Callers, NEW p \in Paths, SendPath(c, p) PROVE ClosureKept'
  <2>1. Elements' = Elements \cup {p}
    BY <1>16, Sending DEF SendPath, TypeOK
  <2> QED BY <1>16, <2>1 DEF SendPath, ClosureKept, Sent, TypeOK, workerVars
<1>17. CASE Receive
  <2>1. Elements = Elements' \cup {Head(channel)}
    BY <1>17, Receiving DEF Receive, TypeOK
  <2>2. Handled' \cup {"shutdown"} = Handled \cup {Head(channel), "shutdown"}
    BY <1>17 DEF Receive, TypeOK
  <2>3. Kept \ {"shutdown"} \subseteq Kept'
    BY <2>1, <2>2
  <2>4. \A c \in Callers : Sent(c)' = Sent(c) /\ "shutdown" \notin Sent(c)
    BY <1>17 DEF Receive, Sent, TypeOK
  <2> QED BY <1>17, <2>3, <2>4 DEF Receive, ClosureKept
<1>18. CASE UploadEnds
  BY <1>18 DEF UploadEnds, ClosureKept, Sent, Elements, TypeOK
<1>19. CASE TrippedElsewhere
  BY <1>19 DEF TrippedElsewhere, ClosureKept, Sent, Elements, TypeOK
<1>20. CASE StopListening \/ Exit
  <2>1. UNCHANGED <<gha, pc, closure, pending, channel, worker, done, skipped>>
    BY <1>20 DEF StopListening, Exit, workerVars
  <2>2. Handled' = Handled /\ Elements' = Elements
    BY <2>1 DEF Handled, Elements
  <2> QED BY <2>1, <2>2 DEF ClosureKept, Sent
<1> QED
  BY <1>1, <1>2, <1>3, <1>4, <1>5, <1>6, <1>7, <1>8, <1>9, <1>10, <1>11,
      <1>12, <1>13, <1>14, <1>15, <1>16, <1>17, <1>18, <1>19, <1>20
     DEF Next, CallerStep, Enqueue, Finish

(***************************************************************************)
(* What a finish call waits for.                                           *)
(***************************************************************************)
\* The guard is kept while the worker or the session is waited for, so a
\* second finish call that finds either gone finds it finished.
LEMMA DrainedStep ==
  ASSUME TypeOK, HandleMeansOpen, Drained, NoneDropped', Next
  PROVE  Drained'
<1> USE CallersAssumption, PathsAssumption
<1>1. ASSUME NEW c \in Callers, HookArrives(c) PROVE Drained'
  BY <1>1 DEF HookArrives, Arrive, Drained, TypeOK, workerVars, lockVars,
      pushVars, endVars
<1>2. ASSUME NEW c \in Callers, ComputeClosure(c) PROVE Drained'
  BY <1>2 DEF ComputeClosure, FailEnqueue, Drained, TypeOK, workerVars,
      pushVars, endVars
<1>3. ASSUME NEW c \in Callers, SendFails(c) PROVE Drained'
  BY <1>3 DEF SendFails, FailEnqueue, Drained, TypeOK, workerVars, pushVars,
      endVars
<1>4. ASSUME NEW c \in Callers, AllSent(c) PROVE Drained'
  BY <1>4 DEF AllSent, Drained, TypeOK, workerVars, lockVars, pushVars, endVars
<1>5. ASSUME NEW c \in Callers, QueueBatch(c) PROVE Drained'
  BY <1>5 DEF QueueBatch, FailEnqueue, AfterEnqueue, Drained, TypeOK,
      workerVars, endVars
<1>6. ASSUME NEW c \in Callers, FinishArrives(c) PROVE Drained'
  BY <1>6 DEF FinishArrives, Arrive, Drained, TypeOK, workerVars, lockVars,
      pushVars, endVars
<1>7. ASSUME NEW c \in Callers, LockOriginal(c) PROVE Drained'
  BY <1>7 DEF LockOriginal, Drained, TypeOK, workerVars, pushVars, endVars
<1>8. ASSUME NEW c \in Callers, ScanStore(c) PROVE Drained'
  BY <1>8 DEF ScanStore, FailEnqueue, Drained, TypeOK, workerVars, pushVars,
      endVars
<1>9. ASSUME NEW c \in Callers, c \in Finishers, TakeHandle(c) PROVE Drained'
  BY <1>9 DEF TakeHandle, Drained, TypeOK, workerVars, pushVars, endVars
<1>10. ASSUME NEW c \in Callers, HandleGone(c) PROVE Drained'
  BY <1>10 DEF HandleGone, Drained, TypeOK, workerVars, lockVars, pushVars,
      endVars
<1>11. ASSUME NEW c \in Callers, JoinWorker(c) PROVE Drained'
  BY <1>11 DEF JoinWorker, Drained, TypeOK, workerVars, pushVars, endVars
<1>12. ASSUME NEW c \in Callers, c \in Finishers, TakeSession(c) PROVE Drained'
  BY <1>12 DEF TakeSession, Drained, TypeOK, workerVars, pushVars, endVars
<1>13. ASSUME NEW c \in Callers, WaitSession(c) PROVE Drained'
  BY <1>13 DEF WaitSession, Drained, TypeOK, workerVars, endVars
<1>14. ASSUME NEW c \in Callers, Cancel(c) PROVE Drained'
  BY <1>14 DEF Cancel, Drained, TypeOK, workerVars, lockVars, pushVars
<1>15. ASSUME NEW c \in Callers, Disconnect(c) PROVE Drained'
  BY <1>15 DEF Disconnect, Drained, NoneDropped, Callers, Without, TypeOK,
      workerVars, pushVars, endVars
<1>16. ASSUME NEW c \in Callers, NEW p \in Paths, SendPath(c, p) PROVE Drained'
  BY <1>16 DEF SendPath, Drained, TypeOK, workerVars, lockVars, pushVars,
      endVars
<1>17. CASE Receive
  BY <1>17 DEF Receive, Drained, TypeOK, lockVars, pushVars, endVars
<1>18. CASE UploadEnds
  BY <1>18 DEF UploadEnds, Drained, TypeOK, lockVars, pushVars, endVars
<1>19. CASE TrippedElsewhere
  BY <1>19 DEF TrippedElsewhere, Drained, TypeOK, lockVars, pushVars, endVars
<1>20. CASE StopListening \/ Exit
  BY <1>20 DEF StopListening, Exit, Drained, TypeOK, workerVars, lockVars, pushVars
<1> QED
  BY <1>1, <1>2, <1>3, <1>4, <1>5, <1>6, <1>7, <1>8, <1>9, <1>10, <1>11,
      <1>12, <1>13, <1>14, <1>15, <1>16, <1>17, <1>18, <1>19, <1>20
     DEF Next, CallerStep, Enqueue, Finish

\* A dropped call stays dropped.
LEMMA DroppedStays ==
  ASSUME TypeOK, Next, NoneDropped'
  PROVE  NoneDropped
<1> USE CallersAssumption
<1> SUFFICES ASSUME NEW f \in Finishers, pc[f] = "dropped" PROVE pc'[f] = "dropped"
  BY DEF NoneDropped
<1> f \in Callers
  BY DEF Callers
<1>1. ASSUME NEW c \in Callers, HookArrives(c) PROVE pc'[f] = "dropped"
  BY <1>1 DEF HookArrives, Arrive, Goto, TypeOK
<1>2. ASSUME NEW c \in Callers, ComputeClosure(c) PROVE pc'[f] = "dropped"
  BY <1>2 DEF ComputeClosure, FailEnqueue, Goto, TypeOK
<1>3. ASSUME NEW c \in Callers, SendFails(c) PROVE pc'[f] = "dropped"
  BY <1>3 DEF SendFails, FailEnqueue, Goto, TypeOK
<1>4. ASSUME NEW c \in Callers, AllSent(c) PROVE pc'[f] = "dropped"
  BY <1>4 DEF AllSent, Goto, TypeOK
<1>5. ASSUME NEW c \in Callers, QueueBatch(c) PROVE pc'[f] = "dropped"
  BY <1>5 DEF QueueBatch, FailEnqueue, AfterEnqueue, Goto, TypeOK
<1>6. ASSUME NEW c \in Callers, FinishArrives(c) PROVE pc'[f] = "dropped"
  BY <1>6 DEF FinishArrives, Arrive, Goto, TypeOK
<1>7. ASSUME NEW c \in Callers, LockOriginal(c) PROVE pc'[f] = "dropped"
  BY <1>7 DEF LockOriginal, Goto, TypeOK
<1>8. ASSUME NEW c \in Callers, ScanStore(c) PROVE pc'[f] = "dropped"
  BY <1>8 DEF ScanStore, FailEnqueue, Goto, TypeOK
<1>9. ASSUME NEW c \in Callers, TakeHandle(c) PROVE pc'[f] = "dropped"
  BY <1>9 DEF TakeHandle, Goto, TypeOK
<1>10. ASSUME NEW c \in Callers, HandleGone(c) PROVE pc'[f] = "dropped"
  BY <1>10 DEF HandleGone, Goto, TypeOK
<1>11. ASSUME NEW c \in Callers, JoinWorker(c) PROVE pc'[f] = "dropped"
  BY <1>11 DEF JoinWorker, Goto, TypeOK
<1>12. ASSUME NEW c \in Callers, TakeSession(c) PROVE pc'[f] = "dropped"
  BY <1>12 DEF TakeSession, Goto, TypeOK
<1>13. ASSUME NEW c \in Callers, WaitSession(c) PROVE pc'[f] = "dropped"
  BY <1>13 DEF WaitSession, Goto, TypeOK
<1>14. ASSUME NEW c \in Callers, Cancel(c) PROVE pc'[f] = "dropped"
  BY <1>14 DEF Cancel, Goto, TypeOK
<1>15. ASSUME NEW c \in Callers, Disconnect(c) PROVE pc'[f] = "dropped"
  BY <1>15 DEF Disconnect, Awaiting, Goto, TypeOK
<1>16. ASSUME NEW c \in Callers, NEW p \in Paths, SendPath(c, p) PROVE pc'[f] = "dropped"
  BY <1>16 DEF SendPath, TypeOK
<1>17. CASE Receive \/ UploadEnds \/ TrippedElsewhere \/ StopListening \/ Exit
  BY <1>17 DEF Receive, UploadEnds, TrippedElsewhere, StopListening, Exit
<1> QED
  BY <1>1, <1>2, <1>3, <1>4, <1>5, <1>6, <1>7, <1>8, <1>9, <1>10, <1>11, <1>12, <1>13, <1>14, <1>15, <1>16, <1>17
     DEF Next, CallerStep, Enqueue, Finish

(***************************************************************************)
(* The invariant and the theorems.                                         *)
(***************************************************************************)
\* Init establishes every part.
LEMMA InitInv == Init => IInv
<1> SUFFICES ASSUME Init PROVE IInv
  OBVIOUS
<1> USE CallersAssumption, PathsAssumption
<1>1. TypeOK
  <2>1. {tripped, handle, session, cancelled, listening, exited} \subseteq BOOLEAN
    BY Zenon DEF Init
  <2>2. channel \in Seq(Paths \cup {"shutdown"})
    BY DEF Init
  <2> QED BY <2>1, <2>2 DEF Init, TypeOK
<1>2. HandleMeansOpen /\ OwedAhead /\ ClosureKept
  BY DEF Init, HandleMeansOpen, OwedAhead, ClosureKept, Sent, Elements
<1>3. Drained
  BY DEF Init, Drained
<1> QED BY <1>1, <1>2, <1>3 DEF IInv

\* A stuttering step changes nothing the invariant speaks of.
LEMMA SameInv == IInv /\ UNCHANGED vars => IInv'
BY DEF IInv, TypeOK, HandleMeansOpen, OwedAhead, Ahead, ClosureKept, Sent,
       Elements, Drained, NoneDropped, vars, workerVars, lockVars, pushVars, endVars

\* Every step keeps it.
LEMMA NextInv == IInv /\ [Next]_vars => IInv'
<1>1. CASE UNCHANGED vars
  BY <1>1, SameInv
<1>2. ASSUME IInv, Next PROVE IInv'
  BY <1>2, TypeStep, OpenStep, OwedStep, KeptStep, DrainedStep, DroppedStays
     DEF IInv
<1> QED BY <1>1, <1>2

\* IInv holds of every reachable state.
LEMMA InductiveInvariant == Spec => []IInv
BY InitInv, NextInv, PTL DEF Spec

\* Every variable stays in its range and every lock with the call that is
\* where it holds it (RwLock and Mutex guards of api.rs and gha.rs).
THEOREM TypeCorrect == Spec => []TypeOK
<1>1. IInv => TypeOK
  BY DEF IInv
<1> QED BY <1>1, InductiveInvariant, PTL

\* The `expect` on sending the shutdown message in GhaCache::shutdown never
\* panics, dropped connections included.
THEOREM ShutdownNeverPanics == Spec => []NoShutdownPanic
<1>1. IInv => NoShutdownPanic
  BY DEF IInv, HandleMeansOpen, NoShutdownPanic
<1> QED BY <1>1, InductiveInvariant, PTL

\* The worker of gha.rs has dealt with every path sent ahead of the shutdown
\* message when it returns.
THEOREM OwedPathsAreHandled == Spec => []OwedHandled
<1>1. IInv => OwedHandled
  BY DEF IInv, OwedAhead, OwedHandled
<1> QED BY <1>1, InductiveInvariant, PTL

\* A path of a call that was answered Ok is handled or still in the channel:
\* enqueue_paths turns a refused send into an error.
THEOREM AcceptedPathsAreQueued == Spec => []AcceptedQueued
<1>1. IInv => AcceptedQueued
  BY DEF IInv, ClosureKept, Sent, AcceptedQueued, Elements
<1> QED BY <1>1, InductiveInvariant, PTL

\* Unless a finish call was dropped on its way, shutdown_token is cancelled
\* only after uploads and push session are done, for any number of finish
\* calls and of dropped hooks.
THEOREM CancelsAfterDraining == Spec => []CancelAfterDrain
<1>1. IInv => CancelAfterDrain
  BY DEF IInv, Drained, OwedAhead, CancelAfterDrain, CancelMeansDrained
<1> QED BY <1>1, InductiveInvariant, PTL

(***************************************************************************)
(* Whoever waits is waited for by nobody he waits for.                     *)
(***************************************************************************)
\* Guards go with their handlers, and the shutdown message goes only with the
\* worker.
LEMMA WaitsStep ==
  ASSUME TypeOK, WaitsEnd, Next
  PROVE  WaitsEnd'
<1> USE CallersAssumption, PathsAssumption
<1>1. ASSUME NEW c \in Callers, HookArrives(c) PROVE WaitsEnd'
  BY <1>1 DEF HookArrives, Arrive, WaitsEnd, TypeOK, workerVars, lockVars
<1>2. ASSUME NEW c \in Callers, ComputeClosure(c) PROVE WaitsEnd'
  BY <1>2 DEF ComputeClosure, FailEnqueue, WaitsEnd, TypeOK, workerVars, lockVars
<1>3. ASSUME NEW c \in Callers, SendFails(c) PROVE WaitsEnd'
  BY <1>3 DEF SendFails, FailEnqueue, WaitsEnd, TypeOK, workerVars, lockVars
<1>4. ASSUME NEW c \in Callers, AllSent(c) PROVE WaitsEnd'
  BY <1>4 DEF AllSent, WaitsEnd, TypeOK, workerVars, lockVars
<1>5. ASSUME NEW c \in Callers, QueueBatch(c) PROVE WaitsEnd'
  BY <1>5 DEF QueueBatch, FailEnqueue, AfterEnqueue, WaitsEnd, TypeOK, workerVars, lockVars
<1>6. ASSUME NEW c \in Callers, FinishArrives(c) PROVE WaitsEnd'
  BY <1>6 DEF FinishArrives, Arrive, WaitsEnd, TypeOK, workerVars, lockVars
<1>7. ASSUME NEW c \in Callers, LockOriginal(c) PROVE WaitsEnd'
  BY <1>7 DEF LockOriginal, WaitsEnd, TypeOK, workerVars, lockVars
<1>8. ASSUME NEW c \in Callers, ScanStore(c) PROVE WaitsEnd'
  BY <1>8 DEF ScanStore, FailEnqueue, WaitsEnd, TypeOK, workerVars, lockVars
<1>9. ASSUME NEW c \in Callers, c \in Finishers, TakeHandle(c) PROVE WaitsEnd'
  <2>1. Elements' = Elements \cup {"shutdown"}
    BY <1>9, Sending DEF TakeHandle, TypeOK
  <2>2. \E i \in DOMAIN channel' : channel'[i] = "shutdown"
    BY <2>1 DEF Elements
  <2> QED BY <1>9, <2>2 DEF TakeHandle, WaitsEnd, TypeOK
<1>10. ASSUME NEW c \in Callers, HandleGone(c) PROVE WaitsEnd'
  BY <1>10 DEF HandleGone, WaitsEnd, TypeOK, workerVars, lockVars
<1>11. ASSUME NEW c \in Callers, JoinWorker(c) PROVE WaitsEnd'
  BY <1>11 DEF JoinWorker, WaitsEnd, TypeOK, workerVars, lockVars
<1>12. ASSUME NEW c \in Callers, TakeSession(c) PROVE WaitsEnd'
  BY <1>12 DEF TakeSession, WaitsEnd, TypeOK, workerVars, lockVars
<1>13. ASSUME NEW c \in Callers, WaitSession(c) PROVE WaitsEnd'
  BY <1>13 DEF WaitSession, WaitsEnd, TypeOK, workerVars, lockVars
<1>14. ASSUME NEW c \in Callers, Cancel(c) PROVE WaitsEnd'
  BY <1>14 DEF Cancel, WaitsEnd, TypeOK, workerVars, lockVars
<1>15. ASSUME NEW c \in Callers, Disconnect(c) PROVE WaitsEnd'
  BY <1>15 DEF Disconnect, WaitsEnd, TypeOK, workerVars, lockVars
<1>16. ASSUME NEW c \in Callers, NEW p \in Paths, SendPath(c, p) PROVE WaitsEnd'
  <2>1. Elements' = Elements \cup {p}
    BY <1>16, Sending DEF SendPath, TypeOK
  <2> QED BY <1>16, <2>1 DEF SendPath, WaitsEnd, Elements, workerVars, lockVars
<1>17. CASE Receive
  <2>1. Elements = Elements' \cup {Head(channel)}
    BY <1>17, Receiving DEF Receive, TypeOK
  <2> QED BY <1>17, <2>1, ZenonT(40) DEF Receive, WaitsEnd, Elements, lockVars
<1>18. CASE UploadEnds
  BY <1>18 DEF UploadEnds, WaitsEnd, lockVars
<1>19. CASE TrippedElsewhere \/ StopListening \/ Exit
  BY <1>19 DEF TrippedElsewhere, StopListening, Exit, WaitsEnd, workerVars, lockVars
<1> QED
  BY <1>1, <1>2, <1>3, <1>4, <1>5, <1>6, <1>7, <1>8, <1>9, <1>10, <1>11, <1>12, <1>13,
     <1>14, <1>15, <1>16, <1>17, <1>18, <1>19
     DEF Next, CallerStep, Enqueue, Finish

\* No cycle of waiting calls, for any number of hooks and finish calls and any
\* connections that break: the Mutex and RwLocks of api.rs and gha.rs are given
\* back, and the worker is told to end before it is waited for.
THEOREM WaitsAreAcyclic == Spec => []WaitsEnd
<1>1. Init => WaitsEnd
  BY CallersAssumption DEF Init, WaitsEnd
<1>2. WaitsEnd /\ UNCHANGED vars => WaitsEnd'
  BY DEF WaitsEnd, vars, lockVars, workerVars
<1>3. IInv /\ WaitsEnd /\ [Next]_vars => WaitsEnd'
  BY <1>2, WaitsStep DEF IInv
<1> QED BY <1>1, <1>3, InductiveInvariant, PTL DEF Spec

(***************************************************************************)
(* The queue implements GracefulDrain.  The channel, the locks and the     *)
(* calls are hidden by the mapping; OwedAhead is why the worker may leave  *)
(* when it receives the shutdown message.                                  *)
(***************************************************************************)
Shown == <<handle, Offered, owed, done, skipped, {worker} \cap Paths, worker = "exited">>

\* A call sends what it has found, and the channel holds only what was sent.
OnlyOffered == /\ \A c \in Callers : pending[c] \subseteq closure[c]
               /\ \A m \in Elements : m = "shutdown" \/ m \in Offered

\* A call that finds its closure has sent nothing before.
LEMMA ClosureShown ==
  ASSUME IInv, NEW c \in Callers, ComputeClosure(c)
  PROVE  Offered' = Offered
<1>1. CASE ~gha
  BY <1>1 DEF ComputeClosure, FailEnqueue, Offered
<1>2. CASE gha
  <2>1. closure[c] = {}
    BY <1>2 DEF IInv, ClosureKept, ComputeClosure, FailEnqueue
  <2>2. /\ closure'[c] \ pending'[c] = closure[c] \ pending[c]
        /\ \A d \in Callers : d # c => closure'[d] = closure[d] /\ pending'[d] = pending[d]
    BY <1>2, <2>1 DEF IInv, TypeOK, ComputeClosure, FailEnqueue
  <2> QED BY <2>2 DEF Offered
<1> QED BY <1>1, <1>2

\* Sending a path of the closure offers it.
LEMMA SendShown ==
  ASSUME IInv, OnlyOffered, NEW c \in Callers, NEW p \in Paths, SendPath(c, p)
  PROVE  Offered' = Offered \cup {p}
<1>1. p \in pending[c] /\ p \in closure[c]
  BY DEF SendPath, OnlyOffered
<1>2. /\ closure' = closure /\ pending'[c] = pending[c] \ {p}
      /\ \A d \in Callers : d # c => pending'[d] = pending[d]
  BY DEF SendPath, IInv, TypeOK
<1> QED BY <1>1, <1>2 DEF Offered

\* Every step implements a step of GracefulDrain and keeps OnlyOffered.
LEMMA DrainStep ==
  ASSUME IInv, OnlyOffered, Next
  PROVE  OnlyOffered' /\ [Drain!Next]_Shown
<1> USE PathsAssumption
<1> DEFINE Quiet == /\ closure' = closure /\ pending' = pending /\ channel' = channel
                   /\ UNCHANGED <<handle, owed, worker, done, skipped>>
<1>0. ASSUME Quiet PROVE OnlyOffered' /\ UNCHANGED Shown
  BY <1>0 DEF OnlyOffered, Elements, Offered, Shown
<1>1. ASSUME NEW c \in Callers, HookArrives(c) PROVE Quiet
  BY <1>1 DEF HookArrives, Arrive, workerVars, lockVars
<1>2. ASSUME NEW c \in Callers, SendFails(c) PROVE Quiet
  BY <1>2 DEF SendFails, FailEnqueue, workerVars, lockVars
<1>3. ASSUME NEW c \in Callers, AllSent(c) PROVE Quiet
  BY <1>3 DEF AllSent, workerVars, lockVars
<1>4. ASSUME NEW c \in Callers, QueueBatch(c) PROVE Quiet
  BY <1>4 DEF QueueBatch, FailEnqueue, AfterEnqueue, workerVars, lockVars
<1>5. ASSUME NEW c \in Callers, FinishArrives(c) PROVE Quiet
  BY <1>5 DEF FinishArrives, Arrive, workerVars, lockVars
<1>6. ASSUME NEW c \in Callers, LockOriginal(c) PROVE Quiet
  BY <1>6 DEF LockOriginal, workerVars, lockVars
<1>7. ASSUME NEW c \in Callers, ScanStore(c) PROVE Quiet
  BY <1>7 DEF ScanStore, FailEnqueue, workerVars, lockVars
<1>8. ASSUME NEW c \in Callers, HandleGone(c) PROVE Quiet
  BY <1>8 DEF HandleGone, workerVars, lockVars
<1>9. ASSUME NEW c \in Callers, JoinWorker(c) PROVE Quiet
  BY <1>9 DEF JoinWorker, workerVars, lockVars
<1>10. ASSUME NEW c \in Callers, TakeSession(c) PROVE Quiet
  BY <1>10 DEF TakeSession, workerVars, lockVars
<1>11. ASSUME NEW c \in Callers, WaitSession(c) PROVE Quiet
  BY <1>11 DEF WaitSession, workerVars, lockVars
<1>12. ASSUME NEW c \in Callers, Cancel(c) PROVE Quiet
  BY <1>12 DEF Cancel, workerVars, lockVars
<1>13. ASSUME NEW c \in Callers, Disconnect(c) PROVE Quiet
  BY <1>13 DEF Disconnect, workerVars, lockVars
<1>14. ASSUME NEW c \in Callers, ComputeClosure(c) PROVE OnlyOffered' /\ UNCHANGED Shown
  <2>1. Offered' = Offered
    BY <1>14, ClosureShown
  <2>2. channel' = channel /\ \A d \in Callers : pending'[d] \subseteq closure'[d]
    BY <1>14 DEF ComputeClosure, FailEnqueue, OnlyOffered, IInv, TypeOK
  <2> QED BY <1>14, <2>1, <2>2 DEF ComputeClosure, FailEnqueue, OnlyOffered, Elements, Shown,
                                   workerVars
<1>15. ASSUME NEW c \in Callers, NEW p \in Paths, SendPath(c, p)
       PROVE  OnlyOffered' /\ Drain!Next
  <2>1. Offered' = Offered \cup {p}
    BY <1>15, SendShown
  <2>2. Elements' = Elements \cup {p}
    BY <1>15, Sending DEF SendPath, IInv, TypeOK
  <2>3. \A d \in Callers : pending'[d] \subseteq closure'[d]
    BY <1>15 DEF SendPath, OnlyOffered, IInv, TypeOK
  <2>4. Drain!Offer(p)
    BY <1>15, <2>1 DEF SendPath, Drain!Offer, workerVars, lockVars
  <2> QED BY <2>1, <2>2, <2>3, <2>4 DEF OnlyOffered, Drain!Next
<1>16. ASSUME NEW c \in Callers, TakeHandle(c) PROVE OnlyOffered' /\ Drain!Next
  <2>1. Elements' = Elements \cup {"shutdown"}
    BY <1>16, Sending DEF TakeHandle, IInv, TypeOK
  <2>2. closure' = closure /\ pending' = pending /\ Offered' = Offered
    BY <1>16 DEF TakeHandle, Offered
  <2>3. Drain!Close
    BY <1>16, <2>2 DEF TakeHandle, Drain!Close, workerVars
  <2> QED BY <2>1, <2>2, <2>3 DEF OnlyOffered, Drain!Next
<1>17. CASE Receive
  <2> DEFINE req == Head(channel)
  <2>1. /\ Elements = Elements' \cup {req} /\ req \in Paths \cup {"shutdown"}
        /\ \A p : Ahead(p) => req # "shutdown"
    BY <1>17, Receiving DEF Receive, IInv, TypeOK
  <2>2. closure' = closure /\ pending' = pending /\ Offered' = Offered
    BY <1>17 DEF Receive, Offered
  <2>3. OnlyOffered'
    BY <2>1, <2>2 DEF OnlyOffered
  <2>4. /\ worker = "recv" /\ worker \notin Paths /\ "exited" \notin Paths
        /\ handle' = handle /\ owed' = owed
    BY <1>17 DEF Receive, lockVars
  <2>5. CASE req = "shutdown"
    <3>1. ~handle
      BY <2>1, <2>5 DEF IInv, HandleMeansOpen
    <3>2. owed \subseteq done \cup skipped
      BY <2>1, <2>5 DEF IInv, OwedAhead
    <3>3. worker' = "exited" /\ done' = done /\ skipped' = skipped
      BY <1>17, <2>5 DEF Receive
    <3>4. Drain!Leave
      BY <2>2, <2>4, <3>1, <3>2, <3>3 DEF Drain!Leave, Drain!Free
    <3> QED BY <2>3, <3>4 DEF Drain!Next
  <2>6. CASE req # "shutdown"
    <3>1. req \in Paths /\ req \in Offered
      BY <2>1, <2>6 DEF OnlyOffered
    <3>2. CASE tripped
      <4>1. worker' = worker /\ done' = done /\ skipped' = skipped \cup {req}
        BY <1>17, <2>6, <3>2 DEF Receive
      <4>2. Drain!Pass(req)
        BY <2>2, <2>4, <3>1, <4>1 DEF Drain!Pass, Drain!Free
      <4> QED BY <2>3, <3>1, <4>2 DEF Drain!Next
    <3>3. CASE ~tripped /\ req \in done
      <4>1. worker' = worker /\ done' = done /\ skipped' = skipped
        BY <1>17, <2>6, <3>3 DEF Receive
      <4> QED BY <2>2, <2>3, <2>4, <4>1 DEF Shown
    <3>4. CASE ~tripped /\ req \notin done
      <4>1. worker' = req /\ done' = done \cup {req} /\ skipped' = skipped
        BY <1>17, <2>6, <3>4 DEF Receive
      <4>2. Drain!Try(req)
        BY <2>2, <2>4, <3>1, <3>4, <4>1 DEF Drain!Try, Drain!Free
      <4> QED BY <2>3, <3>1, <4>2 DEF Drain!Next
    <3> QED BY <3>2, <3>3, <3>4
  <2> QED BY <2>5, <2>6
<1>18. CASE UploadEnds
  <2>1. Offered' = Offered /\ OnlyOffered'
    BY <1>18 DEF UploadEnds, Offered, OnlyOffered, Elements
  <2>2. Drain!Complete
    BY <1>18, <2>1 DEF UploadEnds, Drain!Complete, lockVars
  <2> QED BY <2>1, <2>2 DEF Drain!Next
<1>19. CASE TrippedElsewhere \/ StopListening \/ Exit
  <2>1. Quiet
    BY <1>19 DEF TrippedElsewhere, StopListening, Exit, workerVars, lockVars
  <2> QED BY <1>0, <2>1
<1> HIDE DEF Quiet
<1> QED
  BY <1>0, <1>1, <1>2, <1>3, <1>4, <1>5, <1>6, <1>7, <1>8, <1>9, <1>10, <1>11, <1>12, <1>13,
     <1>14, <1>15, <1>16, <1>17, <1>18, <1>19
     DEF Next, CallerStep, Enqueue, Finish

\* The channel, the worker and the shutdown of gha.rs, with any calls of api.rs
\* around them, implement GracefulDrain: each path is tried once, only when it
\* was sent, and the worker returns with nothing owed.
THEOREM QueueDrainsGracefully == Spec => DrainsGracefully
<1>1. Init => Drain!Init /\ OnlyOffered
  <2> SUFFICES ASSUME Init PROVE Drain!Init /\ OnlyOffered
    OBVIOUS
  <2>1. Offered = {} /\ Elements = {}
    BY DEF Init, Offered, Elements
  <2>2. handle \in BOOLEAN
    BY DEF Init
  <2>3. {worker} \cap Paths = {} /\ (worker = "exited") = FALSE
    BY PathsAssumption DEF Init
  <2> QED BY <2>1, <2>2, <2>3 DEF Init, Drain!Init, OnlyOffered
<1>2. IInv /\ OnlyOffered /\ [Next]_vars => OnlyOffered' /\ [Drain!Next]_Shown
  <2>1. CASE UNCHANGED vars
    BY <2>1 DEF vars, lockVars, workerVars, OnlyOffered, Elements, Offered, Shown
  <2>2. CASE Next
    BY <2>2, DrainStep
  <2> QED BY <2>1, <2>2
<1> QED
  BY <1>1, <1>2, InductiveInvariant, PTL
     DEF Spec, DrainsGracefully, Drain!Spec, Drain!vars, Shown

==============================================================================
