--------------------------- MODULE GhaUploadProofs ---------------------------
(***************************************************************************)
(* Theorems about the cache client for every number of uploads, chunk      *)
(* size, number of permits and stream length.                              *)
(***************************************************************************)
EXTENDS GhaUpload, TLAPS, FiniteSetTheorems

USE DEF Starts, Awaiting, Pcs, Errors, TaskStates, Failed, Settled, EntryStates

(***************************************************************************)
(* The inductive invariant, for one call.                                  *)
(***************************************************************************)
\* The loop reads inside the stream, and tasks have only been spawned for
\* chunks it has read.
InStream(u) == /\ offset[u] <= length[u]
               /\ \A s \in Starts : task[u][s] # "none" => s < offset[u]

\* A request outlives the wait for its answer only when the call has ended.
SentWhile(u) ==
  /\ sent[u] # "none" => pc[u] \in {sent[u], "done"}
  /\ entry[u] = "ready" => sent[u] = "none" /\ pc[u] \in {"commit", "finalize", "done"}
  /\ pc[u] \in {"commit", "finalize"} /\ sent[u] = "none" => entry[u] = "ready"
  /\ result[u] = "ok" => entry[u] = "ready" /\ pc[u] = "done"
  /\ pc[u] # "done" => result[u] = "none"
  /\ entry[u] = "ready" => size[u] = offset[u]

\* V1: every byte read so far is in the chunk of a spawned task; the service
\* holds bytes of the stream only, and the whole of a chunk that is ok.
ChunkCovers(u, i) == \E s \in Starts : /\ task[u][s] # "none"
                                       /\ s <= i /\ i < s + ReadLen(u, s)
V1Tasks(u) == \A i \in 0 .. offset[u] - 1 : ChunkCovers(u, i)
V1Blob(u) ==
  /\ \A s \in Starts : task[u][s] = "ok" => ChunkBytes(u, s) \subseteq blob[u]
  /\ blob[u] \subseteq Whole(length[u])

\* V1: the commit is sent when all tasks are done and none has failed.
Committing(u) == pc[u] = "commit" \/ sent[u] = "commit" \/ entry[u] = "ready"
V1Commit(u) ==
  /\ {pc[u], sent[u]} \cap {"create", "append", "seal", "finalize"} = {}
  /\ pc[u] \in {"join", "commit"} => offset[u] = length[u]
  /\ Committing(u) => /\ pc[u] \in {"commit", "done"}
                      /\ offset[u] = length[u]
                      /\ \A s \in Starts : task[u][s] \in {"ok", "none"}

\* V2: the blob is the prefix of the stream that was appended, which is
\* ahead of the offset only until the answer to an append is read.
Sealing(u) == \/ pc[u] \in {"seal", "finalize"}
              \/ sent[u] \in {"seal", "finalize"}
              \/ entry[u] = "ready"
V2Inv(u) ==
  /\ {pc[u], sent[u]} \cap {"join", "commit"} = {}
  /\ \A s \in Starts : task[u][s] = "none"
  /\ blob[u] = Whole(tail[u])
  /\ sent[u] = "append" => tail[u] = offset[u]
  /\ pc[u] = "append" /\ sent[u] = "none"
       => tail[u] = offset[u] + ReadLen(u, offset[u])
  /\ pc[u] \notin {"append", "done"} => tail[u] = offset[u]
  /\ Sealing(u) => /\ pc[u] \in {"seal", "finalize", "done"}
                   /\ offset[u] = length[u] /\ tail[u] = length[u]

CallInv(u) == /\ InStream(u)
              /\ SentWhile(u)
              /\ ~ServiceV2 => V1Tasks(u) /\ V1Blob(u) /\ V1Commit(u)
              /\ ServiceV2 => V2Inv(u)

IInv == TypeOK /\ PermitsConserved /\ \A u \in Uploads : CallInv(u)

(***************************************************************************)
(* The data: bytes of a stream.                                            *)
(***************************************************************************)
\* Bytes are pairs of positions.
LEMMA BytesType ==
  ASSUME NEW at \in Nat, NEW from \in Nat, NEW n \in Int
  PROVE  Bytes(at, from, n) \subseteq Nat \X Nat
BY DEF Bytes

\* Appending the next bytes of a stream to a prefix gives a longer prefix.
LEMMA WholeExtends ==
  ASSUME NEW t \in Nat, NEW n \in Nat
  PROVE  Whole(t) \cup Bytes(t, t, n) = Whole(t + n)
<1>1. ASSUME NEW b \in Whole(t + n) PROVE b \in Whole(t) \cup Bytes(t, t, n)
  <2>1. PICK i \in 0 .. t + n - 1 : b = <<i, i>>
    BY <1>1 DEF Whole, Bytes
  <2>2. CASE i < t
    BY <2>1, <2>2 DEF Whole, Bytes
  <2>3. CASE i >= t
    <3>1. i - t \in 0 .. n - 1 /\ b = <<t + (i - t), t + (i - t)>>
      BY <2>1, <2>3
    <3> QED BY <3>1 DEF Bytes
  <2> QED BY <2>1, <2>2, <2>3
<1>2. ASSUME NEW b \in Whole(t) \cup Bytes(t, t, n) PROVE b \in Whole(t + n)
  BY <1>2 DEF Whole, Bytes
<1> QED BY <1>1, <1>2

\* A chunk inside the stream is made of bytes of the stream.
LEMMA ChunkInWhole ==
  ASSUME NEW s \in Nat, NEW n \in Nat, NEW l \in Nat, s + n <= l
  PROVE  Bytes(s, s, n) \subseteq Whole(l)
BY DEF Whole, Bytes

\* A read returns at most what is left, and something unless nothing is.
LEMMA ReadLenType ==
  ASSUME TypeOK, NEW u \in Uploads, NEW o \in Nat, o <= length[u]
  PROVE  /\ ReadLen(u, o) \in Nat
         /\ o + ReadLen(u, o) <= length[u]
         /\ ReadLen(u, o) = 0 <=> o = length[u]
         /\ \A i \in Nat : i < o + ReadLen(u, o) => i <= length[u] 
BY ChunkAssumption DEF TypeOK, ReadLen

\* Streams do not change, so chunks do not.
LEMMA StreamFixed ==
  ASSUME length' = length
  PROVE  /\ \A u, o : ReadLen(u, o)' = ReadLen(u, o)
         /\ \A u, s : ChunkBytes(u, s)' = ChunkBytes(u, s)
BY DEF ReadLen, ChunkBytes

(***************************************************************************)
(* Types.  The offset stays in the stream; a chunk task has taken a permit *)
(* before it gives one back, which PermitsConserved says.                  *)
(***************************************************************************)
\* The next chunk read ends inside the stream.
LEMMA OffsetAdvances ==
  ASSUME TypeOK, NEW u \in Uploads, InStream(u)
  PROVE  /\ offset[u] \in Nat /\ length[u] \in Nat
         /\ ReadLen(u, offset[u]) \in Nat
         /\ offset[u] + ReadLen(u, offset[u]) \in 0 .. MaxLength
         /\ offset[u] + ReadLen(u, offset[u]) <= length[u]
         /\ ReadLen(u, offset[u]) = 0 => offset[u] = length[u]
<1>1. /\ offset[u] \in Nat /\ offset[u] <= length[u]
      /\ length[u] \in 0 .. MaxLength
  BY DEF TypeOK, InStream
<1>2. ReadLen(u, offset[u]) \in Nat
  BY <1>1, ReadLenType
<1>3. offset[u] + ReadLen(u, offset[u]) <= length[u]
  BY <1>1, ReadLenType
<1>4. ReadLen(u, offset[u]) = 0 => offset[u] = length[u]
  BY <1>1, ReadLenType
<1> QED BY <1>1, <1>2, <1>3, <1>4, LengthAssumption

\* A step of the call u or of its chunk task at s.
Does(u, s) == CallStep(u) \/ Serve(u) \/ ChunkStep(u, s) \/ ServeChunk(u, s)

\* Every step keeps the types, given that an answered chunk held a permit.
LEMMA TypeStep ==
  ASSUME TypeOK, NEW u \in Uploads, InStream(u), NEW s \in Starts,
         Does(u, s),
         ChunkAnswered(u, s) => permits < MaxConcurrency
  PROVE  TypeOK'
<1>0. /\ pc \in [Uploads -> Pcs]
      /\ sent \in [Uploads -> Awaiting \cup {"none"}]
      /\ offset \in [Uploads -> 0 .. MaxLength]
      /\ task \in [Uploads -> [Starts -> TaskStates]]
      /\ permits \in 0 .. MaxConcurrency
  BY DEF TypeOK
<1>1. CASE RefuseTripped(u)
  BY <1>1 DEF TypeOK, RefuseTripped, Finish, client, service
<1>2. CASE Reserve(u)
  BY <1>2 DEF TypeOK, Reserve, Request, Goto, client, service
<1>3. CASE ReserveOk(u)
  BY <1>3 DEF TypeOK, ReserveOk, AnsweredOk, Goto, client, service
<1>4. CASE StartUpload(u)
  BY <1>4 DEF TypeOK, StartUpload, Request, Goto, client, service
<1>5. CASE ReadEnd(u)
  BY <1>5 DEF TypeOK, ReadEnd, Request, Goto, client, service
<1>6. CASE ReadError(u)
  BY <1>6 DEF TypeOK, ReadError, Finish, client, service
<1>7. CASE CreateOk(u)
  BY <1>7 DEF TypeOK, CreateOk, AnsweredOk, Goto, client, service
<1>8. CASE SealOk(u)
  BY <1>8 DEF TypeOK, SealOk, AnsweredOk, Request, Goto, client, service
<1>9. CASE PublishOk(u)
  BY <1>9 DEF TypeOK, PublishOk, AnsweredOk, Finish, client, service
<1>10. CASE JoinOk(u)
  BY <1>10 DEF TypeOK, JoinOk, Request, Goto, client, service
<1>11. CASE Abandon(u)
  BY <1>11 DEF TypeOK, Abandon, Finish, client, service
<1>12. CASE ServeReserve(u)
  BY <1>12 DEF TypeOK, ServeReserve, TakesEffect, Enter, client
<1>13. CASE ServeCreate(u)
  BY <1>13 DEF TypeOK, ServeCreate, TakesEffect, Enter, client
<1>14. CASE ServeSeal(u)
  BY <1>14 DEF TypeOK, ServeSeal, TakesEffect, Enter, client
<1>15. CASE ReserveExists(u)
  <2>1. pc' \in [Uploads -> Pcs]
    BY <1>15, <1>0 DEF ReserveExists, Goto, Finish
  <2>2. result' \in [Uploads -> Errors \cup {"none", "ok"}]
    BY <1>15 DEF TypeOK, ReserveExists, Goto, Finish
  <2>3. attempt' \in [Uploads -> 1 .. MaxAttempts]
    BY <1>15, AttemptAssumption, SMTT(30) DEF TypeOK, ReserveExists
  <2>4. sent' \in [Uploads -> Awaiting \cup {"none"}]
    BY <1>15 DEF TypeOK, ReserveExists
  <2> QED BY <1>15, <2>1, <2>2, <2>3, <2>4 DEF TypeOK, ReserveExists, service
<1>16. CASE RequestFails(u)
  <2>1. PICK answer \in Failed :
          /\ sent' = [sent EXCEPT ![u] = IF answer = "lost" THEN @ ELSE "none"]
          /\ tripped' = (tripped \/ Trips(pc[u], answer))
          /\ Finish(u, answer)
    BY <1>16 DEF RequestFails
  <2>2. UNCHANGED <<client, service>>
    BY <1>16 DEF RequestFails
  <2>3. sent' \in [Uploads -> Awaiting \cup {"none"}] /\ tripped' \in BOOLEAN
    BY <2>1 DEF TypeOK, Trips
  <2>4. /\ pc' \in [Uploads -> Pcs]
        /\ result' \in [Uploads -> Errors \cup {"none", "ok"}]
    BY <2>1 DEF TypeOK, Finish
  <2> QED BY <2>2, <2>3, <2>4 DEF TypeOK, client, service
<1>17. CASE ReadChunk(u)
  <2>1. offset' \in [Uploads -> 0 .. MaxLength]
    BY <1>17, <1>0, OffsetAdvances DEF ReadChunk
  <2>2. task' \in [Uploads -> [Starts -> TaskStates]]
    <3>1. offset[u] \in Starts
      BY <1>0
    <3>2. PICK o \in Starts : o = offset[u]
      BY <3>1
    <3>3. task' = task \/ task' = [task EXCEPT ![u][o] = "queued"]
      BY <1>17, <3>2 DEF ReadChunk
    <3>4. task \in [Uploads -> [Starts -> TaskStates]]
      BY <1>0
    <3>5. [task[u] EXCEPT ![o] = "queued"] \in [Starts -> TaskStates]
      BY <3>4
    <3>6. [task EXCEPT ![u][o] = "queued"]
            = [task EXCEPT ![u] = [task[u] EXCEPT ![o] = "queued"]]
      OBVIOUS
    <3> QED BY <3>3, <3>4, <3>5, <3>6
  <2>3. /\ pc' \in [Uploads -> Pcs] /\ result' = result
        /\ sent' \in [Uploads -> Awaiting \cup {"none"}]
    BY <1>17 DEF TypeOK, ReadChunk, Request, Goto
  <2> QED BY <1>17, <2>1, <2>2, <2>3 DEF TypeOK, ReadChunk, service
<1>18. CASE AppendOk(u)
  <2>1. offset' \in [Uploads -> 0 .. MaxLength]
    BY <1>18, OffsetAdvances DEF TypeOK, AppendOk
  <2>2. pc' \in [Uploads -> Pcs] /\ result' = result
    BY <1>18 DEF TypeOK, AppendOk, Goto
  <2> QED BY <1>18, <2>1, <2>2 DEF TypeOK, AppendOk, service
<1>19. CASE JoinFails(u)
  <2>1. PICK r \in Starts : FirstFailed(u, r) /\ Finish(u, task[u][r])
    BY <1>19 DEF JoinFails
  <2>2. task[u][r] \in Errors
    BY <2>1 DEF FirstFailed
  <2>3. /\ pc' \in [Uploads -> Pcs]
        /\ result' \in [Uploads -> Errors \cup {"none", "ok"}]
    BY <2>1, <2>2 DEF TypeOK, Finish
  <2> QED BY <1>19, <2>3 DEF TypeOK, JoinFails, client, service
<1>20. CASE ServeAppend(u)
  <2>1. /\ tail[u] \in Nat /\ offset[u] \in Nat
        /\ ReadLen(u, offset[u]) \in Nat
    BY OffsetAdvances DEF TypeOK
  <2>2. Bytes(tail[u], offset[u], ReadLen(u, offset[u])) \subseteq Nat \X Nat
    BY <2>1, BytesType
  <2>3. blob' \in [Uploads -> SUBSET (Nat \X Nat)]
    BY <1>20, <2>2 DEF TypeOK, ServeAppend
  <2>4. tail' \in [Uploads -> Nat]
    BY <1>20, <2>1 DEF TypeOK, ServeAppend
  <2>5. sent' \in [Uploads -> Awaiting \cup {"none"}]
    BY <1>20 DEF TypeOK, ServeAppend, TakesEffect
  <2> QED BY <1>20, <2>3, <2>4, <2>5 DEF TypeOK, ServeAppend, client
<1>21. CASE ServePublish(u)
  <2>1. size' \in [Uploads -> Nat]
    BY <1>21, OffsetAdvances DEF TypeOK, ServePublish
  <2>2. sent' \in [Uploads -> Awaiting \cup {"none"}]
    BY <1>21, <1>0 DEF ServePublish, TakesEffect
  <2>3. entry' \in [Uploads -> EntryStates]
    BY <1>21 DEF TypeOK, ServePublish, Enter
  <2> QED BY <1>21, <2>1, <2>2, <2>3 DEF TypeOK, ServePublish, client
<1>22. CASE SendChunk(u, s)
  <2>1. task' \in [Uploads -> [Starts -> TaskStates]]
    BY <1>22 DEF TypeOK, SendChunk
  <2>2. permits' \in 0 .. MaxConcurrency
    BY <1>22, ConcurrencyAssumption DEF TypeOK, SendChunk
  <2> QED BY <1>22, <2>1, <2>2 DEF TypeOK, SendChunk, service
<1>23. CASE ChunkAnswered(u, s)
  <2>1. task' \in [Uploads -> [Starts -> TaskStates]]
    BY <1>23 DEF TypeOK, ChunkAnswered
  <2>2. permits' \in 0 .. MaxConcurrency
    <3>1. permits' = permits + 1
      BY <1>23 DEF ChunkAnswered, PermitsAfter
    <3> QED BY <1>23, <1>0, <3>1, ConcurrencyAssumption
  <2> QED BY <1>23, <2>1, <2>2 DEF TypeOK, ChunkAnswered, service
<1>24. CASE CheckChunk(u, s)
  <2>1. task' \in [Uploads -> [Starts -> TaskStates]]
    BY <1>24 DEF TypeOK, CheckChunk
  <2> QED BY <1>24, <2>1 DEF TypeOK, CheckChunk, service
<1>25. CASE ServeChunk(u, s)
  <2>1. s \in Nat /\ ReadLen(u, s) \in Int
    BY ChunkAssumption DEF TypeOK, ReadLen
  <2>2. ChunkBytes(u, s) \subseteq Nat \X Nat
    BY <2>1, BytesType DEF ChunkBytes
  <2>3. blob' \in [Uploads -> SUBSET (Nat \X Nat)]
    BY <1>25, <2>2 DEF TypeOK, ServeChunk
  <2> QED BY <1>25, <2>3 DEF TypeOK, ServeChunk, client
<1> QED
  BY <1>1, <1>2, <1>3, <1>4, <1>5, <1>6, <1>7, <1>8, <1>9, <1>10, <1>11, <1>12, <1>13, <1>14, <1>15, <1>16, <1>17, <1>18, <1>19, <1>20, <1>21, <1>22, <1>23, <1>24, <1>25
     DEF Does, CallStep, LocalStep, AnswerStep, Serve, ChunkStep

\* A chunk task only moves itself on.
LEMMA ChunkEffect ==
  ASSUME TypeOK, NEW u \in Uploads, NEW s \in Starts, ChunkStep(u, s)
  PROVE  /\ UNCHANGED <<pc, result, length, offset, sent, entry, size, tail, blob>>
         /\ task[u][s] \in {"queued", "sent", "unchecked"}
         /\ task'[u][s] \in TaskStates \ {"none", "queued"}
         /\ SendChunk(u, s) \/ task'[u][s] # "sent"
         /\ \A v \in Uploads, r \in Starts :
              <<v, r>> # <<u, s>> => task'[v][r] = task[v][r]
<1>1. CASE SendChunk(u, s)
  BY <1>1 DEF TypeOK, SendChunk, service
<1>2. CASE ChunkAnswered(u, s)
  <2>1. PICK answer \in {"ok", "unchecked", "api", "lost"} :
          task[u][s] = "sent" /\ task' = [task EXCEPT ![u][s] = answer]
    BY <1>2 DEF ChunkAnswered
  <2>2. UNCHANGED <<pc, result, length, offset, sent, entry, size, tail, blob>>
    BY <1>2 DEF ChunkAnswered, service
  <2> QED BY <2>1, <2>2 DEF TypeOK
<1>3. CASE CheckChunk(u, s)
  BY <1>3 DEF TypeOK, CheckChunk, service
<1> QED BY <1>1, <1>2, <1>3 DEF ChunkStep

\* No step changes a stream, and no offset runs past it.
LEMMA StreamStep ==
  ASSUME TypeOK, NEW u \in Uploads, InStream(u), NEW s \in Starts, Does(u, s)
  PROVE  length' = length /\ InStream(u)'
<1>1. CASE ReadChunk(u)
  <2>1. /\ length' = length
        /\ offset'[u] \in Nat /\ offset'[u] <= length[u] /\ offset[u] <= offset'[u]
    BY <1>1, OffsetAdvances, SMTT(30) DEF TypeOK, ReadChunk
  <2>2. ASSUME NEW r \in Starts, task'[u][r] # "none" PROVE r < offset'[u]
    <3>1. CASE task[u][r] # "none"
      BY <2>1, <3>1, OffsetAdvances, LengthAssumption DEF InStream
    <3>2. CASE task[u][r] = "none"
      <4>1. r = offset[u] /\ offset'[u] = offset[u] + ReadLen(u, offset[u])
        <5>1. offset[u] \in Starts /\ offset'[u] \in {offset[u], offset[u] + ReadLen(u, offset[u])}
          BY <1>1, OffsetAdvances DEF TypeOK, ReadChunk
        <5>2. task' # task
          BY <2>2, <3>2
        <5>3. /\ task' = [task EXCEPT ![u][offset[u]] = "queued"]
              /\ offset' = [offset EXCEPT ![u] = @ + ReadLen(u, @)]
          BY <1>1, <5>2 DEF ReadChunk
        <5> QED BY <2>2, <3>2, <5>1, <5>3 DEF TypeOK
      <4> QED BY <1>1, <4>1, OffsetAdvances DEF ReadChunk
    <3> QED BY <3>1, <3>2
  <2> QED BY <2>1, <2>2 DEF InStream
<1>2. CASE AppendOk(u)
  BY <1>2, OffsetAdvances, SMTT(30) DEF TypeOK, InStream, AppendOk
<1>3. CASE ~ReadChunk(u) /\ ~AppendOk(u)
  <2>1. CASE LocalStep(u) \/ ReadError(u) \/ Abandon(u)
    BY <1>3, <2>1 DEF InStream, client, LocalStep, RefuseTripped, Reserve,
                      StartUpload, ReadEnd, JoinFails, JoinOk, ReadError, Abandon
  <2>2. CASE AnswerStep(u)
    BY <1>3, <2>2 DEF InStream, client, AnswerStep, ReserveOk, ReserveExists,
                      CreateOk, SealOk, PublishOk, RequestFails
  <2>3. CASE Serve(u)
    BY <2>3 DEF InStream, client, Serve, ServeReserve, ServeCreate,
                ServeAppend, ServeSeal, ServePublish
  <2>4. CASE ChunkStep(u, s)
    BY <2>4, ChunkEffect DEF InStream
  <2>5. CASE ServeChunk(u, s)
    BY <2>5 DEF InStream, client, ServeChunk
  <2> QED BY <2>1, <2>2, <2>3, <2>4, <2>5 DEF Does, CallStep
<1> QED BY <1>1, <1>2, <1>3

\* A step of one call leaves the state of every other alone.
Same(v) == /\ pc'[v] = pc[v] /\ result'[v] = result[v]
           /\ offset'[v] = offset[v] /\ task'[v] = task[v]
           /\ sent'[v] = sent[v] /\ entry'[v] = entry[v]
           /\ size'[v] = size[v] /\ tail'[v] = tail[v] /\ blob'[v] = blob[v]

\* No handler writes the state of a call other than its own.
LEMMA OthersSame ==
  ASSUME TypeOK, NEW u \in Uploads, NEW s \in Starts, Does(u, s),
         NEW v \in Uploads, v # u
  PROVE  Same(v)
<1>1. CASE LocalStep(u)
  BY <1>1 DEF Same, TypeOK, client, service, Finish, Goto, Request, LocalStep,
              RefuseTripped, Reserve, StartUpload, ReadChunk, ReadEnd,
              JoinFails, JoinOk
<1>2. CASE AnswerStep(u)
  BY <1>2 DEF Same, TypeOK, client, service, Finish, Goto, Request, AnswerStep,
              ReserveOk, ReserveExists, CreateOk, AppendOk, SealOk, PublishOk,
              RequestFails
<1>3. CASE ReadError(u) \/ Abandon(u)
  BY <1>3 DEF Same, TypeOK, client, service, Finish, ReadError, Abandon
<1>4. CASE Serve(u)
  BY <1>4 DEF Same, TypeOK, client, TakesEffect, Enter, Serve, ServeReserve,
              ServeCreate, ServeAppend, ServeSeal, ServePublish
<1>5. CASE ChunkStep(u, s) \/ ServeChunk(u, s)
  BY <1>5 DEF Same, TypeOK, client, service, ChunkStep, SendChunk,
              ChunkAnswered, CheckChunk, ServeChunk
<1> QED BY <1>1, <1>2, <1>3, <1>4, <1>5 DEF Does, CallStep

(***************************************************************************)
(* Permits.                                                                *)
(***************************************************************************)
\* The chunks on the wire can be counted.
LEMMA SendingFinite == IsFiniteSet(Sending)
<1>1. IsFiniteSet(Starts)
  BY FS_Interval, LengthAssumption
<1>2. IsFiniteSet(Uploads \X Starts)
  BY <1>1, FS_Product, UploadsAssumption
<1> QED BY <1>2, FS_Subset DEF Sending

\* A permit is taken with each request and given back with its answer.
LEMMA PermitStep ==
  ASSUME TypeOK, PermitsConserved, NEW u \in Uploads, InStream(u), NEW s \in Starts,
         Does(u, s)
  PROVE  /\ PermitsConserved'
         /\ ChunkAnswered(u, s) => permits < MaxConcurrency
<1> DEFINE c == <<u, s>>
<1>0. Cardinality(Sending) \in Nat
  BY SendingFinite, FS_CardinalityType
<1>1. CASE SendChunk(u, s)
  <2>1. c \notin Sending /\ Sending' = Sending \cup {c}
    <3>1. /\ task[u][s] # "sent"
          /\ \A v \in Uploads, r \in Starts :
               task'[v][r] = IF <<v, r>> = c THEN "sent" ELSE task[v][r]
      BY <1>1 DEF SendChunk, TypeOK
    <3> QED BY <3>1 DEF Sending
  <2>2. Cardinality(Sending') = Cardinality(Sending) + 1
    BY <2>1, SendingFinite, FS_AddElement
  <2>3. permits' = permits - 1 /\ permits \in Int
    BY <1>1 DEF SendChunk, TypeOK
  <2>4. ~ChunkAnswered(u, s)
    BY <1>1 DEF SendChunk, ChunkAnswered
  <2> QED BY <1>0, <2>2, <2>3, <2>4 DEF PermitsConserved
<1>2. CASE ChunkAnswered(u, s)
  <2>1. c \in Sending /\ Sending' = Sending \ {c}
    <3>1. /\ task[u][s] = "sent" /\ task'[u][s] # "sent"
          /\ \A v \in Uploads, r \in Starts :
               <<v, r>> # c => task'[v][r] = task[v][r]
      <4>1. task[u][s] = "sent" /\ ~SendChunk(u, s)
        BY <1>2 DEF ChunkAnswered, SendChunk
      <4> QED BY <1>2, <4>1, ChunkEffect DEF ChunkStep
    <3> QED BY <3>1 DEF Sending
  <2>2. Cardinality(Sending') = Cardinality(Sending) - 1
    BY <2>1, SendingFinite, FS_RemoveElement
  <2>3. Cardinality(Sending) > 0
    BY <1>0, <2>1, SendingFinite, FS_EmptySet
  <2>4. permits' = permits + 1 /\ permits \in Int
    BY <1>2 DEF ChunkAnswered, PermitsAfter, TypeOK
  <2> QED BY <1>0, <2>2, <2>3, <2>4, ConcurrencyAssumption DEF PermitsConserved
<1>3. CASE ~SendChunk(u, s) /\ ~ChunkAnswered(u, s)
  <2>1. permits' = permits
    BY <1>3 DEF Does, CallStep, LocalStep, RefuseTripped, Reserve, StartUpload,
                ReadChunk, ReadEnd, JoinFails, JoinOk, ReadError, Abandon,
                AnswerStep, ReserveOk, ReserveExists, CreateOk, AppendOk,
                SealOk, PublishOk, RequestFails, Serve, ServeReserve,
                ServeCreate, ServeAppend, ServeSeal, ServePublish, ChunkStep,
                CheckChunk, ServeChunk, client
  <2>2. task' = task \/ ReadChunk(u) \/ CheckChunk(u, s)
    BY <1>3 DEF Does, CallStep, LocalStep, RefuseTripped, Reserve, StartUpload,
                ReadChunk, ReadEnd, JoinFails, JoinOk, ReadError, Abandon,
                AnswerStep, ReserveOk, ReserveExists, CreateOk, AppendOk,
                SealOk, PublishOk, RequestFails, Serve, ServeReserve,
                ServeCreate, ServeAppend, ServeSeal, ServePublish, ChunkStep,
                CheckChunk, ServeChunk, client
  <2>3. Sending' = Sending
    <3>1. CASE task' = task
      BY <3>1 DEF Sending
    <3>2. CASE ReadChunk(u) /\ task' # task
      <4>1. PICK o \in Starts : o = offset[u]
        BY DEF TypeOK
      <4>2. task' = [task EXCEPT ![u][o] = "queued"]
        BY <3>2, <4>1 DEF ReadChunk
      <4>3. task[u][o] = "none"
        BY <4>1, LengthAssumption DEF InStream, TypeOK
      <4> QED BY <4>2, <4>3 DEF Sending, TypeOK
    <3>3. CASE CheckChunk(u, s)
      BY <3>3 DEF CheckChunk, Sending, TypeOK
    <3> QED BY <2>2, <3>1, <3>2, <3>3
  <2> QED BY <1>3, <2>1, <2>3 DEF PermitsConserved
<1> QED BY <1>1, <1>2, <1>3

(***************************************************************************)
(* Requests and answers.                                                   *)
(***************************************************************************)
\* At most one control request of a call is outstanding, the one it awaits.
LEMMA SentStep ==
  ASSUME TypeOK, NEW u \in Uploads, SentWhile(u), NEW s \in Starts, Does(u, s)
  PROVE  SentWhile(u)'
<1>1. CASE RefuseTripped(u)
  BY <1>1 DEF TypeOK, SentWhile, RefuseTripped, Finish, client, service
<1>2. CASE Reserve(u)
  BY <1>2 DEF TypeOK, SentWhile, Reserve, Request, Goto, client, service
<1>3. CASE ReserveOk(u)
  BY <1>3 DEF TypeOK, SentWhile, ReserveOk, AnsweredOk, Goto, client, service
<1>4. CASE ReserveExists(u)
  BY <1>4 DEF TypeOK, SentWhile, ReserveExists, Goto, Finish, client, service
<1>5. CASE StartUpload(u)
  <2>1. CASE ServiceV2
    BY <1>5, <2>1 DEF TypeOK, SentWhile, StartUpload, Request, Goto, client, service
  <2>2. CASE ~ServiceV2
    BY <1>5, <2>2 DEF TypeOK, SentWhile, StartUpload, Goto, client, service
  <2> QED BY <2>1, <2>2
<1>6. CASE RequestFails(u)
  BY <1>6 DEF TypeOK, SentWhile, RequestFails, Finish, client, service
<1>7. CASE ReadChunk(u)
  BY <1>7, ServiceAssumption
     DEF TypeOK, SentWhile, ReadChunk, Request, Goto, service
<1>8. CASE ReadEnd(u)
  <2>1. CASE ServiceV2
    BY <1>8, <2>1 DEF TypeOK, SentWhile, ReadEnd, Request, Goto, client, service
  <2>2. CASE ~ServiceV2
    BY <1>8, <2>2 DEF TypeOK, SentWhile, ReadEnd, Goto, client, service
  <2> QED BY <2>1, <2>2
<1>9. CASE ReadError(u)
  BY <1>9 DEF TypeOK, SentWhile, ReadError, Finish, client, service
<1>10. CASE AppendOk(u)
  BY <1>10 DEF TypeOK, SentWhile, AppendOk, AnsweredOk, Goto, service
<1>11. CASE CreateOk(u)
  BY <1>11 DEF TypeOK, SentWhile, CreateOk, AnsweredOk, Goto, client, service
<1>12. CASE SealOk(u)
  BY <1>12
     DEF TypeOK, SentWhile, SealOk, AnsweredOk, Request, Goto, client, service
<1>13. CASE PublishOk(u)
  BY <1>13
     DEF TypeOK, SentWhile, PublishOk, AnsweredOk, Finish, client, service
<1>14. CASE JoinFails(u)
  <2>1. PICK r \in Starts : task[u][r] # "ok" /\ Finish(u, task[u][r])
    BY <1>14 DEF JoinFails, FirstFailed
  <2> QED BY <1>14, <2>1 DEF TypeOK, SentWhile, JoinFails, Finish, client, service
<1>15. CASE JoinOk(u)
  BY <1>15
     DEF TypeOK, SentWhile, JoinOk, Joined, AllChunksOk, Request, Goto, client, service
<1>16. CASE Abandon(u)
  BY <1>16 DEF TypeOK, SentWhile, Abandon, Finish, client, service
<1>17. CASE ServeReserve(u)
  BY <1>17 DEF TypeOK, SentWhile, ServeReserve, TakesEffect, Enter, client
<1>18. CASE ServeCreate(u)
  BY <1>18 DEF TypeOK, SentWhile, ServeCreate, TakesEffect, Enter, client
<1>19. CASE ServeAppend(u)
  BY <1>19 DEF TypeOK, SentWhile, ServeAppend, TakesEffect, client
<1>20. CASE ServeSeal(u)
  BY <1>20 DEF TypeOK, SentWhile, ServeSeal, TakesEffect, Enter, client
<1>21. CASE ServePublish(u)
  BY <1>21 DEF TypeOK, SentWhile, ServePublish, TakesEffect, Enter, client
<1>22. CASE ChunkStep(u, s)
  BY <1>22, ChunkEffect DEF SentWhile
<1>23. CASE ServeChunk(u, s)
  BY <1>23 DEF SentWhile, ServeChunk, client
<1> QED
  BY <1>1, <1>2, <1>3, <1>4, <1>5, <1>6, <1>7, <1>8, <1>9, <1>10, <1>11,
     <1>12, <1>13, <1>14, <1>15, <1>16, <1>17, <1>18, <1>19, <1>20, <1>21,
     <1>22, <1>23
     DEF Does, CallStep, LocalStep, AnswerStep, Serve

(***************************************************************************)
(* V1.                                                                     *)
(***************************************************************************)
\* The commit is sent with the whole stream, after every chunk succeeded.
LEMMA V1CommitStep ==
  ASSUME TypeOK, ~ServiceV2, NEW u \in Uploads, NEW s \in Starts, Does(u, s),
         InStream(u), SentWhile(u), V1Commit(u)
  PROVE  V1Commit(u)'
<1>1. CASE RefuseTripped(u)
  BY <1>1
     DEF TypeOK, SentWhile, V1Commit, Committing, RefuseTripped, Finish, client, service
<1>2. CASE Reserve(u)
  BY <1>2
     DEF TypeOK, SentWhile, V1Commit, Committing, Reserve, Request, Goto, client, service
<1>3. CASE ReserveOk(u)
  BY <1>3
     DEF TypeOK, SentWhile, V1Commit, Committing, ReserveOk, AnsweredOk, Goto, client, service
<1>4. CASE ReserveExists(u)
  BY <1>4
     DEF TypeOK, SentWhile, V1Commit, Committing, ReserveExists, Goto, Finish, client, service
<1>5. CASE StartUpload(u)
  BY <1>5
     DEF TypeOK, SentWhile, V1Commit, Committing, StartUpload, Request, Goto, client, service
<1>6. CASE RequestFails(u)
  BY <1>6
     DEF TypeOK, SentWhile, V1Commit, Committing, RequestFails, Finish, client, service
<1>7. CASE ReadChunk(u)
  BY <1>7
     DEF TypeOK, SentWhile, V1Commit, Committing, ReadChunk, Request, Goto, service
<1>8. CASE ReadEnd(u)
  BY <1>8, OffsetAdvances
     DEF TypeOK, SentWhile, V1Commit, Committing, ReadEnd, Request, Goto, client, service
<1>9. CASE ReadError(u)
  BY <1>9
     DEF TypeOK, SentWhile, V1Commit, Committing, ReadError, Finish, client, service
<1>10. CASE AppendOk(u)
  BY <1>10
     DEF TypeOK, SentWhile, V1Commit, Committing, AppendOk, AnsweredOk, Goto, service
<1>11. CASE CreateOk(u)
  BY <1>11
     DEF TypeOK, SentWhile, V1Commit, Committing, CreateOk, AnsweredOk, Goto, client, service
<1>12. CASE SealOk(u)
  BY <1>12
     DEF TypeOK, SentWhile, V1Commit, Committing, SealOk, AnsweredOk, Request, Goto, client, service
<1>13. CASE PublishOk(u)
  BY <1>13
     DEF TypeOK, SentWhile, V1Commit, Committing, PublishOk, AnsweredOk, Finish, client, service
<1>14. CASE JoinFails(u)
  BY <1>14
     DEF TypeOK, SentWhile, V1Commit, Committing, JoinFails, Finish, client, service
<1>15. CASE JoinOk(u)
  BY <1>15
     DEF TypeOK, SentWhile, V1Commit, Committing, JoinOk, Joined, AllChunksOk, Request, Goto, client, service
<1>16. CASE Abandon(u)
  BY <1>16
     DEF TypeOK, SentWhile, V1Commit, Committing, Abandon, Finish, client, service
<1>17. CASE ServeReserve(u)
  BY <1>17
     DEF TypeOK, SentWhile, V1Commit, Committing, ServeReserve, TakesEffect, Enter, client
<1>18. CASE ServeCreate(u)
  BY <1>18
     DEF TypeOK, SentWhile, V1Commit, Committing, ServeCreate, TakesEffect, Enter, client
<1>19. CASE ServeAppend(u)
  BY <1>19
     DEF TypeOK, SentWhile, V1Commit, Committing, ServeAppend, TakesEffect, client
<1>20. CASE ServeSeal(u)
  BY <1>20
     DEF TypeOK, SentWhile, V1Commit, Committing, ServeSeal, TakesEffect, Enter, client
<1>21. CASE ServePublish(u)
  BY <1>21
     DEF TypeOK, SentWhile, V1Commit, Committing, ServePublish, TakesEffect, Enter, client
<1>22. CASE ChunkStep(u, s)
  BY <1>22, ChunkEffect DEF V1Commit, Committing
<1>23. CASE ServeChunk(u, s)
  BY <1>23 DEF V1Commit, Committing, ServeChunk, client
<1> QED
  BY <1>1, <1>2, <1>3, <1>4, <1>5, <1>6, <1>7, <1>8, <1>9, <1>10, <1>11,
     <1>12, <1>13, <1>14, <1>15, <1>16, <1>17, <1>18, <1>19, <1>20, <1>21,
     <1>22, <1>23
     DEF Does, CallStep, LocalStep, AnswerStep, Serve

\* Steps that touch neither a task nor the read loop.
LEMMA ReadFrame ==
  ASSUME TypeOK, NEW u \in Uploads, NEW s \in Starts, Does(u, s),
         ~ReadChunk(u), ~AppendOk(u), ~ChunkStep(u, s)
  PROVE  task' = task /\ offset' = offset /\ length' = length
BY DEF Does, CallStep, LocalStep, RefuseTripped, Reserve, StartUpload, ReadEnd,
       JoinFails, JoinOk, ReadError, Abandon, AnswerStep, ReserveOk,
       ReserveExists, CreateOk, SealOk, PublishOk, RequestFails, Serve,
       ServeReserve, ServeCreate, ServeAppend, ServeSeal, ServePublish,
       ServeChunk, client

\* Steps that do not touch the bytes the service holds.
LEMMA BlobFrame ==
  ASSUME TypeOK, NEW u \in Uploads, NEW s \in Starts, Does(u, s),
         ~ServeAppend(u), ~ServeChunk(u, s)
  PROVE  blob' = blob
BY DEF Does, CallStep, LocalStep, RefuseTripped, Reserve, StartUpload,
       ReadChunk, ReadEnd, JoinFails, JoinOk, ReadError, Abandon, AnswerStep,
       ReserveOk, ReserveExists, CreateOk, AppendOk, SealOk, PublishOk,
       RequestFails, Serve, ServeReserve, ServeCreate, ServeSeal,
       ServePublish, ChunkStep, SendChunk, ChunkAnswered, CheckChunk, service

\* What ReadChunk does in V1: a task for the chunk at the offset.
LEMMA ReadEffect ==
  ASSUME TypeOK, ~ServiceV2, NEW u \in Uploads, ReadChunk(u)
  PROVE  /\ task'[u][offset[u]] = "queued"
         /\ \A r \in Starts : r # offset[u] => task'[u][r] = task[u][r]
         /\ offset'[u] = offset[u] + ReadLen(u, offset[u])
         /\ length' = length
<1>1. offset[u] \in Starts
  BY DEF TypeOK
<1>2. /\ task' = [task EXCEPT ![u][offset[u]] = "queued"]
      /\ offset' = [offset EXCEPT ![u] = @ + ReadLen(u, @)]
      /\ length' = length
  BY DEF ReadChunk
<1> QED BY <1>1, <1>2 DEF TypeOK

\* Every byte the loop has read is in the chunk of a task.
LEMMA V1TasksStep ==
  ASSUME TypeOK, ~ServiceV2, NEW u \in Uploads, NEW s \in Starts, Does(u, s),
         InStream(u), V1Commit(u), V1Tasks(u)
  PROVE  V1Tasks(u)'
<1>1. CASE ReadChunk(u)
  <2>1. \A r \in Starts : ReadLen(u, r)' = ReadLen(u, r)
    BY <1>1, ReadEffect, StreamFixed
  <2>2. ASSUME NEW i \in 0 .. offset'[u] - 1 PROVE ChunkCovers(u, i)'
    <3>1. CASE i < offset[u]
      <4>1. PICK r \in Starts : /\ task[u][r] # "none"
                                /\ r <= i /\ i < r + ReadLen(u, r)
        BY <3>1, OffsetAdvances DEF V1Tasks, ChunkCovers
      <4>2. task'[u][r] # "none"
        BY <1>1, <4>1, ReadEffect
      <4> QED BY <2>1, <4>1, <4>2 DEF ChunkCovers
    <3>2. CASE i >= offset[u]
      <4>1. offset[u] \in Starts
        BY DEF TypeOK
      <4>2. task'[u][offset[u]] # "none" /\ i < offset[u] + ReadLen(u, offset[u])
        BY <1>1, <2>2, ReadEffect, OffsetAdvances
      <4> QED BY <2>1, <3>2, <4>1, <4>2 DEF ChunkCovers
    <3> QED BY <3>1, <3>2, OffsetAdvances
  <2> QED BY <2>2 DEF V1Tasks
<1>2. CASE ChunkStep(u, s)
  <2>1. offset' = offset /\ length' = length
    BY <1>2, ChunkEffect
  <2>2. \A r \in Starts : task[u][r] # "none" => task'[u][r] # "none"
    BY <1>2, ChunkEffect
  <2>3. \A r \in Starts : ReadLen(u, r)' = ReadLen(u, r)
    BY <2>1, StreamFixed
  <2> QED BY <2>1, <2>2, <2>3 DEF V1Tasks, ChunkCovers
<1>3. CASE ~ReadChunk(u) /\ ~ChunkStep(u, s)
  <2>1. ~AppendOk(u)
    BY DEF AppendOk, AnsweredOk, V1Commit
  <2>2. task' = task /\ offset' = offset /\ length' = length
    BY <1>3, <2>1, ReadFrame
  <2>3. \A r \in Starts : ReadLen(u, r)' = ReadLen(u, r)
    BY <2>2, StreamFixed
  <2> QED BY <2>2, <2>3 DEF V1Tasks, ChunkCovers
<1> QED BY <1>1, <1>2, <1>3

\* What the service holds is part of the stream, and has every chunk that
\* was answered with success.
LEMMA V1BlobStep ==
  ASSUME TypeOK, ~ServiceV2, NEW u \in Uploads, NEW s \in Starts, Does(u, s),
         InStream(u), V1Commit(u), V1Blob(u)
  PROVE  V1Blob(u)'
<1>1. length' = length
  BY StreamStep
<1>2. \A r \in Starts : ChunkBytes(u, r)' = ChunkBytes(u, r)
  BY <1>1, StreamFixed
<1>3. CASE ServeChunk(u, s)
  <2>1. task' = task /\ blob'[u] = blob[u] \cup ChunkBytes(u, s)
    BY <1>3 DEF ServeChunk, client, TypeOK
  <2>2. s \in Nat /\ length[u] \in Nat /\ s <= length[u]
    BY <1>3, OffsetAdvances DEF ServeChunk, InStream
  <2>3. ReadLen(u, s) \in Nat /\ s + ReadLen(u, s) <= length[u]
    BY <2>2, ReadLenType
  <2>4. ChunkBytes(u, s) \subseteq Whole(length[u])
    BY <2>2, <2>3, ChunkInWhole DEF ChunkBytes
  <2> QED BY <1>1, <1>2, <2>1, <2>4 DEF V1Blob
<1>4. CASE ChunkStep(u, s)
  <2>1. blob' = blob
    BY <1>4, ChunkEffect
  <2>2. task'[u][s] = "ok" => ChunkBytes(u, s) \subseteq blob[u]
    <3>1. CASE ChunkAnswered(u, s)
      <4>1. PICK answer \in {"ok", "unchecked", "api", "lost"} :
              /\ answer = "ok" => ChunkBytes(u, s) \subseteq blob[u]
              /\ task' = [task EXCEPT ![u][s] = answer]
        BY <3>1 DEF ChunkAnswered
      <4> QED BY <4>1 DEF TypeOK
    <3>2. CASE ~ChunkAnswered(u, s)
      BY <1>4, <3>2, SMTT(30) DEF TypeOK, ChunkStep, SendChunk, CheckChunk
    <3> QED BY <3>1, <3>2
  <2>3. \A r \in Starts : r # s => task'[u][r] = task[u][r]
    BY <1>4, ChunkEffect
  <2> QED BY <1>1, <1>2, <2>1, <2>2, <2>3 DEF V1Blob
<1>5. CASE ReadChunk(u)
  <2>1. \A r \in Starts : task'[u][r] = "ok" => task[u][r] = "ok"
    BY <1>5, ReadEffect
  <2>2. blob' = blob
    BY <1>5 DEF ReadChunk, service
  <2> QED BY <1>1, <1>2, <2>1, <2>2 DEF V1Blob
<1>6. CASE ~ServeChunk(u, s) /\ ~ChunkStep(u, s) /\ ~ReadChunk(u)
  <2>1. ~AppendOk(u) /\ ~ServeAppend(u)
    BY DEF AppendOk, ServeAppend, AnsweredOk, TakesEffect, V1Commit
  <2>2. task' = task /\ blob' = blob
    BY <1>6, <2>1, ReadFrame, BlobFrame
  <2> QED BY <1>1, <1>2, <2>2 DEF V1Blob
<1> QED BY <1>3, <1>4, <1>5, <1>6

(***************************************************************************)
(* V2.                                                                     *)
(***************************************************************************)
\* The blob stays the prefix of the stream that was appended.
LEMMA V2Step ==
  ASSUME TypeOK, ServiceV2, NEW u \in Uploads, NEW s \in Starts, Does(u, s),
         InStream(u), SentWhile(u), V2Inv(u)
  PROVE  V2Inv(u)'
<1>1. CASE RefuseTripped(u)
  BY <1>1
     DEF TypeOK, SentWhile, V2Inv, Sealing, RefuseTripped, Finish, client, service
<1>2. CASE Reserve(u)
  BY <1>2
     DEF TypeOK, SentWhile, V2Inv, Sealing, Reserve, Request, Goto, client, service
<1>3. CASE ReserveOk(u)
  BY <1>3
     DEF TypeOK, SentWhile, V2Inv, Sealing, ReserveOk, AnsweredOk, Goto, client, service
<1>4. CASE ReserveExists(u)
  BY <1>4
     DEF TypeOK, SentWhile, V2Inv, Sealing, ReserveExists, Goto, Finish, client, service
<1>5. CASE StartUpload(u)
  BY <1>5
     DEF TypeOK, SentWhile, V2Inv, Sealing, StartUpload, Request, Goto, client, service
<1>6. CASE RequestFails(u)
  <2>1. /\ sent'[u] \in {sent[u], "none"} /\ pc'[u] = "done"
        /\ UNCHANGED <<client, service>>
    BY <1>6 DEF RequestFails, Finish, TypeOK
  <2> QED BY <2>1 DEF V2Inv, Sealing, client, service
<1>7. CASE ReadChunk(u)
  BY <1>7, OffsetAdvances, StreamFixed
     DEF TypeOK, SentWhile, V2Inv, Sealing, ReadChunk, Request, Goto, service
<1>8. CASE ReadEnd(u)
  BY <1>8, OffsetAdvances
     DEF TypeOK, SentWhile, V2Inv, Sealing, ReadEnd, Request, Goto, client, service
<1>9. CASE ReadError(u)
  BY <1>9
     DEF TypeOK, SentWhile, V2Inv, Sealing, ReadError, Finish, client, service
<1>10. CASE AppendOk(u)
  BY <1>10, OffsetAdvances, StreamFixed
     DEF TypeOK, SentWhile, V2Inv, Sealing, AppendOk, AnsweredOk, Goto, service
<1>11. CASE CreateOk(u)
  BY <1>11, StreamFixed
     DEF TypeOK, SentWhile, V2Inv, Sealing, CreateOk, AnsweredOk, Goto, client, service
<1>12. CASE SealOk(u)
  BY <1>12
     DEF TypeOK, SentWhile, V2Inv, Sealing, SealOk, AnsweredOk, Request, Goto, client, service
<1>13. CASE PublishOk(u)
  BY <1>13
     DEF TypeOK, SentWhile, V2Inv, Sealing, PublishOk, AnsweredOk, Finish, client, service
<1>14. CASE JoinFails(u)
  BY <1>14
     DEF TypeOK, SentWhile, V2Inv, Sealing, JoinFails, Finish, client, service
<1>15. CASE JoinOk(u)
  BY <1>15
     DEF TypeOK, SentWhile, V2Inv, Sealing, JoinOk, Joined, AllChunksOk, Request, Goto, client, service
<1>16. CASE Abandon(u)
  BY <1>16
     DEF TypeOK, SentWhile, V2Inv, Sealing, Abandon, Finish, client, service
<1>17. CASE ServeReserve(u)
  BY <1>17
     DEF TypeOK, SentWhile, V2Inv, Sealing, ServeReserve, TakesEffect, Enter, client
<1>18. CASE ServeCreate(u)
  BY <1>18
     DEF TypeOK, SentWhile, V2Inv, Sealing, ServeCreate, TakesEffect, Enter, client
<1>19. CASE ServeAppend(u)
  <2>1. /\ tail[u] \in Nat /\ ReadLen(u, offset[u]) \in Nat /\ tail[u] = offset[u]
    BY <1>19, OffsetAdvances DEF ServeAppend, TakesEffect, V2Inv, TypeOK
  <2>2. blob'[u] = Whole(tail'[u])
    <3>1. /\ blob'[u] = blob[u] \cup Bytes(tail[u], offset[u], ReadLen(u, offset[u]))
          /\ tail'[u] = tail[u] + ReadLen(u, offset[u])
      BY <1>19 DEF ServeAppend, TypeOK
    <3>2. blob[u] = Whole(tail[u])
      BY DEF V2Inv
    <3> QED BY <2>1, <3>1, <3>2, WholeExtends
  <2>3. /\ sent'[u] = "none"
        /\ tail'[u] = offset[u] + ReadLen(u, offset[u])
        /\ UNCHANGED <<pc, offset, length, task, entry>>
    BY <1>19, <2>1 DEF ServeAppend, TakesEffect, TypeOK, client
  <2>4. ReadLen(u, offset[u])' = ReadLen(u, offset[u])
    BY <2>3, StreamFixed
  <2>5. pc[u] \in {"append", "done"} /\ ~Sealing(u)
    BY <1>19 DEF ServeAppend, TakesEffect, SentWhile, V2Inv, Sealing
  <2> QED BY <2>2, <2>3, <2>4, <2>5 DEF V2Inv, Sealing
<1>20. CASE ServeSeal(u)
  BY <1>20
     DEF TypeOK, SentWhile, V2Inv, Sealing, ServeSeal, TakesEffect, Enter, client
<1>21. CASE ServePublish(u)
  BY <1>21
     DEF TypeOK, SentWhile, V2Inv, Sealing, ServePublish, TakesEffect, Enter, client
<1>22. CASE ChunkStep(u, s) \/ ServeChunk(u, s)
  BY <1>22, ChunkEffect DEF V2Inv, ServeChunk
<1> QED
  BY <1>1, <1>2, <1>3, <1>4, <1>5, <1>6, <1>7, <1>8, <1>9, <1>10, <1>11,
     <1>12, <1>13, <1>14, <1>15, <1>16, <1>17, <1>18, <1>19, <1>20, <1>21,
     <1>22
     DEF Does, CallStep, LocalStep, AnswerStep, Serve

(***************************************************************************)
(* The theorems.                                                           *)
(***************************************************************************)
\* A fresh Api value satisfies the invariant.
LEMMA InitInv == Init => IInv
<1> SUFFICES ASSUME Init PROVE IInv
  OBVIOUS
<1>1. TypeOK
  <2>1. blob \in [Uploads -> SUBSET (Nat \X Nat)]
    BY DEF Init
  <2>2. task \in [Uploads -> [Starts -> TaskStates]]
    BY DEF Init
  <2>3. permits \in 0 .. MaxConcurrency
    BY ConcurrencyAssumption DEF Init
  <2>4. attempt \in [Uploads -> 1 .. MaxAttempts]
    BY AttemptAssumption DEF Init
  <2>5. offset \in [Uploads -> 0 .. MaxLength]
    BY LengthAssumption DEF Init
  <2> QED BY <2>1, <2>2, <2>3, <2>4, <2>5 DEF Init, TypeOK
<1>2. PermitsConserved
  <2>1. Sending = {}
    BY DEF Init, Sending
  <2> QED BY <2>1, FS_EmptySet, ConcurrencyAssumption DEF Init, PermitsConserved
<1>3. ASSUME NEW u \in Uploads PROVE CallInv(u)
  <2>1. Whole(0) = {}
    BY DEF Whole, Bytes
  <2> QED
    BY <1>1, <2>1, LengthAssumption
       DEF Init, TypeOK, CallInv, InStream, SentWhile, V1Tasks, V1Blob,
           V1Commit, V2Inv, Committing, Sealing
<1> QED BY <1>1, <1>2, <1>3 DEF IInv

\* Stuttering keeps the invariant.
LEMMA SameInv ==
  ASSUME NEW v \in Uploads, CallInv(v), Same(v), length' = length
  PROVE  CallInv(v)'
<1>1. /\ \A r : ReadLen(v, r)' = ReadLen(v, r)
      /\ \A r : ChunkBytes(v, r)' = ChunkBytes(v, r)
  BY StreamFixed
<1> QED
  BY <1>1 DEF Same, CallInv, InStream, SentWhile, V1Tasks, ChunkCovers, V1Blob,
              V1Commit, V2Inv, Committing, Sealing

\* Every step keeps the invariant: of its own call by the lemmas above, of
\* the others because their state is the same.
LEMMA NextInv == IInv /\ [Next]_vars => IInv'
<1> SUFFICES ASSUME IInv, [Next]_vars PROVE IInv'
  OBVIOUS
<1>1. CASE Next
  <2>1. PICK u \in Uploads : Step(u)
    BY <1>1 DEF Next
  <2>2. PICK s \in Starts : Does(u, s)
    <3>1. 0 \in Starts
      BY LengthAssumption
    <3> QED BY <2>1, <3>1 DEF Step, Does
  <2>3. TypeOK /\ PermitsConserved /\ CallInv(u) /\ InStream(u)
    BY DEF IInv, CallInv
  <2>4. PermitsConserved' /\ TypeOK'
    BY <2>2, <2>3, PermitStep, TypeStep
  <2>5. length' = length /\ InStream(u)'
    BY <2>2, <2>3, StreamStep
  <2>6. CallInv(u)'
    <3>1. SentWhile(u)'
      BY <2>2, <2>3, SentStep DEF CallInv
    <3>2. ASSUME ~ServiceV2 PROVE V1Tasks(u)' /\ V1Blob(u)' /\ V1Commit(u)'
      BY <2>2, <2>3, <3>2, V1TasksStep, V1BlobStep, V1CommitStep DEF CallInv
    <3>3. ASSUME ServiceV2 PROVE V2Inv(u)'
      BY <2>2, <2>3, <3>3, V2Step DEF CallInv
    <3> QED BY <2>5, <3>1, <3>2, <3>3 DEF CallInv
  <2>7. ASSUME NEW v \in Uploads, v # u PROVE CallInv(v)'
    <3>1. Same(v)
      BY <2>2, <2>3, <2>7, OthersSame
    <3> QED BY <2>5, <3>1, SameInv DEF IInv
  <2> QED BY <2>4, <2>6, <2>7 DEF IInv
<1>2. CASE UNCHANGED vars
  <2>1. TypeOK' /\ length' = length /\ \A v \in Uploads : Same(v)
    BY <1>2 DEF IInv, TypeOK, Same, vars
  <2>2. PermitsConserved'
    BY <1>2 DEF IInv, PermitsConserved, Sending, vars
  <2> QED BY <2>1, <2>2, SameInv DEF IInv
<1> QED BY <1>1, <1>2

\* The whole stream is there when an entry can be read: V1 because the
\* chunks cover it and all of them succeeded, V2 because the appended prefix
\* has its length.
LEMMA InvWhole == IInv => PublishedWhole
<1> SUFFICES ASSUME IInv, NEW u \in Uploads, entry[u] = "ready"
             PROVE  size[u] = length[u] /\ blob[u] = Whole(length[u])
  BY DEF PublishedWhole
<1>1. TypeOK /\ InStream(u) /\ SentWhile(u)
  BY DEF IInv, CallInv
<1>2. CASE ~ServiceV2
  <2>1. V1Tasks(u) /\ V1Blob(u) /\ V1Commit(u) /\ Committing(u)
    BY <1>2 DEF IInv, CallInv, Committing
  <2>2. ASSUME NEW b \in Whole(length[u]) PROVE b \in blob[u]
    <3>1. PICK i \in 0 .. length[u] - 1 : b = <<i, i>>
      BY DEF Whole, Bytes
    <3>2. PICK s \in Starts : task[u][s] # "none" /\ s <= i /\ i < s + ReadLen(u, s)
      BY <2>1 DEF V1Tasks, V1Commit, ChunkCovers
    <3>3. ChunkBytes(u, s) \subseteq blob[u]
      BY <2>1, <3>2 DEF V1Blob, V1Commit
    <3>4. ReadLen(u, s) \in Int /\ length[u] \in Nat
      BY <1>1, ChunkAssumption, LengthAssumption DEF ReadLen, TypeOK
    <3>5. i - s \in 0 .. ReadLen(u, s) - 1 /\ b = <<s + (i - s), s + (i - s)>>
      BY <3>1, <3>2, <3>4
    <3> QED BY <3>3, <3>5 DEF ChunkBytes, Bytes
  <2> QED BY <1>1, <2>1, <2>2 DEF SentWhile, V1Commit, V1Blob
<1>3. CASE ServiceV2
  BY <1>1, <1>3 DEF IInv, CallInv, V2Inv, Sealing, SentWhile
<1> QED BY <1>2, <1>3

\* IInv holds of every reachable state.
LEMMA InductiveInvariant == Spec => []IInv
BY InitInv, NextInv, PTL DEF Spec

\* Every variable stays in its range, for any number of uploads: no permit
\* is invented and no upload reads past the end of its stream.
THEOREM TypeCorrect == Spec => []TypeOK
<1>1. IInv => TypeOK
  BY DEF IInv
<1> QED BY <1>1, InductiveInvariant, PTL

\* An entry that clients can read holds exactly the bytes of its stream and
\* was committed with their number, for V1 and V2, whatever chunks were
\* reordered, refused or lost and whichever calls were abandoned.
THEOREM PublishedEntriesAreWhole == Spec => []PublishedWhole
BY InvWhole, InductiveInvariant, PTL

\* upload_file returns Ok only for a published entry.
THEOREM OkOnlyIfPublished == Spec => []OkIsPublished
<1>1. IInv => OkIsPublished
  BY DEF IInv, CallInv, SentWhile, OkIsPublished
<1> QED BY <1>1, InductiveInvariant, PTL

\* MAX_CONCURRENCY permits are held or free, in every state.
THEOREM PermitsAreConserved == Spec => []PermitsConserved
<1>1. IInv => PermitsConserved
  BY DEF IInv
<1> QED BY <1>1, InductiveInvariant, PTL

(***************************************************************************)
(* The breaker, V1.                                                        *)
(***************************************************************************)
\* Also a chunk task that was throttled has tripped the breaker.
ThrottledInv == /\ ThrottledMeansTripped
                /\ \A u \in Uploads, s \in Starts :
                     task[u][s] = "throttled" => tripped

\* In V1 every answer is checked, so the step that makes a call or a chunk
\* throttled trips the breaker.
LEMMA ThrottledStep ==
  ASSUME ~ServiceV2, IInv, ThrottledInv,
         NEW u \in Uploads, NEW s \in Starts, Does(u, s)
  PROVE  ThrottledInv'
<1>0. TypeOK /\ V1Commit(u)
  BY DEF IInv, CallInv
<1>1. tripped => tripped'
  BY DEF Does, CallStep, LocalStep, RefuseTripped, Reserve, StartUpload,
         ReadChunk, ReadEnd, JoinFails, JoinOk, ReadError, Abandon, AnswerStep,
         ReserveOk, ReserveExists, CreateOk, AppendOk, SealOk, PublishOk,
         RequestFails, Serve, ServeReserve, ServeCreate, ServeAppend, ServeSeal,
         ServePublish, ChunkStep, SendChunk, ChunkAnswered, CheckChunk, ServeChunk
<1>2. \A v \in Uploads, r \in Starts : task'[v][r] = "throttled" => tripped'
  <2>1. CASE ChunkStep(u, s)
    <3>1. CASE CheckChunk(u, s)
      BY <3>1 DEF CheckChunk, Trips
    <3>2. CASE ~CheckChunk(u, s)
      <4>1. task'[u][s] # "throttled"
        <5>1. CASE SendChunk(u, s)
          BY <1>0, <5>1 DEF TypeOK, SendChunk
        <5>2. CASE ChunkAnswered(u, s)
          <6>1. PICK answer \in {"ok", "unchecked", "api", "lost"} :
                  task' = [task EXCEPT ![u][s] = answer]
            BY <5>2 DEF ChunkAnswered
          <6> QED BY <1>0, <6>1 DEF TypeOK
        <5> QED BY <2>1, <3>2, <5>1, <5>2 DEF ChunkStep
      <4> QED BY <1>0, <1>1, <2>1, <4>1, ChunkEffect DEF ThrottledInv
    <3> QED BY <3>1, <3>2
  <2>2. CASE ReadChunk(u)
    <3>1. \A v \in Uploads : v # u => task'[v] = task[v]
      BY <1>0, OthersSame DEF Same
    <3> QED BY <1>0, <1>1, <2>2, <3>1, ReadEffect DEF ThrottledInv
  <2>3. CASE ~ChunkStep(u, s) /\ ~ReadChunk(u)
    <3>1. ~AppendOk(u)
      BY <1>0 DEF AppendOk, AnsweredOk, V1Commit
    <3> QED BY <1>0, <1>1, <2>3, <3>1, ReadFrame DEF ThrottledInv
  <2> QED BY <2>1, <2>2, <2>3
<1>3. ASSUME NEW v \in Uploads, result'[v] = "throttled" PROVE tripped'
  <2>1. CASE result[v] = "throttled"
    BY <1>1, <2>1 DEF ThrottledInv, ThrottledMeansTripped
  <2>2. CASE result[v] # "throttled"
    <3>1. v = u
      BY <1>0, <1>3, <2>2, OthersSame DEF Same
    <3>2. CASE RequestFails(u)
      <4>1. PICK answer \in Failed : /\ tripped' = (tripped \/ Trips(pc[u], answer))
                                     /\ Finish(u, answer)
        BY <3>2 DEF RequestFails
      <4>2. answer = "throttled"
        BY <1>0, <1>3, <3>1, <4>1 DEF Finish, TypeOK
      <4> QED BY <1>0, <4>1, <4>2 DEF Trips, V1Commit
    <3>3. CASE JoinFails(u)
      <4>1. PICK r \in Starts : Finish(u, task[u][r])
        BY <3>3 DEF JoinFails
      <4>2. task[u][r] = "throttled"
        BY <1>0, <1>3, <3>1, <4>1 DEF Finish, TypeOK
      <4> QED BY <1>1, <4>2 DEF ThrottledInv
    <3>4. CASE ~RequestFails(u) /\ ~JoinFails(u)
      BY <1>0, <1>3, <2>2, <3>1, <3>4
         DEF TypeOK, Does, CallStep, LocalStep, RefuseTripped, Reserve,
             StartUpload, ReadChunk, ReadEnd, JoinOk, ReadError, Abandon,
             AnswerStep, ReserveOk, ReserveExists, CreateOk, AppendOk, SealOk,
             PublishOk, Goto, Finish, Request, Serve, ServeReserve,
             ServeCreate, ServeAppend, ServeSeal, ServePublish, ChunkStep,
             SendChunk, ChunkAnswered, CheckChunk, ServeChunk
    <3> QED BY <3>2, <3>3, <3>4
  <2> QED BY <2>1, <2>2
<1> QED BY <1>2, <1>3 DEF ThrottledInv, ThrottledMeansTripped

\* With the V1 service a caller that is told of a throttling finds the
\* breaker tripped, whichever request of its upload was throttled.  (V2 does
\* not check the request that creates the blob.)
THEOREM ThrottlingTripsV1 ==
  ASSUME ~ServiceV2 PROVE Spec => []ThrottledMeansTripped
<1>1. Init => ThrottledInv
  BY DEF Init, ThrottledInv, ThrottledMeansTripped
<1>2. IInv /\ ThrottledInv /\ [Next]_vars => ThrottledInv'
  <2> SUFFICES ASSUME IInv, ThrottledInv, [Next]_vars PROVE ThrottledInv'
    OBVIOUS
  <2>1. CASE Next
    <3>1. PICK u \in Uploads, s \in Starts : Does(u, s)
      <4>1. 0 \in Starts
        BY LengthAssumption
      <4> QED BY <2>1, <4>1 DEF Next, Step, Does
    <3> QED BY <3>1, ThrottledStep
  <2>2. CASE UNCHANGED vars
    BY <2>2 DEF vars, ThrottledInv, ThrottledMeansTripped
  <2> QED BY <2>1, <2>2
<1>3. ThrottledInv => ThrottledMeansTripped
  BY DEF ThrottledInv
<1> QED BY <1>1, <1>2, <1>3, InductiveInvariant, PTL DEF Spec

(***************************************************************************)
(* The upload protocol implements AtomicPublish.  Whether an entry shows   *)
(* anything changes only when the service executes a commit or finalize;   *)
(* what it shows then, and ever after, is the whole stream, by             *)
(* PublishedEntriesAreWhole.                                               *)
(***************************************************************************)
Ready(u) == entry[u] = "ready"
Visible == <<[u \in Uploads |-> <<length[u], Whole(length[u])>>],
             [u \in Uploads |-> Shown(u)],
             [u \in Uploads |-> Outcome(u)]>>

\* An entry shows nothing or its whole stream.
LEMMA ShownWhole ==
  ASSUME IInv, NEW u \in Uploads
  PROVE  Shown(u) = IF Ready(u) THEN <<length[u], Whole(length[u])>> ELSE <<>>
BY InvWhole DEF Shown, Ready, PublishedWhole

\* No entry is withdrawn, and only ServePublish brings one out.
LEMMA ReadyStep ==
  ASSUME IInv, NEW u \in Uploads, NEW s \in Starts, Does(u, s)
  PROVE  Ready(u)' <=> Ready(u) \/ ServePublish(u)
<1>0. TypeOK /\ SentWhile(u)
  BY DEF IInv, CallInv
<1>1. CASE ServePublish(u)
  BY <1>0, <1>1 DEF ServePublish, Enter, Ready, TypeOK
<1>2. CASE ServeReserve(u) \/ ServeCreate(u) \/ ServeSeal(u)
  <2>1. ~Ready(u) /\ ~ServePublish(u)
    BY <1>0, <1>2 DEF ServeReserve, ServeCreate, ServeSeal, ServePublish,
                      TakesEffect, SentWhile, Ready
  <2>2. ~Ready(u)'
    BY <1>0, <1>2 DEF ServeReserve, ServeCreate, ServeSeal, Enter, Ready, TypeOK
  <2> QED BY <2>1, <2>2
<1>3. CASE ~ServePublish(u) /\ ~ServeReserve(u) /\ ~ServeCreate(u) /\ ~ServeSeal(u)
  <2>1. entry' = entry
    BY <1>3 DEF Does, CallStep, LocalStep, RefuseTripped, Reserve, StartUpload,
                ReadChunk, ReadEnd, JoinFails, JoinOk, ReadError, Abandon,
                AnswerStep, ReserveOk, ReserveExists, CreateOk, AppendOk,
                SealOk, PublishOk, RequestFails, Serve, ServeAppend, ChunkStep,
                SendChunk, ChunkAnswered, CheckChunk, ServeChunk, service
  <2> QED BY <1>3, <2>1 DEF Ready
<1> QED BY <1>1, <1>2, <1>3

\* A call returns once: Ok for a published entry, or an error.
LEMMA OutcomeStep ==
  ASSUME IInv, NEW u \in Uploads, NEW s \in Starts, Does(u, s)
  PROVE  \/ Outcome(u)' = Outcome(u)
         \/ Outcome(u) = "running" /\ Outcome(u)' = "ok" /\ Ready(u)
         \/ Outcome(u) = "running" /\ Outcome(u)' = "failed"
<1>0. TypeOK /\ SentWhile(u)
  BY DEF IInv, CallInv
<1>1. CASE result'[u] = result[u]
  BY <1>1 DEF Outcome
<1>2. CASE result'[u] # result[u]
  <2>1. result[u] = "none"
    <3>1. pc[u] # "done"
      BY <1>0, <1>2 DEF Does, CallStep, LocalStep, RefuseTripped, Reserve,
           StartUpload, ReadChunk, ReadEnd, JoinFails, JoinOk, Joined,
           ReadError, Abandon, AnswerStep, ReserveOk, ReserveExists, CreateOk,
           AppendOk, SealOk, PublishOk, AnsweredOk, RequestFails, Goto,
           Request, Serve, ServeReserve, ServeCreate, ServeAppend, ServeSeal,
           ServePublish, ChunkStep, SendChunk, ChunkAnswered, CheckChunk,
           ServeChunk
    <3> QED BY <1>0, <3>1 DEF SentWhile
  <2>2. CASE result'[u] = "ok"
    <3>1. PublishOk(u) \/ result'[u] # "ok"
      <4>1. CASE JoinFails(u)
        <5>1. PICK r \in Starts : task[u][r] # "ok" /\ Finish(u, task[u][r])
          BY <4>1 DEF JoinFails, FirstFailed
        <5> QED BY <1>0, <5>1 DEF Finish, TypeOK
      <4> QED
        BY <1>0, <2>1, <4>1 DEF TypeOK, Does, CallStep, LocalStep,
           RefuseTripped, Reserve, StartUpload, ReadChunk, ReadEnd, JoinOk,
           ReadError, Abandon, AnswerStep, ReserveOk, ReserveExists, CreateOk,
           AppendOk, SealOk, RequestFails, Goto, Finish, Request, Serve,
           ServeReserve, ServeCreate, ServeAppend, ServeSeal, ServePublish,
           ChunkStep, SendChunk, ChunkAnswered, CheckChunk, ServeChunk
    <3>2. Ready(u)
      BY <1>0, <2>2, <3>1 DEF PublishOk, AnsweredOk, SentWhile, Ready
    <3> QED BY <2>1, <2>2, <3>2 DEF Outcome
  <2>3. CASE result'[u] # "ok"
    <3>1. result'[u] # "none"
      BY <1>2, <2>1
    <3> QED BY <2>1, <2>3, <3>1 DEF Outcome
  <2> QED BY <2>2, <2>3
<1> QED BY <1>1, <1>2

\* Before any request nothing is published and no call has an outcome.
LEMMA RefinesInit == Init => Abstract!Init
<1> SUFFICES ASSUME Init PROVE Abstract!Init
  OBVIOUS
<1>1. \A u \in Uploads : Shown(u) = <<>> /\ Outcome(u) = "running"
  BY DEF Init, Shown, Outcome
<1> QED BY <1>1 DEF Abstract!Init

\* A step publishes the whole stream of one call, ends one call, or is a
\* stuttering step of the abstract specification.
LEMMA RefinesNext ==
  ASSUME IInv, PublishedWhole', [Next]_vars
  PROVE  [Abstract!Next]_Visible
<1>1. CASE UNCHANGED vars
  BY <1>1 DEF vars, Visible, Shown, Outcome
<1>2. CASE Next
  <2>1. PICK u \in Uploads : Step(u)
    BY <1>2 DEF Next
  <2>2. PICK s \in Starts : Does(u, s)
    <3>1. 0 \in Starts
      BY LengthAssumption
    <3> QED BY <2>1, <3>1 DEF Step, Does
  <2>3. length' = length
    BY <2>2, StreamStep DEF IInv, CallInv
  <2>4. \A v \in Uploads : v # u => Shown(v)' = Shown(v) /\ Outcome(v)' = Outcome(v)
    BY <2>2, OthersSame DEF IInv, Same, Shown, Outcome
  <2>5. /\ Shown(u) = IF Ready(u) THEN <<length[u], Whole(length[u])>> ELSE <<>>
        /\ Shown(u)' = IF Ready(u)' THEN <<length[u], Whole(length[u])>> ELSE <<>>
    <3>1. Shown(u) = IF Ready(u) THEN <<length[u], Whole(length[u])>> ELSE <<>>
      BY ShownWhole
    <3> QED BY <2>3, <3>1 DEF PublishedWhole, Shown, Ready
  <2>6. CASE ServePublish(u) /\ ~Ready(u)
    <3>1. Shown(u) = <<>> /\ Shown(u)' = <<length[u], Whole(length[u])>>
      BY <2>2, <2>5, <2>6, ReadyStep
    <3>2. Outcome(u)' = Outcome(u)
      BY <2>6 DEF ServePublish, Outcome
    <3>3. Abstract!Publish(u)
      BY <2>3, <2>4, <3>1, <3>2 DEF Abstract!Publish
    <3> QED BY <3>3 DEF Abstract!Next, Visible
  <2>7. CASE ~(ServePublish(u) /\ ~Ready(u))
    <3>1. Shown(u)' = Shown(u)
      BY <2>2, <2>5, <2>7, ReadyStep
    <3>2. CASE Outcome(u)' = Outcome(u)
      BY <2>3, <2>4, <3>1, <3>2 DEF Visible
    <3>3. CASE Outcome(u) = "running" /\ Outcome(u)' = "ok" /\ Ready(u)
      <4>1. Abstract!Succeed(u)
        BY <2>3, <2>4, <2>5, <3>1, <3>3 DEF Abstract!Succeed
      <4> QED BY <4>1 DEF Abstract!Next
    <3>4. CASE Outcome(u) = "running" /\ Outcome(u)' = "failed"
      <4>1. Abstract!Fail(u)
        BY <2>3, <2>4, <3>1, <3>4 DEF Abstract!Fail
      <4> QED BY <4>1 DEF Abstract!Next
    <3> QED BY <2>2, <3>2, <3>3, <3>4, OutcomeStep
  <2> QED BY <2>6, <2>7
<1> QED BY <1>1, <1>2

\* The upload protocol, V1 or V2, implements AtomicPublish: a stream appears
\* whole in one step or never, nothing that arrives late changes it, and a
\* call that returns Ok has published its stream.
THEOREM UploadsPublishAtomically == Spec => PublishesAtomically
<1>1. Init => Abstract!Init
  BY RefinesInit
<1>2. IInv /\ PublishedWhole' /\ [Next]_vars => [Abstract!Next]_Visible
  BY RefinesNext
<1> QED
  BY <1>1, <1>2, InductiveInvariant, PublishedEntriesAreWhole, PTL
     DEF Spec, PublishesAtomically, Abstract!Spec, Visible
==============================================================================
