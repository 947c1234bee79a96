------------------------------ MODULE GhaUpload ------------------------------
(***************************************************************************)
(* The GitHub Actions Cache client of gha-cache/src/api.rs: reserving an   *)
(* entry under a random suffix, uploading a stream in chunks, publishing   *)
(* it, and the 429 circuit breaker all uploads share.                      *)
(*                                                                         *)
(* One element of Uploads is one call of allocate_file_with_random_suffix  *)
(* followed by upload_file, as the upload worker and the PUT handlers make *)
(* it.  ServiceV2 chooses the protocol: parallel PATCH requests with a     *)
(* Content-Range and one commit (V1), or appended blocks, a seal and a     *)
(* finalize (V2).                                                          *)
(*                                                                         *)
(* The service is external.  A request it holds takes effect at a step of  *)
(* its own; the answer may be a success (only after the effect), a         *)
(* throttling, another API error, or be lost with the connection, after    *)
(* which the effect may still come.                                        *)
(***************************************************************************)
EXTENDS Integers, FiniteSets

CONSTANTS Uploads,          \* calls made on one Api value
          ServiceV2,        \* credentials.service_v2 is set
          ChunkSize,        \* CHUNK_SIZE, in bytes of the model
          MaxConcurrency,   \* MAX_CONCURRENCY, permits of the semaphore
          MaxAttempts,      \* tries of allocate_file_with_random_suffix
          MaxLength         \* model bound: longest stream

ASSUME UploadsAssumption == IsFiniteSet(Uploads)
ASSUME ServiceAssumption == ServiceV2 \in BOOLEAN
ASSUME ChunkAssumption == ChunkSize \in Nat \ {0}
ASSUME ConcurrencyAssumption == MaxConcurrency \in Nat \ {0}
ASSUME AttemptAssumption == MaxAttempts \in Nat \ {0}
ASSUME LengthAssumption == MaxLength \in Nat

VARIABLES
  tripped,   \* circuit_breaker_429_tripped
  permits,   \* free permits of concurrency_limit
  pc,        \* where each call is
  result,    \* what it returned, "none" while it runs
  attempt,   \* the iteration of the suffix loop
  length,    \* bytes the stream holds, unknown to the program
  offset,    \* the local variable offset
  task,      \* V1: the spawned chunk upload that starts at a byte
  sent,      \* the request in the service's hands that has no effect yet
  entry,     \* service: state of the entry reserved for the call
  size,      \* service: the size it was committed with
  tail,      \* service: V2, where the next block is appended
  blob       \* service: pairs <<position, byte of the stream>>

vars == <<tripped, permits, pc, result, attempt, length, offset, task,
          sent, entry, size, tail, blob>>
client == <<permits, attempt, length, offset, task>>
service == <<entry, size, tail, blob>>

Starts == 0 .. MaxLength
Awaiting == {"reserve", "create", "append", "seal", "finalize", "commit"}
Pcs == Awaiting \cup {"allocate", "start", "reading", "join", "done"}
Errors == {"breaker", "io", "collisions", "throttled", "api", "lost", "dropped"}
TaskStates == {"none", "queued", "sent", "unchecked",
               "ok", "throttled", "api", "lost"}
Failed == {"throttled", "api", "lost"}
Settled == Failed \cup {"ok", "none"}
EntryStates == {"absent", "reserved", "created", "sealed", "ready"}

Init ==
  /\ tripped = FALSE
  /\ permits = MaxConcurrency
  /\ pc = [u \in Uploads |-> "allocate"]
  /\ result = [u \in Uploads |-> "none"]
  /\ attempt = [u \in Uploads |-> 1]
  /\ length \in [Uploads -> 0 .. MaxLength]
  /\ offset = [u \in Uploads |-> 0]
  /\ task = [u \in Uploads |-> [s \in Starts |-> "none"]]
  /\ sent = [u \in Uploads |-> "none"]
  /\ entry = [u \in Uploads |-> "absent"]
  /\ size = [u \in Uploads |-> 0]
  /\ tail = [u \in Uploads |-> 0]
  /\ blob = [u \in Uploads |-> {}]

(***************************************************************************)
(* Helpers.                                                                *)
(***************************************************************************)
\* Faulty variant: the reader returns the capacity, not what it filled.
ReadLenCapacity(u, o) == IF length[u] = o THEN 0 ELSE ChunkSize

\* read_chunk_async fills the buffer or stops at the end of the stream.
ReadLen(u, o) == IF length[u] - o < ChunkSize THEN length[u] - o ELSE ChunkSize

\* n bytes of the stream from byte `from`, written from position `at`.
Bytes(at, from, n) == {<<at + i, from + i>> : i \in 0 .. n - 1}

Whole(n) == Bytes(0, 0, n)

\* Faulty variant: the task reads offset after the loop has advanced it.
ChunkBytesLate(u, s) == Bytes(s + ReadLen(u, s), s, ReadLen(u, s))

\* Content-Range of the PATCH: the chunk lands where it was read.
ChunkBytes(u, s) == Bytes(s, s, ReadLen(u, s))

Finish(u, r) == /\ pc' = [pc EXCEPT ![u] = "done"]
                /\ result' = [result EXCEPT ![u] = r]

Goto(u, p) == /\ pc' = [pc EXCEPT ![u] = p]
              /\ UNCHANGED result

\* Sends a request and awaits its answer.
Request(u, kind) == /\ Goto(u, kind)
                    /\ sent' = [sent EXCEPT ![u] = kind]

\* Faulty variant: the status of the response is not checked.
AnsweredAnyhow(u, kind) == pc[u] = kind

\* The awaited request took effect and the service says so.
AnsweredOk(u, kind) == pc[u] = kind /\ sent[u] = "none"

\* Faulty variant: the chunk tasks forget check_result.
TripsButChunks(kind, answer) ==
  answer = "throttled" /\ kind \notin {"create", "chunk"}

\* check_result and check_err trip on 429, ResourceExhausted and the 502 of
\* the twirp client, never on a transport error.  Only the PUT that creates
\* the V2 blob leaves its answer unchecked.
Trips(kind, answer) == answer = "throttled" /\ kind # "create"

(***************************************************************************)
(* allocate_file_with_random_suffix and the start of upload_file.          *)
(***************************************************************************)
\* Both entry points return CircuitBreakerTripped before any request.
RefuseTripped(u) ==
  /\ pc[u] \in {"allocate", "start"}
  /\ tripped
  /\ Finish(u, "breaker")
  /\ UNCHANGED <<tripped, sent, client, service>>

Reserve(u) ==
  /\ pc[u] = "allocate"
  /\ ~tripped
  /\ Request(u, "reserve")
  /\ UNCHANGED <<tripped, client, service>>

ReserveOk(u) ==
  /\ AnsweredOk(u, "reserve")
  /\ Goto(u, "start")
  /\ UNCHANGED <<tripped, sent, client, service>>

\* V1 says "Cache already exists": another suffix, five times at most.  V2
\* says only `not ok`, which is an error like any other.
ReserveExists(u) ==
  /\ pc[u] = "reserve" /\ sent[u] = "reserve"
  /\ ~ServiceV2
  /\ sent' = [sent EXCEPT ![u] = "none"]
  /\ \/ /\ attempt[u] < MaxAttempts
        /\ attempt' = [attempt EXCEPT ![u] = @ + 1]
        /\ Goto(u, "allocate")
     \/ /\ attempt[u] = MaxAttempts
        /\ UNCHANGED attempt
        /\ Finish(u, "collisions")
  /\ UNCHANGED <<tripped, permits, length, offset, task, service>>

StartUpload(u) ==
  /\ pc[u] = "start"
  /\ ~tripped
  /\ \/ ~ServiceV2 /\ Goto(u, "reading") /\ UNCHANGED sent
     \/ ServiceV2 /\ Request(u, "create")
  /\ UNCHANGED <<tripped, client, service>>

\* Any awaited request fails: `?` returns, and the breaker trips if the
\* answer is checked.  A refused request has no effect afterwards.
RequestFails(u) ==
  \E answer \in Failed :
    /\ pc[u] \in Awaiting
    /\ sent' = [sent EXCEPT ![u] = IF answer = "lost" THEN @ ELSE "none"]
    /\ tripped' = (tripped \/ Trips(pc[u], answer))
    /\ Finish(u, answer)
    /\ UNCHANGED <<client, service>>

(***************************************************************************)
(* upload_file: the read loop.  V1 spawns a task per chunk and reads on;   *)
(* V2 appends one block and awaits the answer.                             *)
(***************************************************************************)
ReadChunk(u) ==
  /\ pc[u] = "reading"
  /\ ReadLen(u, offset[u]) > 0
  /\ \/ /\ ~ServiceV2
        /\ task' = [task EXCEPT ![u][offset[u]] = "queued"]
        /\ offset' = [offset EXCEPT ![u] = @ + ReadLen(u, @)]
        /\ UNCHANGED <<pc, result, sent>>
     \/ /\ ServiceV2
        /\ Request(u, "append")
        /\ UNCHANGED <<task, offset>>
  /\ UNCHANGED <<tripped, permits, attempt, length, service>>

\* Faulty variant: only a short block ends the stream.
ReadEndShort(u) ==
  /\ pc[u] = "reading"
  /\ ReadLen(u, offset[u]) = 0 /\ offset[u] % ChunkSize # 0
  /\ \/ ~ServiceV2 /\ Goto(u, "join") /\ UNCHANGED sent
     \/ ServiceV2 /\ Request(u, "seal")
  /\ UNCHANGED <<tripped, client, service>>

ReadEnd(u) ==
  /\ pc[u] = "reading"
  /\ ReadLen(u, offset[u]) = 0
  /\ \/ ~ServiceV2 /\ Goto(u, "join") /\ UNCHANGED sent
     \/ ServiceV2 /\ Request(u, "seal")
  /\ UNCHANGED <<tripped, client, service>>

\* Faulty variant: a failed read is taken for the end of the stream.
ReadErrorEnds(u) ==
  /\ pc[u] = "reading"
  /\ \/ ~ServiceV2 /\ Goto(u, "join") /\ UNCHANGED sent
     \/ ServiceV2 /\ Request(u, "seal")
  /\ UNCHANGED <<tripped, client, service>>

\* The `?` on the reader leaves the spawned chunk tasks running.
ReadError(u) ==
  /\ pc[u] = "reading"
  /\ Finish(u, "io")
  /\ UNCHANGED <<tripped, sent, client, service>>

\* Faulty variant: an append that is not answered in time is sent again.
AppendRetried(u) ==
  /\ pc[u] = "append"
  /\ sent[u] = "none"
  /\ \/ /\ offset' = [offset EXCEPT ![u] = @ + ReadLen(u, @)]
        /\ Goto(u, "reading") /\ UNCHANGED sent
     \/ tail[u] < MaxLength /\ Request(u, "append") /\ UNCHANGED offset
  /\ UNCHANGED <<tripped, permits, attempt, length, task, service>>

AppendOk(u) ==
  /\ AnsweredOk(u, "append")
  /\ offset' = [offset EXCEPT ![u] = @ + ReadLen(u, @)]
  /\ Goto(u, "reading")
  /\ UNCHANGED <<tripped, permits, attempt, length, task, sent, service>>

\* The requests that follow one another with nothing in between.
CreateOk(u) ==
  /\ AnsweredOk(u, "create")
  /\ Goto(u, "reading")
  /\ UNCHANGED <<tripped, sent, client, service>>

SealOk(u) ==
  /\ AnsweredOk(u, "seal")
  /\ Request(u, "finalize")
  /\ UNCHANGED <<tripped, client, service>>

PublishOk(u) ==
  /\ AnsweredOk(u, "commit") \/ AnsweredOk(u, "finalize")
  /\ Finish(u, "ok")
  /\ UNCHANGED <<tripped, sent, client, service>>

(***************************************************************************)
(* V1: the chunk tasks, one semaphore for all of them, and the join.       *)
(***************************************************************************)
SendChunk(u, s) ==
  /\ task[u][s] = "queued"
  /\ permits > 0
  /\ permits' = permits - 1
  /\ task' = [task EXCEPT ![u][s] = "sent"]
  /\ UNCHANGED <<tripped, pc, result, attempt, length, offset, sent, service>>

\* Faulty variant: the permit is forgotten when the connection breaks.
PermitsLeak(answer) == IF answer = "lost" THEN permits ELSE permits + 1

\* drop(permit), and the drop of the guard when `?` leaves the task.
PermitsAfter(answer) == permits + 1

\* What the task knows when it gives the permit back: a throttling is
\* acted upon only after that, by check_result.
ChunkAnswered(u, s) ==
  \E answer \in {"ok", "unchecked", "api", "lost"} :
    /\ task[u][s] = "sent"
    /\ answer = "ok" => ChunkBytes(u, s) \subseteq blob[u]
    /\ permits' = PermitsAfter(answer)
    /\ task' = [task EXCEPT ![u][s] = answer]
    /\ UNCHANGED <<tripped, pc, result, attempt, length, offset, sent, service>>

CheckChunk(u, s) ==
  /\ task[u][s] = "unchecked"
  /\ tripped' = (tripped \/ Trips("chunk", "throttled"))
  /\ task' = [task EXCEPT ![u][s] = "throttled"]
  /\ UNCHANGED <<permits, pc, result, attempt, length, offset, sent, service>>

\* Faulty variant: waits until every chunk has succeeded.
JoinedOk(u) == pc[u] = "join" /\ \A s \in Starts : task[u][s] \in {"ok", "none"}

\* join_all waits for every task, whatever the others returned.
Joined(u) == pc[u] = "join" /\ \A s \in Starts : task[u][s] \in Settled

FirstFailed(u, s) == /\ task[u][s] \in Failed
                     /\ \A r \in Starts : r < s => task[u][r] \notin Failed

\* Faulty variant: the results of the join are dropped.
AllChunksIgnored(u) == pc[u] = "join"

AllChunksOk(u) == \A s \in Starts : task[u][s] \notin Failed

\* try_for_each stops at the first error in stream order.
JoinFails(u) ==
  /\ Joined(u)
  /\ ~AllChunksOk(u)
  /\ \E s \in Starts : FirstFailed(u, s) /\ Finish(u, task[u][s])
  /\ UNCHANGED <<tripped, sent, client, service>>

JoinOk(u) ==
  /\ Joined(u)
  /\ AllChunksOk(u)
  /\ Request(u, "commit")
  /\ UNCHANGED <<tripped, client, service>>

\* A PUT handler is dropped with its connection while it awaits; its chunk
\* tasks are detached, and a request on the wire may still arrive.
Abandon(u) ==
  /\ pc[u] \in Awaiting \cup {"reading", "join"}
  /\ Finish(u, "dropped")
  /\ UNCHANGED <<tripped, sent, client, service>>

(***************************************************************************)
(* The service: the effect of a request it holds.                          *)
(***************************************************************************)
TakesEffect(u, kind) == /\ sent[u] = kind
                        /\ sent' = [sent EXCEPT ![u] = "none"]

Enter(u, state) == entry' = [entry EXCEPT ![u] = state]

ServeReserve(u) ==
  /\ TakesEffect(u, "reserve")
  /\ Enter(u, "reserved")
  /\ UNCHANGED <<tripped, pc, result, client, size, tail, blob>>

ServeCreate(u) ==
  /\ TakesEffect(u, "create")
  /\ Enter(u, "created")
  /\ UNCHANGED <<tripped, pc, result, client, size, tail, blob>>

ServeAppend(u) ==
  /\ TakesEffect(u, "append")
  /\ blob' = [blob EXCEPT ![u] =
                @ \cup Bytes(tail[u], offset[u], ReadLen(u, offset[u]))]
  /\ tail' = [tail EXCEPT ![u] = @ + ReadLen(u, offset[u])]
  /\ UNCHANGED <<tripped, pc, result, client, entry, size>>

ServeSeal(u) ==
  /\ TakesEffect(u, "seal")
  /\ Enter(u, "sealed")
  /\ UNCHANGED <<tripped, pc, result, client, size, tail, blob>>

\* Commit and finalize carry the offset as the size of the file.
ServePublish(u) ==
  /\ TakesEffect(u, "commit") \/ TakesEffect(u, "finalize")
  /\ Enter(u, "ready")
  /\ size' = [size EXCEPT ![u] = offset[u]]
  /\ UNCHANGED <<tripped, pc, result, client, tail, blob>>

ServeChunk(u, s) ==
  /\ task[u][s] \in {"sent", "lost"}
  /\ blob' = [blob EXCEPT ![u] = @ \cup ChunkBytes(u, s)]
  /\ UNCHANGED <<tripped, pc, result, client, sent, entry, size, tail>>

Serve(u) == \/ ServeReserve(u) \/ ServeCreate(u) \/ ServeAppend(u)
            \/ ServeSeal(u) \/ ServePublish(u)

(***************************************************************************)
(* Specification.                                                          *)
(***************************************************************************)
ChunkStep(u, s) == SendChunk(u, s) \/ ChunkAnswered(u, s) \/ CheckChunk(u, s)

\* The steps of a call that need no answer.
LocalStep(u) ==
  \/ RefuseTripped(u) \/ Reserve(u) \/ StartUpload(u) \/ ReadChunk(u)
  \/ ReadEnd(u) \/ JoinFails(u) \/ JoinOk(u)

\* The answers a call awaits.
AnswerStep(u) ==
  \/ ReserveOk(u) \/ ReserveExists(u) \/ CreateOk(u) \/ AppendOk(u)
  \/ SealOk(u) \/ PublishOk(u) \/ RequestFails(u)

CallStep(u) == LocalStep(u) \/ AnswerStep(u) \/ ReadError(u) \/ Abandon(u)

Step(u) == \/ CallStep(u)
           \/ Serve(u)
           \/ \E s \in Starts : ChunkStep(u, s) \/ ServeChunk(u, s)

Next == \E u \in Uploads : Step(u)

Spec == Init /\ [][Next]_vars

\* The runtime runs every call and task that can go on; every request is
\* answered or its connection breaks.
Fairness ==
  \A u \in Uploads :
    /\ WF_vars(LocalStep(u))
    /\ WF_vars(AnswerStep(u))
    /\ \A s \in Starts : WF_vars(ChunkStep(u, s))

FairSpec == Spec /\ Fairness

(***************************************************************************)
(* Properties.                                                             *)
(***************************************************************************)
\* Every variable stays in its range; in particular no permit is invented
\* and no upload reads past its stream.
TypeOK ==
  /\ tripped \in BOOLEAN
  /\ permits \in 0 .. MaxConcurrency
  /\ pc \in [Uploads -> Pcs]
  /\ result \in [Uploads -> Errors \cup {"none", "ok"}]
  /\ attempt \in [Uploads -> 1 .. MaxAttempts]
  /\ length \in [Uploads -> 0 .. MaxLength]
  /\ offset \in [Uploads -> 0 .. MaxLength]
  /\ task \in [Uploads -> [Starts -> TaskStates]]
  /\ sent \in [Uploads -> Awaiting \cup {"none"}]
  /\ entry \in [Uploads -> EntryStates]
  /\ size \in [Uploads -> Nat]
  /\ tail \in [Uploads -> Nat]
  /\ blob \in [Uploads -> SUBSET (Nat \X Nat)]

\* An entry that clients can read holds exactly the bytes of the stream and
\* was committed with their number, however its chunks were ordered, lost
\* or failed and whatever became of the call.
PublishedWhole ==
  \A u \in Uploads :
    entry[u] = "ready" => size[u] = length[u] /\ blob[u] = Whole(length[u])

\* upload_file returns Ok only for an entry that is published.
OkIsPublished == \A u \in Uploads : result[u] = "ok" => entry[u] = "ready"

\* Chunks of all uploads together hold MAX_CONCURRENCY permits at most, and
\* every permit comes back, on every path out of a chunk task, also out of
\* one whose upload is gone.
Sending == {c \in Uploads \X Starts : task[c[1]][c[2]] = "sent"}
PermitsConserved == permits + Cardinality(Sending) = MaxConcurrency

\* A caller that is told of a throttling finds the breaker tripped: no
\* later allocation will reach the service.
ThrottledMeansTripped ==
  \A u \in Uploads : result[u] = "throttled" => tripped

\* The upload protocol implements AtomicPublish: an entry shows the whole
\* stream or nothing, at one instant, and no chunk that arrives late, from a
\* detached task or a broken connection, changes it afterwards.
Outcome(u) == CASE result[u] = "none" -> "running"
                [] result[u] = "ok" -> "ok"
                [] OTHER -> "failed"
Shown(u) == IF entry[u] = "ready" THEN <<size[u], blob[u]>> ELSE <<>>
Abstract == INSTANCE AtomicPublish WITH
  Calls <- Uploads,
  Nothing <- <<>>,
  stream <- [u \in Uploads |-> <<length[u], Whole(length[u])>>],
  stored <- [u \in Uploads |-> Shown(u)],
  outcome <- [u \in Uploads |-> Outcome(u)]
PublishesAtomically == Abstract!Spec

\* Every call returns: no upload is left waiting for a permit or for a task
\* of its own.
EveryCallReturns == \A u \in Uploads : <>(pc[u] = "done")

\* Every chunk task ends, also those whose upload gave up on them, and all
\* the permits are back for good.
PermitsReturn == <>[](permits = MaxConcurrency)
==============================================================================
