----------------------------- MODULE UploadQueue -----------------------------
(***************************************************************************)
(* From a built path to the end of the process: the enqueue-paths and      *)
(* workflow-finish handlers of magic-nix-cache/src/api.rs, the channel and *)
(* the upload worker of gha.rs, the FlakeHub push session, and the         *)
(* graceful shutdown of main.rs.                                           *)
(*                                                                         *)
(* A caller is one call of the HTTP API.  Several are in flight at once on *)
(* the multi-threaded runtime and share the channel, the RwLock around the *)
(* worker's handle, the RwLock around the FlakeHub state and, when the     *)
(* store is diffed, the Mutex around original_paths.  What one upload does *)
(* is in GhaUpload; here it ends well, badly, or with the breaker tripped. *)
(***************************************************************************)
EXTENDS Integers, Sequences, FiniteSets

CONSTANTS Paths,          \* store paths
          Hooks,          \* calls of enqueue-paths, by the post-build hook
          Finishers,      \* calls of workflow-finish
          DiffStore,      \* original_paths is Some
          Nobody          \* no caller holds the lock

Callers == Hooks \cup Finishers

ASSUME SwitchAssumption == DiffStore \in BOOLEAN
ASSUME CallersAssumption == /\ Hooks \cap Finishers = {}
                            /\ Nobody \notin Callers
ASSUME PathsAssumption == Paths \cap {"shutdown", "recv", "exited"} = {}

VARIABLES
  gha,        \* the GitHub Actions Cache is in use
  pc,         \* where each caller is
  closure,    \* the paths a caller is enqueueing
  pending,    \* those of them it has not sent yet
  channel,    \* channel_tx to channel_rx, unbounded
  worker,     \* "recv", "exited", or the path it is uploading
  done,       \* the worker's set of paths it has started on
  skipped,    \* paths it passed over because the breaker had tripped
  tripped,    \* api.circuit_breaker_tripped()
  handle,     \* worker_result still holds the JoinHandle
  handleLock, \* who holds worker_result.write()
  session,    \* flakehub_state still holds the push session
  stateLock,  \* who holds flakehub_state.write()
  queued,     \* batches (callers) given to the push session
  settled,    \* batches the session has been waited for
  diffLock,   \* who holds original_paths
  cancelled,  \* shutdown_token
  listening,  \* the server has not noticed that
  exited,     \* the process is gone
  owed        \* history: paths sent before the shutdown message

workerVars == <<worker, done, skipped, tripped>>
lockVars == <<handle, handleLock, session, stateLock, diffLock>>
pushVars == <<queued, settled>>
endVars == <<cancelled, listening, exited>>
vars == <<gha, pc, closure, pending, channel, workerVars, lockVars, pushVars,
          endVars, owed>>

Init ==
  /\ pc = [c \in Callers |-> "idle"]
  /\ closure = [c \in Callers |-> {}]
  /\ pending = [c \in Callers |-> {}]
  /\ channel = <<>>
  /\ worker = "recv" /\ done = {} /\ skipped = {} /\ tripped = FALSE
  /\ gha \in BOOLEAN
  /\ handle = gha /\ handleLock = Nobody
  /\ session \in BOOLEAN /\ stateLock = Nobody
  /\ queued = {} /\ settled = {}
  /\ diffLock = Nobody
  /\ cancelled = FALSE /\ listening = TRUE /\ exited = FALSE
  /\ owed = {}

(***************************************************************************)
(* Helpers.                                                                *)
(***************************************************************************)
Ended == {"ok", "failed", "dropped"}

Goto(c, from, to) == /\ pc[c] = from
                     /\ pc' = [pc EXCEPT ![c] = to]

\* A request is accepted until the server notices the token.
Arrive(c, to) == listening /\ Goto(c, "idle", to)

\* Faulty: the guard outlives its handler.
Leaked(lock, c) == lock

\* Handlers that return drop their guards.
Without(lock, c) == IF lock = c THEN Nobody ELSE lock

\* `?` in the enqueueing part of a handler: the Mutex guard goes with it.
FailEnqueue(c, from) == /\ Goto(c, from, "failed")
                        /\ diffLock' = Without(diffLock, c)

\* After enqueue_paths a hook answers and a finisher goes on.
AfterEnqueue(c) == IF c \in Hooks THEN "ok" ELSE "shutdown"

(***************************************************************************)
(* enqueue_paths of api.rs: the closure into the channel, then the batch   *)
(* to FlakeHub.                                                            *)
(***************************************************************************)
HookArrives(h) ==
  /\ Arrive(h, "closure")
  /\ UNCHANGED <<gha, closure, pending, channel, workerVars, lockVars, pushVars,
                 endVars, owed>>

\* follow_store_path, then compute_fs_closure_multi.
ComputeClosure(c) ==
  /\ \/ /\ gha
        /\ Goto(c, "closure", "sending")
        /\ \E ps \in SUBSET Paths :
             closure' = [closure EXCEPT ![c] = ps] /\ pending' = [pending EXCEPT ![c] = ps]
        /\ UNCHANGED diffLock
     \/ ~gha /\ Goto(c, "closure", "flakehub") /\ UNCHANGED <<closure, pending, diffLock>>
     \/ FailEnqueue(c, "closure") /\ UNCHANGED <<closure, pending>>
  /\ UNCHANGED <<gha, channel, workerVars, handle, handleLock, session, stateLock,
                 pushVars, endVars, owed>>

\* channel_tx.send(Upload(p)).  Nothing tells the sender that a shutdown
\* message is already in the channel.
SendPath(c, p) ==
  /\ pc[c] = "sending" /\ p \in pending[c]
  /\ worker # "exited"
  /\ channel' = Append(channel, p)
  /\ pending' = [pending EXCEPT ![c] = @ \ {p}]
  /\ owed' = IF handle THEN owed \cup {p} ELSE owed
  /\ UNCHANGED <<gha, pc, closure, workerVars, lockVars, pushVars, endVars>>

\* Faulty: a send error is ignored.
SendUnchecked(c) == /\ pending[c] # {}
                    /\ worker = "exited"
                    /\ Goto(c, "sending", "flakehub")
                    /\ UNCHANGED <<gha, closure, pending, channel, workerVars,
                                   lockVars, pushVars, endVars, owed>>

\* The receiver is gone: "Cannot send upload message", and FlakeHub is not
\* told of the batch at all.
SendFails(c) ==
  /\ pending[c] # {}
  /\ worker = "exited"
  /\ FailEnqueue(c, "sending")
  /\ UNCHANGED <<gha, closure, pending, channel, workerVars, handle, handleLock,
                 session, stateLock, pushVars, endVars, owed>>

AllSent(c) ==
  /\ pending[c] = {}
  /\ Goto(c, "sending", "flakehub")
  /\ UNCHANGED <<gha, closure, pending, channel, workerVars, lockVars, pushVars,
                 endVars, owed>>

\* queue_many under flakehub_state.read(), without an await in between; a
\* session that has stopped refuses the batch.
QueueBatch(c) ==
  /\ stateLock = Nobody
  /\ \/ /\ Goto(c, "flakehub", AfterEnqueue(c))
        /\ queued' = IF session THEN queued \cup {c} ELSE queued
        /\ diffLock' = Without(diffLock, c)
     \/ session /\ FailEnqueue(c, "flakehub") /\ UNCHANGED queued
  /\ UNCHANGED <<gha, closure, pending, channel, workerVars, handle, handleLock,
                 session, stateLock, settled, endVars, owed>>

Enqueue(c) == \/ ComputeClosure(c) \/ SendFails(c) \/ AllSent(c)
              \/ QueueBatch(c) \/ \E p \in Paths : SendPath(c, p)

(***************************************************************************)
(* The worker of gha.rs.                                                   *)
(***************************************************************************)
\* The paths that worker has dealt with.
Handled == done \cup skipped

\* Faulty: the worker returns as soon as the breaker has tripped.
ReceiveStops ==
  /\ worker = "recv" /\ channel # <<>>
  /\ LET req == Head(channel) IN
       IF req = "shutdown" \/ tripped
         THEN worker' = "exited" /\ UNCHANGED done
         ELSE /\ done' = done \cup {req}
              /\ worker' = IF req \in done THEN "recv" ELSE req
  /\ channel' = Tail(channel)
  /\ UNCHANGED <<gha, pc, closure, pending, skipped, tripped, lockVars, pushVars,
                 endVars, owed>>

\* Faulty: a shutdown message received after the breaker tripped is passed
\* over like any other request.
ReceiveTripped ==
  /\ worker = "recv" /\ channel # <<>>
  /\ LET req == Head(channel) IN
       \/ tripped /\ UNCHANGED <<worker, done>> /\ skipped' = skipped \cup ({req} \ {"shutdown"})
       \/ ~tripped /\ worker' = (IF req = "shutdown" THEN "exited"
                                ELSE IF req \in done THEN "recv" ELSE req)
          /\ done' = done \cup ({req} \ {"shutdown"}) /\ UNCHANGED skipped
  /\ channel' = Tail(channel)
  /\ UNCHANGED <<gha, pc, closure, pending, tripped, lockVars, pushVars, endVars, owed>>

Receive ==
  /\ worker = "recv" /\ channel # <<>>
  /\ LET req == Head(channel) IN
       \/ /\ req = "shutdown"
          /\ worker' = "exited"
          /\ UNCHANGED <<done, skipped>>
       \/ /\ req # "shutdown" /\ tripped
          /\ skipped' = skipped \cup {req}
          /\ UNCHANGED <<worker, done>>
       \/ /\ req # "shutdown" /\ ~tripped /\ req \in done
          /\ UNCHANGED <<worker, done, skipped>>
       \/ /\ req # "shutdown" /\ ~tripped /\ req \notin done
          /\ done' = done \cup {req}
          /\ worker' = req
          /\ UNCHANGED skipped
  /\ channel' = Tail(channel)
  /\ UNCHANGED <<gha, pc, closure, pending, tripped, lockVars, pushVars, endVars, owed>>

\* upload_path returns; an error is logged and the path never tried again.
UploadEnds ==
  /\ worker \in Paths
  /\ worker' = "recv"
  /\ tripped' \in {tripped, TRUE}
  /\ UNCHANGED <<gha, pc, closure, pending, channel, done, skipped, lockVars,
                 pushVars, endVars, owed>>

\* A handler of the binary cache API is throttled meanwhile.
TrippedElsewhere ==
  /\ gha /\ ~tripped
  /\ tripped' = TRUE
  /\ UNCHANGED <<gha, pc, closure, pending, channel, worker, done, skipped,
                 lockVars, pushVars, endVars, owed>>

(***************************************************************************)
(* workflow_finish.                                                        *)
(***************************************************************************)
FinishArrives(f) ==
  /\ Arrive(f, IF DiffStore THEN "lock" ELSE "shutdown")
  /\ UNCHANGED <<gha, closure, pending, channel, workerVars, lockVars, pushVars,
                 endVars, owed>>

\* original_paths.lock(), held until the new paths are enqueued.
LockOriginal(f) ==
  /\ diffLock = Nobody
  /\ Goto(f, "lock", "scan")
  /\ diffLock' = f
  /\ UNCHANGED <<gha, closure, pending, channel, workerVars, handle, handleLock,
                 session, stateLock, pushVars, endVars, owed>>

\* get_store_paths and follow_store_path on what is new.
ScanStore(f) ==
  /\ \/ Goto(f, "scan", "closure") /\ UNCHANGED diffLock
     \/ FailEnqueue(f, "scan")
  /\ UNCHANGED <<gha, closure, pending, channel, workerVars, handle, handleLock,
                 session, stateLock, pushVars, endVars, owed>>

\* Faulty: the handle is only borrowed.
TakeHandleBorrowed(f) ==
  /\ gha /\ handle /\ handleLock = Nobody
  /\ Goto(f, "shutdown", "join")
  /\ handleLock' = f
  /\ channel' = Append(channel, "shutdown")
  /\ UNCHANGED <<gha, closure, pending, workerVars, handle, session, stateLock,
                 diffLock, pushVars, endVars, owed>>

\* Faulty: the write guard is dropped before the worker is awaited.
TakeHandleUnlocked(f) ==
  /\ gha /\ handle /\ handleLock = Nobody
  /\ Goto(f, "shutdown", "join")
  /\ handle' = FALSE
  /\ channel' = Append(channel, "shutdown")
  /\ UNCHANGED <<gha, closure, pending, workerVars, handleLock, session, stateLock,
                 diffLock, pushVars, endVars, owed>>

\* GhaCache::shutdown takes the handle and sends the message under the write
\* guard, which it keeps until the worker has returned.
TakeHandle(f) ==
  /\ gha /\ handle
  /\ handleLock = Nobody
  /\ Goto(f, "shutdown", "join")
  /\ handle' = FALSE
  /\ handleLock' = f
  /\ channel' = Append(channel, "shutdown")
  /\ UNCHANGED <<gha, closure, pending, workerVars, session, stateLock, diffLock,
                 pushVars, endVars, owed>>

HandleGone(f) ==
  /\ ~gha \/ (~handle /\ handleLock = Nobody)
  /\ Goto(f, "shutdown", "take")
  /\ UNCHANGED <<gha, closure, pending, channel, workerVars, lockVars, pushVars,
                 endVars, owed>>

JoinWorker(f) ==
  /\ worker = "exited"
  /\ Goto(f, "join", "take")
  /\ handleLock' = Nobody
  /\ UNCHANGED <<gha, closure, pending, channel, workerVars, handle, session,
                 stateLock, diffLock, pushVars, endVars, owed>>

\* flakehub_state.write().take(), the guard kept over push_session.wait().
TakeSession(f) ==
  /\ stateLock = Nobody
  /\ \/ session /\ Goto(f, "take", "wait") /\ stateLock' = f
     \/ ~session /\ Goto(f, "take", "cancel") /\ UNCHANGED stateLock
  /\ session' = FALSE
  /\ UNCHANGED <<gha, closure, pending, channel, workerVars, handle, handleLock,
                 diffLock, pushVars, endVars, owed>>

\* The session's result, for all it was given; an error ends the call with
\* the session gone and the token not cancelled.
WaitSession(f) ==
  /\ \E next \in {"cancel", "failed"} : Goto(f, "wait", next)
  /\ settled' = queued
  /\ stateLock' = Nobody
  /\ UNCHANGED <<gha, closure, pending, channel, workerVars, handle, handleLock,
                 session, diffLock, queued, endVars, owed>>

\* shutdown_token.cancel(); reading the log file back may still fail.
Cancel(f) ==
  /\ \E r \in {"ok", "failed"} : Goto(f, "cancel", r)
  /\ cancelled' = TRUE
  /\ UNCHANGED <<gha, closure, pending, channel, workerVars, lockVars, pushVars,
                 listening, exited, owed>>

Finish(f) ==
  \/ LockOriginal(f) \/ ScanStore(f) \/ TakeHandle(f) \/ HandleGone(f)
  \/ JoinWorker(f) \/ TakeSession(f) \/ WaitSession(f) \/ Cancel(f)

(***************************************************************************)
(* The server.                                                             *)
(***************************************************************************)
Awaiting == {"closure", "flakehub", "lock", "scan", "shutdown", "join", "take", "wait"}

\* A connection closed by its client: the handler is dropped where it
\* awaits, with its guards and, in shutdown, the worker's handle.
Disconnect(c) ==
  /\ pc[c] \in Awaiting
  /\ pc' = [pc EXCEPT ![c] = "dropped"]
  /\ handleLock' = Without(handleLock, c)
  /\ stateLock' = Without(stateLock, c)
  /\ diffLock' = Without(diffLock, c)
  /\ UNCHANGED <<gha, closure, pending, channel, workerVars, handle, session,
                 pushVars, endVars, owed>>

\* with_graceful_shutdown wakes up and closes the listener.
StopListening ==
  /\ cancelled /\ listening
  /\ listening' = FALSE
  /\ UNCHANGED <<gha, pc, closure, pending, channel, workerVars, lockVars,
                 pushVars, cancelled, exited, owed>>

\* It lets the requests in flight end; then main returns and the runtime is
\* dropped with every task still running.
Exit ==
  /\ ~listening /\ ~exited
  /\ \A c \in Callers : pc[c] \in Ended \cup {"idle"}
  /\ exited' = TRUE
  /\ UNCHANGED <<gha, pc, closure, pending, channel, workerVars, lockVars,
                 pushVars, cancelled, listening, owed>>

CallerStep(c) ==
  \/ c \in Hooks /\ HookArrives(c)
  \/ c \in Finishers /\ FinishArrives(c)
  \/ Enqueue(c)
  \/ c \in Finishers /\ Finish(c)
  \/ Disconnect(c)

Next == \/ ~exited /\ \E c \in Callers : CallerStep(c)
        \/ ~exited /\ (Receive \/ UploadEnds \/ TrippedElsewhere)
        \/ StopListening \/ Exit

Spec == Init /\ [][Next]_vars

\* Tasks that can run do run, uploads end and push sessions are answered;
\* nobody is obliged to call.
Fairness ==
  /\ WF_vars(~exited /\ (Receive \/ UploadEnds))
  /\ \A c \in Callers : WF_vars(~exited /\ Enqueue(c))
  /\ \A f \in Finishers : WF_vars(~exited /\ Finish(f))
  /\ WF_vars(StopListening) /\ WF_vars(Exit)

FairSpec == Spec /\ Fairness

(***************************************************************************)
(* Properties.                                                             *)
(***************************************************************************)
\* Every variable stays in its range; each lock has one holder, which is
\* where it holds the lock.
TypeOK ==
  /\ pc \in [Callers -> Ended \cup Awaiting \cup {"idle", "sending", "cancel"}]
  /\ closure \in [Callers -> SUBSET Paths]
  /\ pending \in [Callers -> SUBSET Paths]
  /\ channel \in Seq(Paths \cup {"shutdown"})
  /\ worker \in Paths \cup {"recv", "exited"}
  /\ done \subseteq Paths /\ skipped \subseteq Paths
  /\ gha \in BOOLEAN
  /\ {tripped, handle, session, cancelled, listening, exited} \subseteq BOOLEAN
  /\ \A f \in Callers : /\ pc[f] = "join" => handleLock = f
                        /\ pc[f] = "wait" => stateLock = f
                        /\ pc[f] = "scan" => diffLock = f
  /\ {handleLock, stateLock, diffLock} \subseteq Callers \cup {Nobody}
  /\ queued \subseteq Callers /\ settled \subseteq Callers
  /\ owed \subseteq Paths

\* The `expect` in GhaCache::shutdown never panics: whoever finds the handle
\* finds the receiver open.
NoShutdownPanic == handle => worker # "exited"

\* The worker does not return before it has dealt with every path that was
\* sent ahead of the shutdown message.
OwedHandled == worker = "exited" => owed \subseteq Handled

\* "Push new paths and shut down": the token is cancelled only when no upload
\* runs, no path that was sent in time waits, and FlakeHub has what it was
\* given.
CancelMeansDrained ==
  cancelled => /\ gha => worker = "exited" /\ owed \subseteq Handled
               /\ queued \subseteq settled

\* Several finish calls at once wait for one another: the token is cancelled
\* after the drain unless a finish call was dropped with what it had taken.
NoneDropped == \A f \in Finishers : pc[f] # "dropped"
CancelAfterDrain == NoneDropped => CancelMeansDrained

\* A call that was answered Ok has every path of its closure dealt with, or
\* still in the channel: a path refused by the channel is an error.
AcceptedQueued ==
  gha => \A c \in Callers : pc[c] = "ok" =>
           closure[c] \subseteq Handled \cup {channel[i] : i \in DOMAIN channel}

\* "Schedule paths in the local Nix store for uploading": a hook that was
\* answered Ok had its paths dealt with when the worker is gone.
AcceptedHandled ==
  worker = "exited" =>
    \A h \in Hooks : pc[h] = "ok" => closure[h] \subseteq Handled

\* Nobody waits for a call that is gone or waits for him: a lock is held by a
\* call that is on its way to giving it back, waits on locks go from
\* original_paths to the FlakeHub state and end there, and whoever waits for
\* the worker has its shutdown message in the channel or finds it gone.
WaitsEnd ==
  /\ diffLock # Nobody => pc[diffLock] \in {"scan", "closure", "sending", "flakehub"}
  /\ stateLock # Nobody => pc[stateLock] = "wait"
  /\ handleLock # Nobody => pc[handleLock] = "join"
  /\ \A f \in Callers : pc[f] = "join" =>
       worker = "exited" \/ \E i \in DOMAIN channel : channel[i] = "shutdown"

\* The queue implements GracefulDrain: with every interleaving of hooks and
\* finish calls the worker tries a path once, no path that no call has sent,
\* and returns only when all that was sent before the handle was taken is
\* dealt with.
Offered == {p \in Paths : \E c \in Callers : p \in closure[c] \ pending[c]}
Drain == INSTANCE GracefulDrain WITH
  Items <- Paths,
  accepting <- handle,
  offered <- Offered,
  tried <- done,
  passed <- skipped,
  current <- {worker} \cap Paths,
  gone <- worker = "exited"
DrainsGracefully == Drain!Spec

\* Every call is answered: no lock, no full channel and no missing message
\* leaves it waiting.
CallsReturn == \A c \in Callers : pc[c] # "idle" ~> pc[c] \in Ended \/ exited

\* Once the token is cancelled the process ends.
ExitFollows == cancelled ~> exited
==============================================================================
