# Magic Nix Cache in TLA+

Magic Nix Cache is a daemon for CI jobs. Nix uses it as a binary cache; it keeps
what it is given in the GitHub Actions Cache (GHAC) and pushes to FlakeHub Cache,
and at the end of the job it is asked to finish: push what is new and exit. This
directory holds TLA+ models of its code, the TLC runs that check them, and the
theorems about them that TLAPS checks.

Contents: [inventory](#inventory) · [modules](#modules) · [runs](#runs) ·
[fairness](#fairness) · [proofs](#proofs) · [disagreements](#disagreements-with-the-documentation) ·
[not modelled](#not-modelled) · [what is left](#what-is-left)

Paths below are relative to `src/`; `api.rs` alone is that of `gha-cache/src/`, all
other Rust files are those of `magic-nix-cache/src/` (with `magic-nix-cache/src/api.rs`
written `mnc/api.rs`).

## Inventory

| Component | State | Operations | Talks to |
|---|---|---|---|
| **GHAC client** `api.rs`, `util.rs` | circuit breaker, semaphore of `MAX_CONCURRENCY` permits, detached chunk tasks | `allocate_file_with_random_suffix`, `upload_file` (V1: tasks per chunk, then commit; V2: signed URL, append blob, seal, finalize), `get_file_url` | the service; called by the worker and by PUT handlers |
| **Upload queue and worker** `gha.rs` | channel, `done` set, join handle behind a lock | `enqueue_paths`, `shutdown`, `worker`, `upload_path` | client, negative cache |
| **Binary cache API** `binary_cache.rs`, `error.rs` | negative cache (shared) | `get_narinfo`, `put_narinfo`, `get_nar`, `put_nar`, `pull_through` | client, Nix |
| **Action API** `mnc/api.rs` | `original_paths` behind a mutex, FlakeHub state behind a lock, shutdown token | `workflow_start`, `workflow_finish`, `post_enqueue_paths` | queue, FlakeHub, server |
| **FlakeHub client** `flakehub.rs` | push session | `init_cache`, `enqueue_paths` | Attic pusher |
| **Token refresh** `flakehub.rs` | inode or token last seen, token of the API client | `refresh_determinate_token_worker`, `refresh_github_actions_jwt_worker` | netrc file, GitHub |
| **Build events** `pbh.rs` | a subscription | `subscribe_uds_post_build_hook`, `handle_events`, `setup_legacy_post_build_hook` | determinate-nixd, `enqueue_paths` |
| **Startup and server** `main.rs` | the shared state | choice of caches, `nix.conf`, HTTP server with graceful shutdown | all |
| **Telemetry** `telemetry.rs` | counters | increments, `send` | handlers |
| **Narinfo and manifest** `narinfo/` | none | formatting | |

What is hard, and what makes each part correct:

* *GHAC client.* Chunks of one stream are in flight at once and may fail or be
  answered in any order; a handler dropped with its connection leaves its tasks and
  requests behind. An entry clients can read must be the whole stream; `Ok` must mean
  published; permits must come back; throttling must disable the cache.
* *Queue and action API.* Hooks, several finish calls, the worker and the FlakeHub
  session share a channel and three locks on a multi-threaded runtime. Paths that were
  accepted must not be lost, the `expect` in `shutdown` must not fail, the token must
  not be cancelled before the caches have drained, and every call must be answered.
* *Binary cache API.* The negative cache is filled and cleaned by different tasks
  around awaited requests. A narinfo must not name a NAR that is not there; an error
  must not be remembered as a miss; a stale entry must have a known cause.
* *Token refresh.* A file replaced by another process is watched by its inode only. In
  GitHub Actions a token has to be replaced in two places, and in the file found by the
  old one, before it expires and through failures of any step.
* *Store diff.* The store is listed entry by entry, twice, while builds and collections
  change it; calls fail and are repeated; a path may be a symbolic link. What is new
  must be pushed, and a finish must fail only for a reason.
* *Startup.* Two files of the user are edited step by step; Nix reads one of them at any
  time, and both outlive a process that may stop between any two steps.
* *Build events.* A stream of frames is taken for a stream of events, over a socket
  that comes and goes, in a task that is dropped at any await.

`PROJECT.json` lists every such place as a hazard with its line and the properties
that cover it.

## Modules

| Module | Models | Checked by | Proved in |
|---|---|---|---|
| `GhaUpload` | `upload_file` and its allocation, chunk tasks, breaker, the service's entries | `MCGhaUpload` | `GhaUploadProofs` |
| `AtomicPublish` | the promise: a stream shows whole and at once, or never | through `GhaUpload` | `GhaUploadProofs` |
| `UploadQueue` | enqueue, worker, `workflow_finish`, shutdown, exit | `MCUploadQueue` | `UploadQueueProofs` |
| `GracefulDrain` | the promise: each item is tried at most once, and the end comes after all that was offered in time | through `UploadQueue` | `UploadQueueProofs` |
| `NarinfoCache` | the binary cache handlers, `upload_path`, negative cache, reply codes | `MCNarinfoCache` | `NarinfoCacheProofs` |
| `Substituter` | the promise to Nix: whole paths, honest misses, failures told as failures | through `NarinfoCache` | `NarinfoCacheProofs` |
| `NetrcRefresh` | `init_cache`'s reads and the determinate-nixd refresh worker | `MCNetrcRefresh` | `NetrcRefreshProofs` |
| `BuildEvents` | `handle_events` and its cancellation | `MCBuildEvents` | `BuildEventsProofs` |
| `OrderedFeed` | the promise: items in order, none twice, an end only when asked | through `BuildEvents` | `BuildEventsProofs` |
| `GithubJwt` | `init_cache` with a user's netrc, `refresh_github_actions_jwt_worker`, time | `MCGithubJwt` | `GithubJwtProofs` |
| `StoreDiff` | `get_store_paths`, `workflow_start`, the diff of `workflow_finish`, a changing store | `MCStoreDiff` | `StoreDiffProofs` |
| `Startup` | `main_cli` up to the server, `init_cache`'s outcomes, `setup_legacy_post_build_hook` | `MCStartup` | `StartupProofs` |

An action stands for the code between two awaits: everything a handler does without
giving way is one step, and where it awaits another task can run. Definitions marked
`Faulty` are variants of the definition after them, as a plausible bug would have it;
nothing uses them but the mutants of `PROJECT.json`, which show that each property can fail.

**GhaUpload.** `pc[u]` is the await an upload is at. An awaited request is in `sent`
until the service acts on it (`Serve...`), and the call ends with any of the failures
at any time, so an answer can be lost before or after the effect. `task[u][s]` is the
spawned task of the chunk that starts at `s`; it runs on when its upload returns
(`ReadError`, `Abandon`). `permits` is the semaphore, given back on every way out of
a task, and `tripped` is set only where the code calls `check_result` or `check_err`
(`Trips`). Bytes are pairs of where they stand and where they were read, so that a
chunk in the wrong place can be told from one in the right place.

**UploadQueue.** `channel` is the unbounded channel and `worker` its reader;
`handleLock`, `stateLock` and `diffLock` are the `RwLock` of the join handle, the
write side of the one of the FlakeHub state, and the `Mutex` of `original_paths`.
They are held from where the code takes the guard to where the guard is dropped, which
for the `if let` of `shutdown` and of the session is the end of the block, awaits
included. A disconnect drops a handler and its guards at whichever await it is. Uploads
are one step that ends somehow, and only the fact that they end matters here. The server
accepts requests until it notices the cancelled token (`StopListening`).
`owed` and `settled` are history: what was sent ahead of the shutdown message, and
which batches the FlakeHub session has drained. To the outside all this is
`GracefulDrain`: it accepts while the join handle is there, what was offered is the part
of each call's closure that has been sent, and it is gone when the worker has returned.

**NarinfoCache.** A reader asks for a narinfo and, when it is served one, for the NAR.
A writer is the upload worker or a client that PUTs; both allocate and upload the NAR
first and the narinfo second, which for the PUT client is Nix's order and an assumption
about Nix. An upload is one atomic appearance of a file (what `AtomicPublish` promises
of `GhaUpload`), or an error with or without that effect (`unsure`); an answer that
is lost may take effect later. After its narinfo is uploaded a writer waits for the lock
of the negative cache, where the client of a PUT may go away (`RemovalDropped`).
`missed`, `raced` and `dropped` are history variables; the last two say why an entry is
stale, and forget a path when some writer removes its entry.
To its clients this is a `Substituter`, which has neither files nor a negative cache: a
path is there when both its files are, and a reader's path is shown once it was answered.

**NetrcRefresh.** The file is a token and an inode; `Rewrite` is determinate-nixd's
rename. `env`, one of `Environments`, says by four switches what determinate-nixd and the
file system may do: rewrite before the first stat (`early`), rewrite twice between two
polls (`often`), reuse inodes (`reuse`), make reads fail (`fails`). `SameMeansCurrent` is
checked with fresh inodes and failing reads, and with reused inodes and good reads, and
proved for every combination in which it holds.

**BuildEvents.** A frame is the sequence of whole events it carries: one, none (a piece
or a comment) or several. The loop decodes only the frames with one. `Stop` is
the other branch of the `select!` and may happen at any await. Sockets, frames and batches
are hidden in `OrderedFeed`, of which `Emit`, `TakeEvent`, `Cancel` and `Stop` are the steps.

**GithubJwt.** There is no clock: `Tick` makes every token a tick older and lets
`timer`, what is left of the current sleep or attempt, run down. An age is capped at
`Life`, where the token has expired. The netrc is what it has for the two hosts: a token,
nothing, or a password of its own. Each step of `rewrite_github_actions_token` is an
action, and `Fail` may take the place of any while the outage lasts. The tick
cannot pass while the worker has something to do at once, so that a sleep lasts what the
code says and an attempt at most `Latency`. `owned` is the set of hosts whose entry
was the token when the worker started.

**StoreDiff.** `Begin`, `Register` and `Remove` are Nix, between any two entries that a
listing reads. `lock` is `original_paths`, held from before the listing to after
`enqueue_paths`, and `todo`, `found` and `roots` are the locals of the call that holds it.
A path may be a symbolic link: `Way[p]` is what `canonicalize` passes and `Target[p]` where
it ends, another path or outside of the store. `Follow` takes the target in place of
the path, and fails the call if something on the way is not there. `Enqueue` fails if the
GitHub queue wants a path that is not valid or is `closed` (by `CloseQueue`, the
shutdown of an earlier finish), or if the `session` of FlakeHub is dead; such a call
ends without a shutdown and leaves record and mutex as they were.
`seen` and `kept` are history: what was there at some time, and at all times, of the
listing. The properties relate those of a finish to those of the last start that
succeeded. The sending of the single paths and all that follows are `UploadQueue`,
where the diff may be any set of paths.

**Startup.** `pc` is the place in `main_cli`; `Stop` is an error of any step, a kill or the
shutdown, and leaves `conf`, `cacheEntry` and the scripts behind, and `Launch` starts the
program again. Errors of `init_cache` are the only ones that are caught (`InitCacheFails`).
Each line of `nix.conf` has the number of the run that wrote it, which TLC and the
properties see and Nix does not.

## Runs

| Run | Instance | Shows |
|---|---|---|
| `UploadV1` | 2 uploads, chunks of 2, streams of 0–3 bytes, 2 permits | whole entries, `Ok` means published, permits conserved, throttling trips, refinement of `AtomicPublish` |
| `UploadV2` | the same, V2 | refinement of `AtomicPublish` by the append-blob protocol; calls return |
| `UploadV1Live` | 1 permit, 1-byte stream, 2 attempts | calls return; abandoned tasks end and give permits back |
| `Queue` | 1 path, 1 hook, 2 finish calls, each cache on or off, store diff, broken connections, with fairness | no panic, paths owed are handled, cancel after drain, accepted is queued; waits end; refinement of `GracefulDrain`; every call is answered, cancel leads to exit |
| `Narinfo` | 2 paths, 2 readers, worker and 1 PUT client, GHAC on or off | the negative cache and NAR/narinfo properties; refinement of `Substituter` |
| `Netrc` | 5 inodes, 4 rewrites; fresh inodes with failing reads, or reused ones with one rewrite between two polls | same inode means current token; the last token arrives |
| `Events` | 4 events, 2 outages | order, local loss, refinement of `OrderedFeed`, resubscription, stop |
| `GithubJwt` | ticks of 20 seconds: tokens of 15, sleeps of 6, retries of 1, attempts of up to 2, an outage of 4 | no token in use expires; the netrc is whole and in step; a due refresh gets done |
| `StoreDiff` | 2 paths, one of them a link to the other that may dangle, a special name, 2 starts, 2 finishes, each cache on or off | what new paths are or lead to is pushed with its closure, nothing is pushed for an old path, and failures have a reason |
| `Startup` | 2 runs, all arguments and environments | `nix.conf` is safe at any time; a notified workflow finds the server ready |

The runs check `OkIsPublished`, `OwedHandled`, `NarNeverMissing` and `InOrderOnce` as parts
of the refinements, whose abstract actions have them as guards. Each is a
theorem of its own as well.

Why these bounds suffice: the uploads interact only through the permits and the
breaker, so two are every pair; three bytes over chunks of two give a full and a short
chunk, and lengths 0–3 every boundary, the empty stream and the exact multiple included.
The queue's races need one caller on each side of the shutdown message and two finish
calls for the locks. One path is sent by several callers, before and after the shutdown
message; that more paths change nothing is proved, for every safety property of this run. The
negative cache is per path, so one path with two readers and two writers would do,
and two show that paths do not mix. A refresh poll compares with the
last inode only: one rewrite during, one after and one reused inode are all cases. Five
inodes are enough for four rewrites that are all fresh.
Two events make a merged frame, and the third and fourth stand before and after it.
In `GithubJwt` the margin is used to the last tick
(`2 * Latency + Refresh + Outage + Retry = Life`), so that an off-by-one shows. Two starts
and two finishes are a repetition of each after a failure, and of a finish after one that
shut the queue down. Two paths have a reference (`out` refers to `dev`) and a link (`dev`
leads to `out`, a reference the derivation discards, so that the link may dangle). A link
out of the store differs from one that dangles by nothing that the code can tell; the
proofs have it, and chains of links. In a second run of `Startup`
everything that a first one can leave behind is there.
Bounds of the models are `MaxLength`, `MaxAttempts` (5 in the code), `MaxToken`,
`MaxEvents`, `MaxOutages`, `MaxRuns`; no invariant proved depends on their values. Symmetry is used
for safety only. `CHECK_DEADLOCK FALSE` is set everywhere: calls end, the process exits.

## Fairness

Weak fairness of every step of a task that can run: the tokio runtime polls tasks that
are ready. Beyond that the following is asked of the environment, and each only in
the runs with liveness properties:

* a request is answered or its connection breaks (`AnswerStep`, `ChunkStep`); the
  client sets no timeouts, so without this a call may hang for ever;
* uploads end and `push_session.wait` returns, with or without an error (`UploadQueue`);
  nobody has to call `workflow-finish`;
* reading the netrc and storing the token do not fail for ever (strong fairness of
  `Reread` and `SetToken`); a storing that fails and is not repeated leaves the old token;
* time passes (`Tick`), and an attempt at a token ends within `Latency` and fails only as
  long as `Outage`: for `GithubJwt`, whose worker is otherwise only run when it can. The code
  sets no timeout on that request, so the bound on it is an assumption about GitHub;
* a socket that is there accepts the subscription some time (strong fairness of
  `Subscribed`), and one that went away comes back.

Locks need weak fairness only: tokio's are fair and each holder lets go in these models.

## Proofs

Every theorem is for arbitrary constants that meet the named assumptions: any sets of
uploads, callers, paths, links and inodes, any chunk size, any number of permits and of runs, any
periods. Each follows
one pattern, an inductive invariant `IInv` with `Init => IInv`,
`IInv /\ [Next]_vars => IInv'` and `IInv =>` the property, by one step for each action.

| Theorem | States | Why `TypeOK` and the property are not enough |
|---|---|---|
| `GhaUploadProofs!PublishedEntriesAreWhole` | an entry shows the whole stream | The property says nothing before the commit. `IInv` says where each chunk task's bytes are (`V1Blob`), that the started tasks tile the stream up to `offset` (`V1Tasks`), that a commit is sent only when all are done (`V1Commit`), and that a V2 blob is a prefix that is `offset` long, or one block longer while an append waits (`V2Inv`). The tiling needs arithmetic on multiples of the chunk size, done in lemmas. |
| `OkOnlyIfPublished`, `PermitsAreConserved` | | the first needs which request an upload may still have under way (`SentWhile`); the second is inductive with the cardinality lemmas |
| `ThrottlingTripsV1` | V1: told of a throttling, breaker tripped | needs it for the chunk tasks, and `~ServiceV2` |
| `UploadsPublishAtomically` | `Spec => AtomicPublish!Spec` | each step is a publication, an end, or a stutter; that nothing changes what an entry shows uses `IInv` |
| `UploadQueueProofs!ShutdownNeverPanics` | the receiver is open while the handle is there | the worker exits only on a shutdown message, and that is in the channel only after the handle was taken |
| `OwedPathsAreHandled` | the worker returns after what was owed | `OwedAhead`: an owed path that is not handled stands before the shutdown message |
| `AcceptedPathsAreQueued` | | `ClosureKept`: what a caller has not still to send is in the channel or handled |
| `CancelsAfterDraining` | no cancel before the drain unless a finish call was dropped | `Drained`: who holds the lock of the handle, and what every finish call that is past it knows |
| `WaitsAreAcyclic` | no circle of calls, locks and the worker | needs which call is in which critical section, from `TypeOK`, and that whoever took the handle has its shutdown message in the channel until the worker reads it |
| `QueueDrainsGracefully` | `Spec => GracefulDrain!Spec` | a path the worker tries was offered (`OnlyOffered`, inductive beside `IInv`), finding a closure offers nothing yet (`ClosureKept`), and the worker leaves with nothing owed (`OwedAhead`) |
| `NarinfoCacheProofs!ServedNarsExist` | a served narinfo has its NAR | `NarinfoImpliesNar`, also for a narinfo whose upload is in doubt |
| `StaleEntriesAreRaces`, `OnlyMissesAreCached` | | what a reader between its lookup and its insertion knows (`ReaderInv`), and a writer on its way (`WriterInv`). The four causes are: the writer has still to remove the entry, it never got its answer, its client went away before the removal, or a reader inserted what it had looked up before |
| `SubstitutesWhole` | `Spec => Substituter!Spec` | all of these at once, and `NarOnce`, inductive beside them: a NAR is answered in the last step of a call only |
| `NetrcRefreshProofs!PollsMissNothing` | same inode means current token | the inode the worker holds is either the file's or was replaced; with fresh inodes the first inode read cannot come back (`FreshInv`), with reused ones at most one rewrite has happened since the poll (`SlowInv`) |
| `BuildEventsProofs!EventsInOrderOnce` | an event is handed over at most once, in order | `Waiting`: the events in untaken frames are in order, within a frame and across frames, and lie between what was taken and what was emitted; `Behind`: what was handed over was taken before |
| `BuildEventsProofs!BadFramesAreLocal` | an event in a frame of its own is taken or waits | inductive beside `IInv`, which says that what is taken next is ahead of what was taken |
| `SubscriptionFeedsInOrder` | `Spec => OrderedFeed!Spec` | what `TakeEvent` gives was made, by `Waiting`, and is later than all that was given, by `Behind` |
| `GithubJwtProofs!Alive` | no token in use expires | `Budget`: the age of the token and what is left of a sleep or attempt add up to no more than the margin, with `late`, the time since the refresh was due, in between; `new` is younger than the attempt |
| `Stepwise` | the netrc is in step | `Copies`: which of the netrc, the text and the file next to it have which token at which step; ageing and replacing commute with this (`EntriesAge`, `EntriesReplace`) |
| `StoreDiffProofs!NewPaths`, `OldPaths` | the closure of what each new path is or leads to is pushed; nothing is on account of an old path | `RecordBounds`: the record lies between what was there at all times and at some time of the last start; `ListBounds` says the same of a listing under way; `Roots`: the roots are where the part of the difference leads that has been followed. That a link itself is pushed is not stated, as the code loses it |
| `FinishFails` | a finish fails for one of four reasons | `Quiet`: in a store that did not change, all that was found or followed is valid, so that its closure can be asked; `Closer`: only a finish that pushed closes the queue |
| `StartupProofs!ConfigStaysSafe` | `nix.conf` is safe to use | a line is safe when it is written because of what was done before it: `FallbackFirst` and `LoginFirst` say at which places the fallback and the netrc entry are there, `ScriptReady` that the script about to be named can be run, and `HooksStay` that no later run takes a named one away |
| `ToldWhenReady` | a notified workflow finds the server ready | `Decided` and `Reached`: which caches were chosen and what each place in `main_cli` has behind it |

and in each of the eight modules that model a component `TypeCorrect`. The four
refinements have no fairness, as they are about what may happen. `MarginAssumption` of
`GithubJwt` is where the five minutes of a token enter: two attempts, a sleep, an outage
and a retry fit into its life. TLC checked the invariants first. Only model-checked: all
liveness (`EveryCallReturns`, `PermitsReturn`, `CallsReturn`, `ExitFollows`,
`CatchesUp`, `StaysSubscribed`, `StopsOnCancel`, `RefreshEnds`), which is out of this
prover's reach. Every other property of a passing run is a theorem.

## Disagreements with the documentation

Each is a run that TLC ends with a counterexample; `PROJECT.json` quotes the lines.

| Run | What the code does |
|---|---|
| `QueueLateHook` | a hook is answered Ok after the shutdown message and its paths are never uploaded |
| `NarinfoStale` | a lookup made before the upload puts its miss into the negative cache after it |

Read in the code and kept out of the properties, without a run:

* The PUT that creates a V2 blob (`api.rs:508`) is the only awaited request whose answer is
  not shown to the breaker: a 429 there fails the upload and leaves the breaker untripped.
  With `ServiceV2 = TRUE` TLC finds `ThrottledMeansTripped` violated; it is proved for V1.
* `init_cache` reads the netrc first and takes its inode later (`flakehub.rs:124`). A rewrite
  in between is not seen before the next one: in an environment with `early` TLC finds
  `SameMeansCurrent` violated.
* A new store path that is a symbolic link is enqueued as what it leads to (`api.rs:66`)
  and is not pushed itself, although the call is to push what is new ("cache everything
  we can", `api.rs:84`). `NewPathsPushed` therefore speaks of where a path leads.
* The post-build hook is added to the store without a root, so a garbage collection may
  remove the script that `nix.conf` names; `Startup` has no collection.
* The startup notification file is created and then written (`main.rs:535`), so a watcher
  may find it empty, and it holds the address, not the "1" of the comment above it.
* The README describes `num_new_paths` as the difference between `num_original_paths` and
  `num_final_paths` (`README.md:123`); the code counts the paths of a set difference
  (`magic-nix-cache/src/api.rs:71`), which is more when original paths were collected.
* A V2 reservation that collides is not tried again with another suffix as in V1
  (`api.rs:721`).
* In GitLab CI a FlakeHub that cannot be initialised lets startup try GHAC, unless it is
  disabled, and end for want of credentials.
* The breaker is read at the start of an allocation and of an upload only. An upload
  under way goes on with its requests after another one has tripped it.
* `shutdown` takes the join handle before it waits, so a finish call whose client goes
  away takes the handle with it, and the next finish call does not wait for the worker.
  `CancelAfterDrain` therefore speaks of runs in which no finish call was dropped; drop
  its premise and TLC finds this.
* A finish call that follows one that shut the queue down fails in `enqueue_paths` if the
  store has new paths for it (`gha.rs:107`), and FlakeHub does not get them either:
  `enqueue_paths` asks the GitHub queue first and returns its error (`api.rs:155`).
* An error of `push_session.wait` leaves the token uncancelled (`api.rs:104`); the process
  then lives until another finish call.
* `narinfos_sent_upstream` is counted before `pull_through` looks for an upstream, so with
  none it counts 404s.
* A throttled lookup is answered 429 (`error.rs:58`), while the README shows a 418
  around the 429 (`README.md:71`).
* When inodes are reused, a failed read, or a second rewrite between two polls, can
  bring the inode the worker remembers back with another token. `PollsMissNothing` names
  what excludes it.

## Not modelled

* Formatting: narinfo and manifest serialisation, keys, URLs, logging. They hold no
  state; keys are taken as distinct for distinct paths.
* Version hashing, request statistics, the parsing of arguments and of the netrc: an input
  of a model is what the code has after parsing it.
* The Attic pusher, Nix's store, and the service beyond its answers: external, and
  modelled from how the code uses them.
* Unbounded buffering of chunks in `upload_file`: the code promises no bound.
* An HTTP server that closes idle keep-alive connections, and TLS.

## What is left

A composition of the event subscription, the hook handlers, the worker and the exit in
one module that implements `GracefulDrain` and `OrderedFeed` together; today the modules
meet in the assumptions stated above.
