------------------------------ MODULE StoreDiff ------------------------------
(***************************************************************************)
(* What workflow-start and workflow-finish of magic-nix-cache/src/api.rs   *)
(* make of the Nix store when --diff-store is on: the first records the    *)
(* names in the store directory, the second lists them again and enqueues  *)
(* the new ones.  get_store_paths of util.rs reads the directory entry by  *)
(* entry, while builds and substitutions add paths and a garbage           *)
(* collection removes some.                                                *)
(*                                                                         *)
(* Nix is external.  A path is "partial" while its files, or its lock      *)
(* file, are there but it is not registered.  It may be a symbolic link,   *)
(* to another path or out of the store: follow_store_path canonicalizes.   *)
(* Specials are the names that the listing skips: .links, *.drv and        *)
(* *.chroot.  They are no paths to push, no path links to one here, and    *)
(* following one fails.  What happens to the paths that were handed over   *)
(* is the subject of UploadQueue; here the queue is open or closed.        *)
(***************************************************************************)
EXTENDS FiniteSets

CONSTANTS
  Paths,      \* store paths
  Specials,   \* names in the store directory that are skipped
  Closure,    \* external: Closure[p] is p with all that it refers to
  Way,        \* external: Way[p] is what canonicalize goes through, p included
  Target,     \* external: where that ends, p itself unless p is a link
  Outside,    \* no store path: where a link leads that leaves the store
  Starts,     \* calls of workflow-start
  Finishers,  \* calls of workflow-finish
  Nobody      \* no call holds the mutex

Calls == Starts \cup Finishers
Names == Paths \cup Specials

ASSUME NamesAssumption == Paths \cap Specials = {}
ASSUME ClosureAssumption == /\ Closure \in [Paths -> SUBSET Paths]
                            /\ \A p \in Paths : p \in Closure[p]
ASSUME LinksAssumption ==
  /\ Way \in [Paths -> SUBSET (Paths \cup {Outside})]
  /\ \A p \in Paths : p \in Way[p] /\ Target[p] \in Way[p]
  /\ Outside \notin Names
ASSUME CallsAssumption == Starts \cap Finishers = {} /\ Nobody \notin Calls

VARIABLES
  store,      \* the state of each path
  gha,        \* the GitHub Actions Cache is in use: it asks for the closure
  closed,     \* the receiver of its queue is gone
  session,    \* the push session of FlakeHub: "none", "open" or "dead"
  original,   \* what the mutex original_paths guards
  lock,       \* which call holds it
  pc,         \* where each call is
  todo,       \* the holder's: names to read, then paths to follow
  found,      \* the holder's final_paths, or new original_paths
  roots,      \* the holder's new_paths, as far as they are followed
  pushed,     \* the last batch that every cache in use took, with its closure
  seen,       \* history: paths that were there at some time of the listing
  kept,       \* history: paths that were there all the time of the listing
  oldSeen,    \* history: seen of the last workflow-start that succeeded
  oldKept,    \* history: kept of it
  disturbed   \* history: the holder met an I/O error or a change of the store

cacheVars == <<gha, closed, session>>
callVars == <<lock, pc, todo, found, roots>>
listVars == <<seen, kept>>
oldVars == <<oldSeen, oldKept>>
vars == <<store, cacheVars, original, callVars, pushed, listVars, oldVars, disturbed>>

Init ==
  /\ store \in [Paths -> {"absent", "valid"}]
  /\ \A p \in Paths : store[p] = "valid" =>
       \A q \in Closure[p] : store[q] = "valid"
  /\ gha \in BOOLEAN /\ closed = FALSE
  /\ session \in {"none", "open"}
  /\ original = {} /\ lock = Nobody
  /\ pc = [c \in Calls |-> "idle"]
  /\ todo = {} /\ found = {} /\ roots = {} /\ pushed = {}
  /\ seen = {} /\ kept = {}
  /\ oldSeen = {} /\ oldKept = {}
  /\ disturbed = FALSE

Present == {p \in Paths : store[p] # "absent"}
Partial == {p \in Paths : store[p] = "partial"}
At(c, state) == lock = c /\ pc[c] = state
Listing == lock # Nobody /\ pc[lock] = "list"

(***************************************************************************)
(* The store                                                               *)
(***************************************************************************)
Changes(p, state) ==
  /\ store' = [store EXCEPT ![p] = state]
  /\ UNCHANGED <<cacheVars, original, callVars, pushed, oldVars>>

\* A build or a substitution begins to write its output.
Begin(p) ==
  /\ store[p] = "absent"
  /\ Changes(p, "partial")
  /\ seen' = IF Listing THEN seen \cup {p} ELSE seen
  /\ disturbed' = (disturbed \/ lock # Nobody)
  /\ UNCHANGED kept

\* It is registered, after all that it refers to.
Register(p) ==
  /\ store[p] = "partial"
  /\ \A q \in Closure[p] \ {p} : store[q] = "valid"
  /\ Changes(p, "valid")
  /\ UNCHANGED <<listVars, disturbed>>

\* A collection removes a path that nothing needs; a build fails.
Remove(p) ==
  /\ store[p] # "absent"
  /\ \A q \in Paths \ {p} : p \in Closure[q] => store[q] = "absent"
  /\ Changes(p, "absent")
  /\ kept' = IF Listing THEN kept \ {p} ELSE kept
  /\ disturbed' = (disturbed \/ lock # Nobody)
  /\ UNCHANGED seen

(***************************************************************************)
(* get_store_paths                                                         *)
(***************************************************************************)
\* Faulty: every name is taken for a path.
AnyName(n) == TRUE

\* The listing skips by extension and by name.
IsListed(n) == n \notin Specials

Lock(c) ==
  /\ pc[c] = "idle" /\ lock = Nobody
  /\ lock' = c
  /\ pc' = [pc EXCEPT ![c] = "list"]
  /\ todo' = Names
  /\ seen' = Present /\ kept' = Present
  /\ disturbed' = (Partial # {})
  /\ UNCHANGED <<store, cacheVars, original, found, roots, pushed, oldVars>>

\* next_entry: one name, in the order of the directory.
ReadEntry(c, n) ==
  /\ At(c, "list") /\ n \in todo
  /\ todo' = todo \ {n}
  /\ found' = IF n \in Present \cup Specials /\ IsListed(n) THEN found \cup {n} ELSE found
  /\ UNCHANGED <<store, cacheVars, original, lock, pc, roots, pushed, listVars, oldVars,
                 disturbed>>

\* The call ends with `?` or its response; the guard and its locals go.
Return(c, how) ==
  /\ pc' = [pc EXCEPT ![c] = how]
  /\ lock' = Nobody
  /\ todo' = {} /\ found' = {} /\ roots' = {}
  /\ seen' = {} /\ kept' = {}

\* Faulty: the record is emptied before the listing.
LosesRecord(c) ==
  /\ At(c, "list") \/ At(c, "follow")
  /\ Return(c, "failed")
  /\ disturbed' = TRUE
  /\ original' = {}
  /\ UNCHANGED <<store, cacheVars, pushed, oldVars>>

\* An I/O error of the listing or of the store; the record is as it was.
CannotRead(c) ==
  /\ At(c, "list") \/ At(c, "follow")
  /\ Return(c, "failed")
  /\ disturbed' = TRUE
  /\ UNCHANGED <<store, cacheVars, original, pushed, oldVars>>

(***************************************************************************)
(* workflow_start                                                          *)
(***************************************************************************)
Record(s) ==
  /\ At(s, "list") /\ todo = {}
  /\ original' = found
  /\ Return(s, "recorded")
  /\ oldSeen' = seen /\ oldKept' = kept
  /\ UNCHANGED <<store, cacheVars, pushed, disturbed>>

(***************************************************************************)
(* workflow_finish, up to the shutdown                                     *)
(***************************************************************************)
\* Faulty: the record is replaced by the new listing.
DiffReplaces(f) ==
  /\ At(f, "list") /\ todo = {}
  /\ pc' = [pc EXCEPT ![f] = "follow"]
  /\ todo' = found \ original
  /\ original' = found
  /\ UNCHANGED <<store, cacheVars, lock, found, roots, pushed, listVars, oldVars,
                 disturbed>>

\* final_paths.difference(&original_paths)
Diff(f) ==
  /\ At(f, "list") /\ todo = {}
  /\ pc' = [pc EXCEPT ![f] = "follow"]
  /\ todo' = found \ original
  /\ UNCHANGED <<store, cacheVars, original, lock, found, roots, pushed, listVars,
                 oldVars, disturbed>>

\* follow_store_path: the path that canonicalize arrives at, and an error
\* if a link dangles or leaves the store.
Follow(f, p) ==
  /\ At(f, "follow") /\ p \in todo
  /\ IF p \in Paths /\ Way[p] \subseteq Present
     THEN /\ todo' = todo \ {p}
          /\ roots' = roots \cup {Target[p]}
          /\ UNCHANGED <<lock, pc, found, listVars>>
     ELSE Return(f, "failed")
  /\ UNCHANGED <<store, cacheVars, original, pushed, oldVars, disturbed>>

ClosureOf(ps) == UNION {Closure[p] : p \in ps \cap Paths}

\* Faulty: the guard outlives the block.
KeepsGuard(f) ==
  /\ At(f, "follow") /\ todo = {}
  /\ pushed' = ClosureOf(roots)
  /\ pc' = [pc EXCEPT ![f] = "pushed"]
  /\ UNCHANGED <<store, cacheVars, original, lock, todo, found, roots, listVars, oldVars,
                 disturbed>>

\* GhaCache::enqueue_paths: compute_fs_closure_multi wants valid paths, and
\* the first send fails once the receiver is gone.
GhaTakes ==
  /\ \A p \in roots : p \in Paths /\ store[p] = "valid"
  /\ closed => roots = {}

\* queue_many: the session asks for the closure later, unless it has died.
SessionTakes == session # "dead"

Enqueue(f) ==
  /\ At(f, "follow") /\ todo = {}
  /\ IF (gha => GhaTakes) /\ SessionTakes
     THEN pushed' = ClosureOf(roots) /\ Return(f, "pushed")
     ELSE Return(f, "failed") /\ UNCHANGED pushed
  /\ UNCHANGED <<store, cacheVars, original, oldVars, disturbed>>

(***************************************************************************)
(* The two caches.  A finish that pushed goes on to the shutdown.          *)
(***************************************************************************)
\* The worker reads the Shutdown of f and drops the receiver.
CloseQueue(f) ==
  /\ pc[f] = "pushed" /\ gha /\ ~closed
  /\ closed' = TRUE
  /\ UNCHANGED <<store, gha, session, original, callVars, pushed, listVars, oldVars,
                 disturbed>>

\* f takes the session to wait for it; later calls find none.
TakeSession(f) ==
  /\ pc[f] = "pushed" /\ session # "none"
  /\ session' = "none"
  /\ UNCHANGED <<store, gha, closed, original, callVars, pushed, listVars, oldVars,
                 disturbed>>

\* The task behind the session ends with an error.
SessionDies ==
  /\ session = "open"
  /\ session' = "dead"
  /\ UNCHANGED <<store, gha, closed, original, callVars, pushed, listVars, oldVars,
                 disturbed>>

Nix == \E p \in Paths : Begin(p) \/ Register(p) \/ Remove(p)
List(c) == Lock(c) \/ (\E n \in Names : ReadEntry(c, n)) \/ CannotRead(c)
Finish(f) == \/ Diff(f)
             \/ \E p \in Names : Follow(f, p)
             \/ Enqueue(f)
             \/ CloseQueue(f)
             \/ TakeSession(f)

Next == \/ Nix
        \/ \E c \in Calls : List(c)
        \/ \E s \in Starts : Record(s)
        \/ \E f \in Finishers : Finish(f)
        \/ SessionDies

Spec == Init /\ [][Next]_vars

(***************************************************************************)
(* Properties.                                                             *)
(***************************************************************************)
\* Every variable stays in its range, and a call holds the mutex exactly
\* while it lists or follows.
TypeOK ==
  /\ store \in [Paths -> {"absent", "partial", "valid"}]
  /\ gha \in BOOLEAN /\ closed \in BOOLEAN /\ disturbed \in BOOLEAN
  /\ session \in {"none", "open", "dead"}
  /\ pc \in [Calls -> {"idle", "list", "follow", "recorded", "pushed", "failed"}]
  /\ lock \in Calls \cup {Nobody}
  /\ \A c \in Calls : pc[c] \in {"list", "follow"} <=> lock = c
  /\ todo \subseteq Names
  /\ \A s \in {original, found, roots, pushed, seen, kept, oldSeen, oldKept} :
       s \subseteq Paths

Pushes(f) == pc[f] # "pushed" /\ pc'[f] = "pushed"
Fails(f) == pc[f] # "failed" /\ pc'[f] = "failed"

\* "we diff the store to ensure we cache everything we can": what was not in
\* the store during the last workflow-start that succeeded, and was there all
\* the time workflow-finish listed it, is pushed with its closure, however
\* many calls failed before.  A path that is a link is pushed as the path it
\* leads to.
NewPathsPushed ==
  [][\A f \in Finishers : Pushes(f) =>
       \A p \in kept \ oldSeen : Closure[Target[p]] \subseteq pushed']_vars

\* What is pushed for itself, and not only as what a new path needs, is a new
\* path or where a new link leads: nothing is, on account of a path that was
\* there all the time of that workflow-start.
OldPathsSkipped ==
  [][\A f \in Finishers : Pushes(f) =>
       \A r \in roots : \E p \in found \ oldKept : Target[p] = r]_vars

\* workflow-finish fails before the shutdown, and leaves the program running,
\* only for one of four reasons: the store changed under it or could not be
\* read; a new path is a link that dangles or leaves the store; an earlier
\* finish got as far as the shutdown of the GitHub Actions Cache; the push
\* session of FlakeHub is dead.
FinishFailsForAReason ==
  [][\A f \in Finishers : Fails(f) =>
       \/ disturbed'
       \/ \E p \in Present \cap (found \ original) : ~(Way[p] \subseteq Present)
       \/ gha /\ \E g \in Finishers : pc[g] = "pushed"
       \/ session = "dead"]_vars
=============================================================================
