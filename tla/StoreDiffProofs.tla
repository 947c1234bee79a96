--------------------------- MODULE StoreDiffProofs ---------------------------
(***************************************************************************)
(* Proofs about StoreDiff: for any paths, links, references and calls,     *)
(* workflow-finish pushes what is new, a link as what it leads to, pushes  *)
(* nothing on account of an old path, and fails only for a named reason.   *)
(***************************************************************************)
EXTENDS StoreDiff, TLAPS

\* The record is between what was there all the time and what was there at
\* some time.
RecordBounds == oldKept \subseteq original /\ original \subseteq oldSeen

\* Locals do not survive their call.
Locals == lock = Nobody => found = {} /\ roots = {}

\* What a listing has so far is between the same bounds.
ListBounds ==
  Listing => /\ roots = {}
             /\ found \subseteq seen /\ Present \subseteq seen
             /\ kept \subseteq Present /\ kept \ todo \subseteq found

\* What is to be followed is a part of what is new, and new_paths is where
\* the rest of it leads.
New == found \ original
Roots ==
  lock # Nobody /\ ~Listing =>
    /\ kept \subseteq found
    /\ todo \subseteq New
    /\ \A p \in New \ todo : Target[p] \in roots
    /\ \A r \in roots : \E p \in New : Target[p] = r

\* In a store that does not change, what was found is valid.
Quiet ==
  lock # Nobody /\ ~disturbed => Partial = {} /\ found \cup roots \subseteq Present

\* The queue is closed by a finish that pushed.
Closer == closed => gha /\ \E g \in Finishers : pc[g] = "pushed"

IInv == TypeOK /\ RecordBounds /\ Locals /\ ListBounds /\ Roots /\ Quiet /\ Closer

LEMMA InitIInv == Init => IInv
<1> SUFFICES ASSUME Init PROVE IInv
  OBVIOUS
<1>1. TypeOK
  BY CallsAssumption DEF Init, TypeOK, Calls
<1>2. RecordBounds /\ Locals /\ ListBounds /\ Roots /\ Quiet /\ Closer
  BY DEF Init, RecordBounds, Locals, ListBounds, Listing, Roots, Quiet, Closer
<1> QED BY <1>1, <1>2 DEF IInv

\* A step of Nix changes one path.
LEMMA NixStep ==
  ASSUME IInv, NEW p \in Paths, Begin(p) \/ Register(p) \/ Remove(p)
  PROVE  IInv'
<1> USE DEF Changes, cacheVars, callVars, listVars, oldVars
<1>1. /\ store \in [Paths -> {"absent", "partial", "valid"}]
      /\ UNCHANGED <<gha, closed, session, original, lock, pc, todo, found, roots, pushed,
                     oldSeen, oldKept>>
  BY DEF IInv, TypeOK, Begin, Register, Remove
<1>2. TypeOK'
  <2>1. store' \in [Paths -> {"absent", "partial", "valid"}]
    BY <1>1 DEF Begin, Register, Remove
  <2>2. seen' \subseteq Paths /\ kept' \subseteq Paths /\ disturbed' \in BOOLEAN
    BY DEF IInv, TypeOK, Begin, Register, Remove
  <2> QED BY <1>1, <2>1, <2>2 DEF IInv, TypeOK
<1>3. RecordBounds' /\ Locals' /\ Closer'
  BY <1>1 DEF IInv, RecordBounds, Locals, Closer
<1>4. ListBounds' /\ Roots' /\ Quiet'
  <2>1. Listing' = Listing
    BY <1>1 DEF Listing
  <2>2. CASE Begin(p)
    <3>1. Present' = Present \cup {p}
      BY <1>1, <2>2 DEF Begin, Present
    <3>2. Listing => seen' = seen \cup {p}
      BY <2>2 DEF Begin
    <3>3. kept' = kept /\ (lock # Nobody => disturbed')
      BY <2>2 DEF Begin
    <3> QED BY <1>1, <2>1, <3>1, <3>2, <3>3 DEF IInv, ListBounds, Roots, New, Quiet
  <2>3. CASE Register(p)
    <3>1. Present' = Present /\ Partial' \subseteq Partial
      BY <1>1, <2>3 DEF Register, Present, Partial
    <3>2. UNCHANGED <<seen, kept, disturbed>>
      BY <2>3 DEF Register
    <3> QED BY <1>1, <2>1, <3>1, <3>2 DEF IInv, ListBounds, Roots, New, Quiet
  <2>4. CASE Remove(p)
    <3>1. Present' = Present \ {p}
      BY <1>1, <2>4 DEF Remove, Present
    <3>2. kept' = IF Listing THEN kept \ {p} ELSE kept
      BY <2>4 DEF Remove
    <3>3. seen' = seen /\ (lock # Nobody => disturbed')
      BY <2>4 DEF Remove
    <3> QED BY <1>1, <2>1, <3>1, <3>2, <3>3 DEF IInv, ListBounds, Roots, New, Quiet
  <2> QED BY <2>2, <2>3, <2>4
<1> QED BY <1>2, <1>3, <1>4 DEF IInv

\* A call that ends leaves the record and no locals.
LEMMA ReturnStep ==
  ASSUME IInv, NEW c \in Calls, NEW how \in {"recorded", "pushed", "failed"},
         lock = c, Return(c, how), RecordBounds', store' = store, UNCHANGED cacheVars,
         original' \subseteq Paths, pushed' \subseteq Paths,
         oldSeen' \subseteq Paths, oldKept' \subseteq Paths, disturbed' \in BOOLEAN
  PROVE  IInv'
<1>1. TypeOK'
  <2>1. \A d \in Calls : pc'[d] = IF d = c THEN how ELSE pc[d]
    BY DEF Return, IInv, TypeOK
  <2>2. \A d \in Calls : pc'[d] \in {"list", "follow"} <=> lock' = d
    BY <2>1, CallsAssumption DEF Return, IInv, TypeOK
  <2>3. pc' \in [Calls -> {"idle", "list", "follow", "recorded", "pushed", "failed"}]
    BY DEF Return, IInv, TypeOK
  <2> QED BY <2>2, <2>3 DEF Return, IInv, TypeOK, cacheVars
<1>2. Locals' /\ ListBounds' /\ Roots' /\ Quiet'
  BY DEF Return, Locals, ListBounds, Listing, Roots, Quiet
<1>3. Closer'
  <2>1. \A d \in Calls : pc[d] = "pushed" => pc'[d] = "pushed"
    BY DEF Return, IInv, TypeOK
  <2> QED BY <2>1 DEF IInv, Closer, cacheVars, Calls
<1> QED BY <1>1, <1>2, <1>3 DEF IInv

LEMMA LockStep == ASSUME IInv, NEW c \in Calls, Lock(c) PROVE IInv'
<1> USE DEF Lock, cacheVars, oldVars
<1>1. Present \subseteq Paths /\ Present' = Present /\ Partial' = Partial
  BY DEF Present, Partial
<1>2. c # Nobody /\ lock' = c /\ pc'[c] = "list"
  BY CallsAssumption DEF IInv, TypeOK
<1>3. TypeOK'
  <2>1. \A d \in Calls : pc'[d] = IF d = c THEN "list" ELSE pc[d]
    BY DEF IInv, TypeOK
  <2>2. \A d \in Calls : pc'[d] \in {"list", "follow"} <=> lock' = d
    BY <2>1, CallsAssumption DEF IInv, TypeOK
  <2>3. pc' \in [Calls -> {"idle", "list", "follow", "recorded", "pushed", "failed"}]
    BY DEF IInv, TypeOK
  <2> QED BY <1>1, <2>2, <2>3 DEF IInv, TypeOK
<1>4. RecordBounds' /\ Closer'
  <2>1. \A d \in Calls : pc[d] = "pushed" => pc'[d] = "pushed"
    BY DEF IInv, TypeOK
  <2> QED BY <2>1 DEF IInv, RecordBounds, Closer, Calls
<1>5. found' = {} /\ roots' = {} /\ Listing'
  BY <1>2 DEF IInv, Locals, Listing
<1>6. kept' \ todo' = {}
  BY <1>1 DEF Names
<1> QED
  BY <1>1, <1>2, <1>3, <1>4, <1>5, <1>6 DEF IInv, Locals, ListBounds, Roots, Quiet

LEMMA ReadEntryStep ==
  ASSUME IInv, NEW c \in Calls, NEW n \in Names, ReadEntry(c, n)
  PROVE  IInv'
<1> USE DEF ReadEntry, At, cacheVars, listVars, oldVars
<1>1. Listing /\ Listing' /\ lock # Nobody
  BY CallsAssumption DEF Listing
<1>2. Present \subseteq Paths /\ Present' = Present /\ Partial' = Partial
  BY DEF Present, Partial
<1>3. found' = IF n \in Present THEN found \cup {n} ELSE found
  BY <1>2, NamesAssumption DEF IsListed, Names
<1>4. TypeOK'
  BY <1>2, <1>3 DEF IInv, TypeOK
<1>5. RecordBounds' /\ Locals' /\ Roots' /\ Closer'
  BY <1>1 DEF IInv, RecordBounds, Locals, Roots, Closer
<1>6. ListBounds'
  BY <1>1, <1>2, <1>3 DEF IInv, ListBounds
<1>7. Quiet'
  BY <1>1, <1>2, <1>3 DEF IInv, Quiet
<1> QED BY <1>4, <1>5, <1>6, <1>7 DEF IInv

LEMMA CannotReadStep == ASSUME IInv, NEW c \in Calls, CannotRead(c) PROVE IInv'
<1>1. /\ lock = c /\ Return(c, "failed") /\ disturbed' = TRUE
      /\ UNCHANGED <<store, cacheVars, original, pushed, oldSeen, oldKept>>
  BY DEF CannotRead, At, oldVars
<1>2. RecordBounds'
  BY <1>1 DEF IInv, RecordBounds
<1>3. /\ original' \subseteq Paths /\ pushed' \subseteq Paths
      /\ oldSeen' \subseteq Paths /\ oldKept' \subseteq Paths
  BY <1>1 DEF IInv, TypeOK
<1> QED BY <1>1, <1>2, <1>3, ReturnStep

LEMMA RecordStep == ASSUME IInv, NEW s \in Starts, Record(s) PROVE IInv'
<1>1. s \in Calls /\ lock = s /\ Return(s, "recorded")
  BY DEF Record, At, Calls
<1>2. Listing
  BY <1>1, CallsAssumption DEF Record, At, Listing
<1>3. RecordBounds'
  BY <1>2 DEF IInv, ListBounds, RecordBounds, Record
<1>4. /\ original' \subseteq Paths /\ pushed' \subseteq Paths
      /\ oldSeen' \subseteq Paths /\ oldKept' \subseteq Paths /\ disturbed' \in BOOLEAN
  BY DEF IInv, TypeOK, Record
<1> QED BY <1>1, <1>3, <1>4, ReturnStep DEF Record

LEMMA DiffStep == ASSUME IInv, NEW f \in Finishers, Diff(f) PROVE IInv'
<1> USE DEF Diff, At, cacheVars, listVars, oldVars
<1>1. f \in Calls /\ f # Nobody /\ lock = f /\ lock' = f
  BY CallsAssumption DEF Calls
<1>2. Listing /\ ~Listing'
  BY <1>1 DEF Listing, IInv, TypeOK
<1>3. TypeOK'
  <2>1. \A d \in Calls : pc'[d] = IF d = f THEN "follow" ELSE pc[d]
    BY DEF IInv, TypeOK
  <2>2. \A d \in Calls : pc'[d] \in {"list", "follow"} <=> lock' = d
    BY <1>1, <2>1 DEF IInv, TypeOK
  <2>3. pc' \in [Calls -> {"idle", "list", "follow", "recorded", "pushed", "failed"}]
    BY DEF IInv, TypeOK
  <2>4. todo' \subseteq Names
    BY DEF IInv, TypeOK, Names
  <2> QED BY <2>2, <2>3, <2>4 DEF IInv, TypeOK
<1>4. RecordBounds' /\ Locals' /\ ListBounds' /\ Closer'
  <2>1. \A d \in Calls : pc[d] = "pushed" => pc'[d] = "pushed"
    BY DEF IInv, TypeOK
  <2> QED BY <1>1, <1>2, <2>1 DEF IInv, RecordBounds, Locals, ListBounds, Closer, Calls
<1>5. Roots'
  BY <1>1, <1>2 DEF IInv, ListBounds, Roots, New
<1>6. Quiet'
  <2>1. Present' = Present /\ Partial' = Partial
    BY DEF Present, Partial
  <2> QED BY <1>1, <2>1 DEF IInv, Quiet
<1> QED BY <1>3, <1>4, <1>5, <1>6 DEF IInv

LEMMA FollowStep ==
  ASSUME IInv, NEW f \in Finishers, NEW p \in Names, Follow(f, p)
  PROVE  IInv'
<1> USE DEF Follow, At, cacheVars, listVars, oldVars
<1>1. f \in Calls /\ f # Nobody /\ lock = f
  BY CallsAssumption DEF Calls
<1>2. RecordBounds'
  BY DEF IInv, RecordBounds
<1>3. CASE p \in Paths /\ Way[p] \subseteq Present
  <2>1. ~Listing /\ ~Listing' /\ lock' = lock /\ Present' = Present /\ Partial' = Partial
    BY <1>1, <1>3 DEF Listing, Present, Partial
  <2>2. Target[p] \in Present /\ Present \subseteq Paths
    BY <1>3, LinksAssumption DEF Present
  <2>3. TypeOK'
    BY <1>3, <2>2 DEF IInv, TypeOK
  <2>4. Locals' /\ ListBounds' /\ Quiet' /\ Closer'
    BY <1>1, <1>3, <2>1, <2>2 DEF IInv, Locals, ListBounds, Quiet, Closer
  <2>5. Roots'
    BY <1>1, <1>3, <2>1 DEF IInv, Roots, New
  <2> QED BY <1>2, <2>3, <2>4, <2>5 DEF IInv
<1>4. CASE ~(p \in Paths /\ Way[p] \subseteq Present)
  <2>1. Return(f, "failed")
    BY <1>4
  <2>2. /\ original' \subseteq Paths /\ pushed' \subseteq Paths
        /\ oldSeen' \subseteq Paths /\ oldKept' \subseteq Paths /\ disturbed' \in BOOLEAN
    BY DEF IInv, TypeOK
  <2> QED BY <1>1, <1>2, <2>1, <2>2, ReturnStep
<1> QED BY <1>3, <1>4

\* A closure consists of paths and contains what it is the closure of.
LEMMA ClosureFacts ==
  ASSUME NEW ps \in SUBSET Paths
  PROVE  ClosureOf(ps) \subseteq Paths /\ ps \subseteq ClosureOf(ps)
BY ClosureAssumption DEF ClosureOf

LEMMA EnqueueStep == ASSUME IInv, NEW f \in Finishers, Enqueue(f) PROVE IInv'
<1> USE DEF Enqueue, At, oldVars
<1>1. f \in Calls /\ lock = f
  BY DEF Calls
<1>2. PICK how \in {"pushed", "failed"} : Return(f, how)
  OBVIOUS
<1>3. RecordBounds'
  BY DEF IInv, RecordBounds
<1>4. pushed' \subseteq Paths
  BY ClosureFacts DEF IInv, TypeOK
<1>5. /\ original' \subseteq Paths
      /\ oldSeen' \subseteq Paths /\ oldKept' \subseteq Paths /\ disturbed' \in BOOLEAN
  BY DEF IInv, TypeOK
<1> QED BY <1>1, <1>2, <1>3, <1>4, <1>5, ReturnStep

\* The caches change beside the calls.
LEMMA CacheStep ==
  ASSUME IInv, (\E f \in Finishers : CloseQueue(f) \/ TakeSession(f)) \/ SessionDies
  PROVE  IInv'
<1> USE DEF CloseQueue, TakeSession, SessionDies, callVars, listVars, oldVars
<1>1. /\ UNCHANGED <<store, gha, original, lock, pc, todo, found, roots, pushed, seen, kept,
                     oldSeen, oldKept, disturbed>>
      /\ closed' \in BOOLEAN /\ session' \in {"none", "open", "dead"}
  BY DEF IInv, TypeOK
<1>2. TypeOK'
  BY <1>1 DEF IInv, TypeOK
<1>3. RecordBounds' /\ Locals' /\ ListBounds' /\ Roots' /\ Quiet'
  BY <1>1 DEF IInv, RecordBounds, Locals, ListBounds, Listing, Roots, New, Quiet,
              Present, Partial
<1>4. Closer'
  BY <1>1 DEF IInv, Closer
<1> QED BY <1>2, <1>3, <1>4 DEF IInv

LEMMA StutterStep == IInv /\ UNCHANGED vars => IInv'
BY DEF IInv, vars, cacheVars, callVars, listVars, oldVars, TypeOK, RecordBounds, Locals,
       ListBounds, Listing, Roots, New, Quiet, Closer, Present, Partial

LEMMA NextIInv == IInv /\ [Next]_vars => IInv'
BY NixStep, LockStep, ReadEntryStep, CannotReadStep, RecordStep, DiffStep,
   FollowStep, EnqueueStep, CacheStep, StutterStep
DEF Next, Nix, List, Finish

THEOREM Invariance == Spec => []IInv
BY InitIInv, NextIInv, PTL DEF Spec

(***************************************************************************)
(* The theorems.                                                           *)
(***************************************************************************)
\* Type correctness, with the mutex of main.rs: a call holds it exactly
\* while it lists or follows.
THEOREM TypeCorrect == Spec => []TypeOK
BY Invariance, PTL DEF IInv

\* Only the step that enqueues lets a call of workflow-finish go on.
LEMMA PushIsEnqueue ==
  ASSUME IInv, Next, NEW f \in Finishers, Pushes(f)
  PROVE  Enqueue(f) /\ pushed' = ClosureOf(roots)
<1> USE DEF Pushes
<1>1. pc \in [Calls -> {"idle", "list", "follow", "recorded", "pushed", "failed"}] /\ f \in Calls
  BY DEF IInv, TypeOK, Calls
<1>2. \A p \in Paths : ~(Begin(p) \/ Register(p) \/ Remove(p))
  BY DEF Begin, Register, Remove, Changes, callVars
<1>3. \A c \in Calls : ~List(c)
  BY <1>1 DEF List, Lock, ReadEntry, CannotRead, Return
<1>4. \A s \in Starts : ~Record(s)
  BY <1>1, CallsAssumption DEF Record, Return
<1>5. ~SessionDies /\ \A g \in Finishers : ~CloseQueue(g) /\ ~TakeSession(g)
  BY DEF SessionDies, CloseQueue, TakeSession, callVars
<1>6. PICK g \in Finishers : Finish(g)
  BY <1>2, <1>3, <1>4, <1>5 DEF Next, Nix
<1>7. Enqueue(g)
  BY <1>1, <1>6, <1>5 DEF Finish, Diff, Follow, Return
<1>8. g = f /\ pushed' = ClosureOf(roots)
  BY <1>1, <1>7 DEF Enqueue, Return
<1> QED BY <1>7, <1>8

\* workflow_finish of api.rs pushes what is new, with its closure: a path as
\* itself and a link as the path it leads to, for any number of calls that
\* failed before and any change of the store meanwhile.
THEOREM NewPaths == Spec => NewPathsPushed
<1>1. IInv /\ [Next]_vars =>
        [\A f \in Finishers : Pushes(f) =>
           \A p \in kept \ oldSeen : Closure[Target[p]] \subseteq pushed']_vars
  <2> SUFFICES ASSUME IInv, Next, NEW f \in Finishers, Pushes(f),
                      NEW p \in kept \ oldSeen
               PROVE  Closure[Target[p]] \subseteq pushed'
    OBVIOUS
  <2>1. Enqueue(f) /\ pushed' = ClosureOf(roots)
    BY PushIsEnqueue
  <2>2. lock # Nobody /\ ~Listing /\ todo = {}
    BY <2>1, CallsAssumption DEF Enqueue, At, Listing, Calls
  <2>3. Target[p] \in roots /\ roots \subseteq Paths
    BY <2>2 DEF IInv, TypeOK, Roots, New, RecordBounds
  <2> QED BY <2>1, <2>3 DEF ClosureOf
<1> QED BY <1>1, Invariance, PTL DEF Spec, NewPathsPushed

\* What it pushes for itself is, or is linked from, a path that workflow-start
\* did not have all the time of its listing.
THEOREM OldPaths == Spec => OldPathsSkipped
<1>1. IInv /\ [Next]_vars =>
        [\A f \in Finishers : Pushes(f) =>
           \A r \in roots : \E p \in found \ oldKept : Target[p] = r]_vars
  <2> SUFFICES ASSUME IInv, Next, NEW f \in Finishers, Pushes(f), NEW r \in roots
               PROVE  \E p \in found \ oldKept : Target[p] = r
    OBVIOUS
  <2>1. Enqueue(f)
    BY PushIsEnqueue
  <2>2. lock # Nobody /\ ~Listing
    BY <2>1, CallsAssumption DEF Enqueue, At, Listing, Calls
  <2> QED BY <2>2 DEF IInv, Roots, New, RecordBounds
<1> QED BY <1>1, Invariance, PTL DEF Spec, OldPathsSkipped

\* It fails only for one of the four reasons; the argument is that in a store
\* that does not change, what was followed is valid when its closure is asked.
THEOREM FinishFails == Spec => FinishFailsForAReason
<1>1. IInv /\ [Next]_vars =>
        [\A f \in Finishers : Fails(f) =>
           \/ disturbed'
           \/ \E p \in Present \cap (found \ original) : ~(Way[p] \subseteq Present)
           \/ gha /\ \E g \in Finishers : pc[g] = "pushed"
           \/ session = "dead"]_vars
  <2> SUFFICES ASSUME IInv, Next, NEW f \in Finishers, Fails(f), ~disturbed',
                      ~(gha /\ \E g \in Finishers : pc[g] = "pushed"),
                      session # "dead"
               PROVE  \E p \in Present \cap (found \ original) : ~(Way[p] \subseteq Present)
    OBVIOUS
  <2> USE DEF Fails
  <2>1. pc \in [Calls -> {"idle", "list", "follow", "recorded", "pushed", "failed"}] /\ f \in Calls
    BY DEF IInv, TypeOK, Calls
  <2>2. \A p \in Paths : ~(Begin(p) \/ Register(p) \/ Remove(p))
    BY DEF Begin, Register, Remove, Changes, callVars
  <2>3. \A s \in Starts : ~Record(s)
    BY <2>1 DEF Record, Return
  <2>4. \A c \in Calls : ~List(c)
    BY <2>1 DEF List, Lock, ReadEntry, CannotRead
  <2>5. ~SessionDies /\ \A g \in Finishers : ~CloseQueue(g) /\ ~TakeSession(g)
    BY DEF SessionDies, CloseQueue, TakeSession, callVars
  <2>6. PICK g \in Finishers : Diff(g) \/ (\E p \in Names : Follow(g, p)) \/ Enqueue(g)
    BY <2>2, <2>3, <2>4, <2>5 DEF Next, Nix, Finish
  <2>7. ~Diff(g)
    BY <2>1 DEF Diff
  <2>8. At(g, "follow") /\ disturbed' = disturbed
    BY <2>6, <2>7 DEF Follow, Enqueue
  <2>9. lock # Nobody /\ ~Listing
    BY <2>8, CallsAssumption DEF At, Listing, Calls
  <2>10. /\ Partial = {} /\ found \cup roots \subseteq Present
         /\ todo \subseteq found \ original
    BY <2>8, <2>9 DEF IInv, Quiet, Roots, New
  <2>11. CASE Enqueue(g)
    <3>1. \A p \in roots : p \in Paths /\ store[p] = "valid"
      BY <2>10 DEF IInv, TypeOK, Partial, Present
    <3>2. (gha => GhaTakes) /\ SessionTakes
      BY <3>1 DEF IInv, Closer, GhaTakes, SessionTakes
    <3> QED BY <2>1, <2>11, <3>2 DEF Enqueue, Return
  <2>12. CASE \E p \in Names : Follow(g, p)
    <3>1. PICK p \in Names : Follow(g, p)
      BY <2>12
    <3>2. p \in todo /\ ~(p \in Paths /\ Way[p] \subseteq Present)
      BY <2>1, <3>1 DEF Follow
    <3>3. p \in Present \cap (found \ original) /\ p \in Paths
      BY <2>10, <3>2 DEF Present
    <3> QED BY <3>2, <3>3
  <2> QED BY <2>6, <2>7, <2>11, <2>12
<1> QED BY <1>1, Invariance, PTL DEF Spec, FinishFailsForAReason
=============================================================================
