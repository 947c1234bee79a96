------------------------- MODULE NetrcRefreshProofs -------------------------
(***************************************************************************)
(* Polling the inode misses nothing, for any number of rewrites, when      *)
(* inodes are not given out again, or when nothing fails and               *)
(* determinate-nixd is slower than the poll.                               *)
(***************************************************************************)
EXTENDS NetrcRefresh, TLAPS

USE DEF Tokens

(***************************************************************************)
(* The inductive invariants.                                               *)
(***************************************************************************)
InWorker == pc \in {"sleep", "reread", "set"}

\* The first read and the first stat saw the same file.
Initialised == pc = "stat" => api = token

\* Without reuse an inode stands for one token.
FreshInv ==
  /\ InWorker /\ inode = ino => api = token
  /\ pc = "set" /\ seen = ino => got = token

\* With reuse, what was seen is still there unless it was replaced once.
SlowInv ==
  /\ pc = "sleep" => IF recent THEN inode # ino ELSE inode = ino /\ api = token
  /\ pc = "reread" => IF recent THEN seen # ino ELSE seen = ino
  /\ pc = "set" => IF recent THEN seen # ino ELSE seen = ino /\ got = token

\* What the environment must not do.
Quiet == ~RewriteEarly
Slow == ReuseInodes => ~MayFail /\ ~RewriteOften

\* Init establishes the types.
LEMMA InitType == Init => TypeOK
<1> SUFFICES ASSUME Init PROVE TypeOK
  OBVIOUS
<1>1. token \in Tokens /\ env \in Environments
  BY TokenAssumption DEF Init
<1>2. used \subseteq Inodes /\ {ino, inode, seen} \subseteq used
  BY DEF Init
<1>3. recent \in BOOLEAN /\ pc = "read" /\ got = NoToken /\ api = NoToken
  BY DEF Init
<1> QED BY <1>1, <1>2, <1>3 DEF TypeOK

\* Every step keeps them.
LEMMA TypeStep == TypeOK /\ [Next]_vars => TypeOK'
<1> SUFFICES ASSUME TypeOK, [Next]_vars PROVE TypeOK'
  OBVIOUS
<1> USE TokenAssumption
<1>1. CASE Rewrite
  BY <1>1 DEF Rewrite, TypeOK
<1>2. CASE ReadInitial \/ StatInitial
  BY <1>2 DEF ReadInitial, StatInitial, TypeOK, fileVars
<1>3. CASE Poll
  BY <1>3 DEF Poll, PollSame, PollChanged, TypeOK, fileVars
<1>4. CASE Reread \/ RereadFails
  BY <1>4 DEF Reread, RereadFails, TypeOK, fileVars
<1>5. CASE SetToken \/ SetFails
  BY <1>5 DEF SetToken, SetFails, TypeOK, fileVars
<1>6. CASE UNCHANGED vars
  BY <1>6 DEF vars, TypeOK, fileVars
<1> QED BY <1>1, <1>2, <1>3, <1>4, <1>5, <1>6 DEF Next

\* Every variable stays in its range, and the running worker has a token.
THEOREM TypeCorrect == Spec => []TypeOK
BY InitType, TypeStep, PTL DEF Spec

(***************************************************************************)
(* Between the first read and the first stat.                              *)
(***************************************************************************)
\* The environment stays what it is.
LEMMA SameEnvironment == [Next]_vars => env' = env
BY DEF Next, Rewrite, ReadInitial, StatInitial, Poll, PollSame, PollChanged,
       Reread, RereadFails, SetToken, SetFails, vars, fileVars

\* Without a rewrite in between, init_cache records the inode of the file it
\* has read.
LEMMA InitialisedStep ==
  ASSUME Quiet, TypeOK, Initialised, [Next]_vars
  PROVE  Initialised'
BY DEF Quiet, Initialised, Next, Rewrite, ReadInitial, StatInitial, Poll,
       PollSame, PollChanged, Reread, RereadFails, SetToken, SetFails,
       vars, fileVars

(***************************************************************************)
(* Without reuse.                                                          *)
(***************************************************************************)
\* A new inode is none that the worker knows.
LEMMA FreshStep ==
  ASSUME ~ReuseInodes, TypeOK, Initialised, FreshInv, [Next]_vars
  PROVE  FreshInv'
<1>1. CASE Rewrite
  BY <1>1 DEF Rewrite, FreshInv, InWorker, TypeOK
<1>2. CASE ReadInitial \/ StatInitial
  BY <1>2 DEF ReadInitial, StatInitial, FreshInv, InWorker, Initialised, fileVars
<1>3. CASE Poll
  BY <1>3 DEF Poll, PollSame, PollChanged, FreshInv, InWorker, fileVars
<1>4. CASE Reread \/ RereadFails
  BY <1>4 DEF Reread, RereadFails, FreshInv, InWorker, fileVars
<1>5. CASE SetToken \/ SetFails
  BY <1>5 DEF SetToken, SetFails, FreshInv, InWorker, fileVars
<1>6. CASE UNCHANGED vars
  BY <1>6 DEF vars, FreshInv, InWorker, fileVars
<1> QED BY <1>1, <1>2, <1>3, <1>4, <1>5, <1>6 DEF Next

(***************************************************************************)
(* With reuse.                                                             *)
(***************************************************************************)
\* One rewrite since the last stat leaves an inode that differs from the one
\* it saw, because both files existed at once.
LEMMA SlowStep ==
  ASSUME ~MayFail, ~RewriteOften, TypeOK, Initialised, SlowInv, [Next]_vars
  PROVE  SlowInv'
<1>1. CASE Rewrite
  BY <1>1 DEF Rewrite, SlowInv, TypeOK
<1>2. CASE ReadInitial \/ StatInitial
  BY <1>2 DEF ReadInitial, StatInitial, SlowInv, Initialised, fileVars
<1>3. CASE Poll
  BY <1>3 DEF Poll, PollSame, PollChanged, SlowInv, fileVars
<1>4. CASE Reread \/ RereadFails
  BY <1>4 DEF Reread, RereadFails, SlowInv, fileVars
<1>5. CASE SetToken \/ SetFails
  BY <1>5 DEF SetToken, SetFails, SlowInv, fileVars
<1>6. CASE UNCHANGED vars
  BY <1>6 DEF vars, SlowInv, fileVars
<1> QED BY <1>1, <1>2, <1>3, <1>4, <1>5, <1>6 DEF Next

IInv == /\ TypeOK
        /\ Quiet /\ Slow
        /\ Initialised
        /\ ~ReuseInodes => FreshInv
        /\ ~MayFail /\ ~RewriteOften => SlowInv

\* refresh_determinate_token_worker passes over an unchanged inode only when
\* the client has the token of the netrc.
THEOREM PollsMissNothing ==
  ASSUME \A e \in Environments : ~e.early /\ (e.reuse => ~e.fails /\ ~e.often)
  PROVE  Spec => []SameMeansCurrent
<1>1. Init => IInv
  <2> SUFFICES ASSUME Init PROVE IInv
    OBVIOUS
  <2>1. Quiet /\ Slow
    BY DEF Init, Quiet, Slow, RewriteEarly, ReuseInodes, MayFail, RewriteOften
  <2>2. Initialised /\ FreshInv /\ SlowInv
    BY DEF Init, Initialised, FreshInv, InWorker, SlowInv
  <2> QED BY <2>1, <2>2, InitType DEF IInv
<1>2. IInv /\ [Next]_vars => IInv'
  <2> SUFFICES ASSUME IInv, [Next]_vars PROVE IInv'
    OBVIOUS
  <2>1. env' = env
    BY SameEnvironment
  <2>2. /\ RewriteEarly' = RewriteEarly /\ RewriteOften' = RewriteOften
        /\ ReuseInodes' = ReuseInodes /\ MayFail' = MayFail
    BY <2>1 DEF RewriteEarly, RewriteOften, ReuseInodes, MayFail
  <2>3. Quiet' /\ Slow'
    BY <2>2 DEF IInv, Quiet, Slow
  <2>4. TypeOK' /\ Initialised'
    BY TypeStep, InitialisedStep DEF IInv
  <2>5. ~ReuseInodes' => FreshInv'
    BY <2>2, FreshStep DEF IInv
  <2>6. ~MayFail' /\ ~RewriteOften' => SlowInv'
    BY <2>2, SlowStep DEF IInv
  <2> QED BY <2>3, <2>4, <2>5, <2>6 DEF IInv
<1>3. IInv => SameMeansCurrent
  BY DEF IInv, Slow, FreshInv, InWorker, SlowInv, SameMeansCurrent
<1> QED BY <1>1, <1>2, <1>3, PTL DEF Spec
=============================================================================
