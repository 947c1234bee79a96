---------------------------- MODULE NetrcRefresh ----------------------------
(***************************************************************************)
(* The FlakeHub token when determinate-nixd owns it: init_cache of         *)
(* magic-nix-cache/src/flakehub.rs reads the netrc and remembers its       *)
(* inode, and refresh_determinate_token_worker polls the inode to learn    *)
(* that determinate-nixd has renamed a new file into place.                *)
(*                                                                         *)
(* The program never compares contents, so what a poll can miss depends on *)
(* when the file is replaced and on whether the file system gives a freed  *)
(* inode out again; the environment, fixed at the start, says which of     *)
(* that happens.                                                           *)
(***************************************************************************)
EXTENDS Integers

CONSTANTS Inodes,       \* inodes of the file system
          MaxToken,     \* model bound: how often the netrc is rewritten
          Environments, \* what the program may meet
          NoToken       \* no password

Tokens == 0 .. MaxToken

ASSUME TokenAssumption == MaxToken \in Nat /\ NoToken \notin Tokens
ASSUME EnvironmentsAssumption ==
  Environments \subseteq [early : BOOLEAN, often : BOOLEAN, reuse : BOOLEAN, fails : BOOLEAN]

VARIABLES
  env,     \* one of the environments
  pc,      \* "read" and "stat" in init_cache, then the worker's place
  token,   \* the password in the netrc, numbered in order of issue
  ino,     \* the inode of the netrc
  used,    \* inodes given out so far
  recent,  \* rewritten since the last poll
  inode,   \* the worker's variable inode
  seen,    \* current_inode
  got,     \* flakehub_password
  api      \* the token of the ApiClient

fileVars == <<env, token, ino, used>>
vars == <<pc, fileVars, recent, inode, seen, got, api>>

RewriteEarly == env.early \* also between the first read and the first stat
RewriteOften == env.often \* also twice between two polls
ReuseInodes == env.reuse  \* a freed inode may be given out again
MayFail == env.fails      \* reading and storing the token may fail

Init ==
  /\ env \in Environments
  /\ pc = "read"
  /\ token = 0
  /\ ino \in Inodes /\ used = {ino}
  /\ recent = FALSE
  /\ inode = ino /\ seen = ino
  /\ got = NoToken /\ api = NoToken

(***************************************************************************)
(* determinate-nixd                                                        *)
(***************************************************************************)
\* A new file, which exists beside the old one, is renamed over it.
Rewrite ==
  /\ token < MaxToken
  /\ pc = "stat" => RewriteEarly
  /\ recent => RewriteOften
  /\ \E i \in Inodes :
       /\ i # ino
       /\ i \in used => ReuseInodes
       /\ ino' = i /\ used' = used \cup {i}
  /\ token' = token + 1
  /\ recent' = TRUE
  /\ UNCHANGED <<env, pc, inode, seen, got, api>>

(***************************************************************************)
(* init_cache                                                              *)
(***************************************************************************)
ReadInitial ==
  /\ pc = "read"
  /\ \/ pc' = "stat" /\ api' = token
     \/ pc' = "dead" /\ UNCHANGED api
  /\ UNCHANGED <<fileVars, recent, inode, seen, got>>

StatInitial ==
  /\ pc = "stat"
  /\ pc' \in {"sleep", "dead"}
  /\ inode' = ino
  /\ recent' = FALSE
  /\ UNCHANGED <<fileVars, seen, got, api>>

(***************************************************************************)
(* refresh_determinate_token_worker                                        *)
(***************************************************************************)
\* A failed stat is logged and polled again.
PollSame ==
  /\ pc = "sleep"
  /\ ino = inode
  /\ recent' = FALSE
  /\ UNCHANGED <<pc, fileVars, inode, seen, got, api>>

\* Faulty: the inode is recorded before the token has been taken over.
PollRecords ==
  /\ pc = "sleep"
  /\ ino # inode
  /\ pc' = "reread"
  /\ inode' = ino /\ seen' = ino
  /\ recent' = FALSE
  /\ UNCHANGED <<fileVars, got, api>>

PollChanged ==
  /\ pc = "sleep"
  /\ ino # inode
  /\ pc' = "reread"
  /\ seen' = ino
  /\ recent' = FALSE
  /\ UNCHANGED <<fileVars, inode, got, api>>

\* extract_info_from_netrc reads the file that is there when it is opened.
Reread ==
  /\ pc = "reread"
  /\ pc' = "set"
  /\ got' = token
  /\ UNCHANGED <<fileVars, recent, inode, seen, api>>

\* Faulty: a netrc without a password sets an empty token.
RereadDefaults ==
  /\ MayFail
  /\ pc = "reread"
  /\ pc' = "set"
  /\ got' = NoToken
  /\ UNCHANGED <<fileVars, recent, inode, seen, api>>

\* The inode stays as it was, so that the next poll tries again.
RereadFails ==
  /\ MayFail
  /\ pc = "reread"
  /\ pc' = "sleep"
  /\ UNCHANGED <<fileVars, recent, inode, seen, got, api>>

\* Faulty: the inode recorded is the one of now.
SetTokenRestats ==
  /\ pc = "set"
  /\ pc' = "sleep"
  /\ api' = got
  /\ inode' = ino
  /\ UNCHANGED <<fileVars, recent, seen, got>>

\* What is recorded is the inode from before the read.
SetToken ==
  /\ pc = "set"
  /\ pc' = "sleep"
  /\ api' = got
  /\ inode' = seen
  /\ UNCHANGED <<fileVars, recent, seen, got>>

SetFails ==
  /\ MayFail
  /\ pc = "set"
  /\ pc' = "sleep"
  /\ UNCHANGED <<fileVars, recent, inode, seen, got, api>>

Poll == PollSame \/ PollChanged
Next == \/ Rewrite \/ ReadInitial \/ StatInitial \/ Poll
        \/ Reread \/ RereadFails \/ SetToken \/ SetFails

Spec == Init /\ [][Next]_vars

\* The sleeps end, and neither reading nor storing the token fails for ever.
Fairness == /\ WF_vars(ReadInitial) /\ WF_vars(StatInitial) /\ WF_vars(Poll)
            /\ WF_vars(Reread \/ RereadFails) /\ SF_vars(Reread)
            /\ WF_vars(SetToken \/ SetFails) /\ SF_vars(SetToken)

FairSpec == Spec /\ Fairness

(***************************************************************************)
(* Properties.                                                             *)
(***************************************************************************)
\* Every variable stays in its range; the client has a token whenever the
\* worker runs, and it is one that was in the netrc.
TypeOK ==
  /\ env \in Environments
  /\ pc \in {"read", "stat", "sleep", "reread", "set", "dead"}
  /\ token \in Tokens
  /\ used \subseteq Inodes /\ {ino, inode, seen} \subseteq used
  /\ recent \in BOOLEAN
  /\ got \in Tokens \cup {NoToken}
  /\ pc = "set" => got \in Tokens
  /\ IF pc \in {"read", "dead"} THEN api \in Tokens \cup {NoToken} ELSE api \in Tokens

\* "we'll refresh the auth info whenever the netrc file is rewritten": a poll
\* that sees no change has not missed one.
SameMeansCurrent == pc = "sleep" /\ inode = ino => api = token

\* Once determinate-nixd stops rewriting, the client gets the last token.
CatchesUp == <>[](pc = "dead" \/ api = token)
=============================================================================
