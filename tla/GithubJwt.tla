------------------------------ MODULE GithubJwt ------------------------------
(***************************************************************************)
(* The FlakeHub token in GitHub Actions without determinate-nixd:          *)
(* init_cache of magic-nix-cache/src/flakehub.rs takes the token from the  *)
(* user's netrc, gives the cache server an entry with it and spawns        *)
(* refresh_github_actions_jwt_worker, which asks GitHub for a new token    *)
(* every two minutes and stores it in the netrc, for Nix, and in the API   *)
(* client, for the push session.                                           *)
(*                                                                         *)
(* Time passes in ticks, and there is no clock: a token is known by its    *)
(* age, which is capped where the token has expired, and what sleeps or    *)
(* waits has a timer.  The worker sleeps between two requests, so that     *)
(* tokens of one age are one token.                                        *)
(***************************************************************************)
EXTENDS Integers

CONSTANTS
  Life,     \* "GitHub Actions JWTs are only valid for 5 minutes"
  Refresh,  \* next_refresh, two minutes
  Retry,    \* the sleep after a failure, ten seconds
  Latency,  \* environment: how long a request with its file accesses takes
  Outage,   \* environment: how long they may go on failing
  Absent,   \* the netrc has no entry for the host
  Foreign   \* the host's password is not the token

ASSUME PeriodAssumption == /\ {Life, Latency, Outage} \subseteq Nat
                           /\ {Refresh, Retry} \subseteq Nat \ {0}
\* A token lives through the sleep, the outage, a retry and two requests.
ASSUME MarginAssumption == 2 * Latency + Refresh + Outage + Retry <= Life

Ages == 0 .. Life
ASSUME PasswordAssumption == {Absent, Foreign} \cap Ages = {} /\ Absent # Foreign

Hosts == {"api", "cache"}   \* the API server and the cache server
Texts == [Hosts -> Ages \cup {Absent, Foreign}]   \* contents of a netrc
Truncated == [h \in Hosts |-> Absent]

VARIABLES
  init,    \* where init_cache is
  worker,  \* where the refresh worker is
  timer,   \* what is left of its sleep, or of the time its request takes
  late,    \* how long ago the refresh was due
  netrc,   \* the user's file
  tmp,     \* the file next to it
  text,    \* new_netrc_contents
  jwt,     \* the worker's github_jwt
  new,     \* new_github_jwt_string
  api,     \* the token of the ApiClient
  owned    \* history: hosts whose entry was the token when the worker started

tokenVars == <<netrc, tmp, text, jwt, new, api>>
vars == <<init, worker, timer, late, tokenVars, owned>>

Init ==
  /\ init = "read" /\ worker = "none"
  /\ timer = 0 /\ late = 0
  /\ \E age \in 0 .. Latency :
       /\ jwt = age /\ new = age /\ api = age
       /\ netrc \in {[h \in Hosts |-> IF h = "api" THEN age ELSE p] :
                       p \in {age, Absent, Foreign}}
  /\ tmp = Truncated /\ text = Truncated
  /\ owned = {}

(***************************************************************************)
(* init_cache with FlakeHubAuthSource::Netrc                               *)
(***************************************************************************)
ReadInitial ==
  /\ init = "read"
  /\ \/ init' = "append" /\ jwt' = netrc["api"] /\ api' = netrc["api"]
     \/ init' = "failed" /\ UNCHANGED <<jwt, api>>
  /\ UNCHANGED <<worker, timer, late, netrc, tmp, text, new, owned>>

\* An entry for the cache server, unless there is one; then the worker.
AppendEntry ==
  /\ init = "append"
  /\ \/ /\ init' = "lookup"
        /\ netrc' = [netrc EXCEPT !["cache"] = IF @ = Absent THEN jwt ELSE @]
        /\ owned' = {h \in Hosts : netrc'[h] = jwt}
        /\ worker' = "sleep" /\ timer' = Refresh
     \/ /\ init' = "failed"
        /\ UNCHANGED <<worker, timer, netrc, owned>>
  /\ UNCHANGED <<late, tmp, text, jwt, new, api>>

\* The project and the configuration of its cache.  A failure turns FlakeHub
\* Cache off; the worker stays.
LookUp ==
  /\ init = "lookup"
  /\ init' \in {"used", "failed"}
  /\ UNCHANGED <<worker, timer, late, tokenVars, owned>>

(***************************************************************************)
(* refresh_github_actions_jwt_worker                                       *)
(***************************************************************************)
Attempt == {"request", "read", "create", "write", "rename", "set"}
Running == Attempt \cup {"sleep", "retry"}

\* The sleep is over.
Wake ==
  /\ worker \in {"sleep", "retry"} /\ timer = 0
  /\ worker' = "request" /\ timer' = Latency
  /\ UNCHANGED <<init, late, tokenVars, owned>>

Goto(from, to) == /\ worker = from /\ worker' = to
                  /\ UNCHANGED <<init, timer, late, owned>>

\* Faulty: an answer without a token is taken for an empty one.
TokenDefaults ==
  /\ Goto("request", "read")
  /\ new' \in {0, Absent}
  /\ UNCHANGED <<netrc, tmp, text, jwt, api>>

\* The token was issued after the request began.
TokenReceived ==
  /\ Goto("request", "read")
  /\ new' \in 0 .. (Latency - timer)
  /\ UNCHANGED <<netrc, tmp, text, jwt, api>>

Replace(contents, old, by) ==
  [h \in Hosts |-> IF contents[h] = old THEN by ELSE contents[h]]

ReadNetrc ==
  /\ Goto("read", "create")
  /\ text' = Replace(netrc, jwt, new)
  /\ UNCHANGED <<netrc, tmp, jwt, new, api>>

\* Faulty: the netrc itself is written.
CreateInPlace ==
  /\ Goto("create", "write")
  /\ netrc' = Truncated
  /\ UNCHANGED <<tmp, text, jwt, new, api>>

\* fs::write creates or truncates, and writes.
CreateTmp ==
  /\ Goto("create", "write")
  /\ tmp' = Truncated
  /\ UNCHANGED <<netrc, text, jwt, new, api>>

WriteTmp ==
  /\ Goto("write", "rename")
  /\ tmp' = text
  /\ UNCHANGED <<netrc, text, jwt, new, api>>

Rename ==
  /\ Goto("rename", "set")
  /\ netrc' = tmp
  /\ UNCHANGED <<tmp, text, jwt, new, api>>

\* Faulty: success is followed by the sleep of a failure.
SetTokenRetries ==
  /\ worker = "set"
  /\ jwt' = new /\ api' = new
  /\ worker' = "retry" /\ timer' = Retry /\ late' = 0
  /\ UNCHANGED <<init, netrc, tmp, text, new, owned>>

SetToken ==
  /\ worker = "set"
  /\ jwt' = new /\ api' = new
  /\ worker' = "sleep" /\ timer' = Refresh /\ late' = 0
  /\ UNCHANGED <<init, netrc, tmp, text, new, owned>>

\* `?` ends the worker; the netrc has the new token, the client the old one.
SetFails ==
  /\ Goto("set", "dead")
  /\ jwt' = new
  /\ UNCHANGED <<netrc, tmp, text, new, api>>

\* Faulty: a failure waits for the next refresh.
FailSleeps ==
  /\ worker \in Attempt \ {"set"}
  /\ late < Outage
  /\ worker' = "retry" /\ timer' = Refresh
  /\ UNCHANGED <<init, late, tokenVars, owned>>

\* Any step of rewrite_github_actions_token fails; a token that was received
\* is forgotten.
Fail ==
  /\ worker \in Attempt \ {"set"}
  /\ late < Outage
  /\ worker' = "retry" /\ timer' = Retry
  /\ UNCHANGED <<init, late, tokenVars, owned>>

(***************************************************************************)
(* Time, and the end of the process.                                       *)
(***************************************************************************)
Older(age) == IF age < Life THEN age + 1 ELSE Life
Aged(contents) ==
  [h \in Hosts |-> IF contents[h] \in Ages THEN Older(contents[h]) ELSE contents[h]]

\* A sleep is no longer than its duration and an attempt ends within Latency;
\* the token was issued within Latency of the worker's start.
Tick ==
  /\ worker \in Running => timer > 0
  /\ init \in {"read", "append"} => netrc["api"] < Latency
  /\ timer' = IF timer > 0 THEN timer - 1 ELSE 0
  /\ late' = IF worker \in Attempt \cup {"retry"} THEN late + 1 ELSE late
  /\ netrc' = Aged(netrc) /\ tmp' = Aged(tmp) /\ text' = Aged(text)
  /\ jwt' = Older(jwt) /\ new' = Older(new) /\ api' = Older(api)
  /\ UNCHANGED <<init, worker, owned>>

\* The runtime drops the worker wherever it awaits.
Exit ==
  /\ worker \in Running
  /\ worker' = "gone"
  /\ UNCHANGED <<init, timer, late, tokenVars, owned>>

Rewrite == TokenReceived \/ ReadNetrc \/ CreateTmp \/ WriteTmp \/ Rename \/ Fail
Next == \/ ReadInitial \/ AppendEntry \/ LookUp
        \/ Wake \/ Rewrite \/ SetToken \/ SetFails \/ Tick \/ Exit

Spec == Init /\ [][Next]_vars

\* Time goes on and the worker is run.
Fairness == WF_vars(Tick) /\ WF_vars(Wake \/ Rewrite \/ SetToken)

FairSpec == Spec /\ Fairness

(***************************************************************************)
(* Properties.                                                             *)
(***************************************************************************)
\* Every variable stays in its range: what is received, stored and compared
\* are tokens, and the worker exists only after its netrc has both entries.
TypeOK ==
  /\ init \in {"read", "append", "lookup", "used", "failed"}
  /\ worker \in Running \cup {"none", "dead", "gone"}
  /\ worker = "none" <=> owned = {}
  /\ init \in {"read", "append"} => worker = "none"
  /\ timer \in Nat /\ late \in Nat
  /\ {netrc, tmp, text} \subseteq Texts
  /\ {jwt, new, api} \subseteq Ages
  /\ owned \subseteq Hosts

\* "to ensure pushing / pulling doesn't stop working": as long as the worker
\* runs, neither the client nor any entry of the netrc that came from GitHub
\* has an expired token.
TokensLive ==
  worker \in Running => /\ api < Life
                        /\ \A h \in owned : netrc[h] < Life

\* The netrc is whole at any time, entries that are not the worker's are
\* kept, and those that are have the token that the worker will look for
\* next; only between the rename and the end of the step they are ahead.
Entries(t) == [h \in Hosts |-> IF h \in owned THEN t ELSE Foreign]
InStep ==
  worker # "none" => \/ netrc = Entries(jwt) /\ worker # "set"
                     \/ netrc = Entries(new) /\ worker \in {"set", "gone"}

\* A refresh that is due gets done, however often it fails.
RefreshEnds == worker = "request" ~> worker \in {"sleep", "dead", "gone"}
=============================================================================
