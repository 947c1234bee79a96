------------------------------- MODULE Startup -------------------------------
(***************************************************************************)
(* main_cli of magic-nix-cache/src/main.rs, with init_cache of flakehub.rs *)
(* and setup_legacy_post_build_hook of pbh.rs: which caches are used, what *)
(* is written to the user's nix.conf and netrc, and when the workflow is   *)
(* told that the server is up.                                             *)
(*                                                                         *)
(* Nix reads nix.conf at any time, and the file outlives the process: the  *)
(* program only ever appends to it, and may stop between any two steps,    *)
(* because `?` ends main_cli or because it is killed.  It may be started   *)
(* again in the same job, with other arguments and the files that are      *)
(* there.                                                                  *)
(***************************************************************************)
EXTENDS Integers, Sequences

CONSTANT MaxRuns   \* model bound: how often the program is started

ASSUME RunsAssumption == MaxRuns \in Nat \ {0}

Trinary == {"noPreference", "enabled", "disabled"}
Environments == {"github", "gitlab", "other"}
Arguments == [gha : Trinary, flakehub : Trinary, netrc : BOOLEAN]
Places == {"tmp", "store"}

VARIABLES
  environment, \* env::Environment::determine()
  dnixd,       \* the socket of determinate-nixd exists
  userNetrc,   \* the file at --flakehub-api-server-netrc exists
  cacheEntry,  \* it has an entry for the cache server
  conf,        \* the lines of nix.conf, each with the run that wrote it
  scripts,     \* the post-build hooks that exist, as the lines that name them
  executable,  \* those that are executable
  run,         \* how often the program was started
  args,        \* its arguments
  pc,          \* where main_cli is
  bound,       \* listener
  auth,        \* flakehub_auth_method
  worker,      \* which token refresh worker was spawned
  flakehub,    \* flakehub_state is there
  gha,         \* gha_cache is there
  subscribed,  \* the task that takes build events was spawned
  notified     \* how the workflow was told

envVars == <<environment, dnixd, userNetrc>>
fileVars == <<cacheEntry, conf, scripts, executable>>
cacheVars == <<auth, worker, flakehub, gha>>
procVars == <<bound, cacheVars, subscribed, notified>>
vars == <<envVars, fileVars, run, args, pc, procVars>>

Idle ==
  /\ bound = FALSE /\ auth = "none" /\ worker = "none"
  /\ flakehub = FALSE /\ gha = FALSE /\ subscribed = FALSE /\ notified = {}

Init ==
  /\ environment \in Environments /\ dnixd \in BOOLEAN
  /\ userNetrc \in BOOLEAN /\ cacheEntry \in BOOLEAN
  /\ cacheEntry => userNetrc
  /\ conf = <<>> /\ scripts = {} /\ executable = {}
  /\ run = 0 /\ pc = "off"
  /\ args = [gha |-> "noPreference", flakehub |-> "noPreference", netrc |-> FALSE]
  /\ Idle

Goto(from, to) == pc = from /\ pc' = to
Line(what) == [what |-> what, run |-> run]
Write(line) == conf' = Append(conf, line)

(***************************************************************************)
(* The process begins and ends.                                            *)
(***************************************************************************)
Launch ==
  /\ run < MaxRuns
  /\ Goto("off", "validate")
  /\ run' = run + 1
  /\ args' \in Arguments
  /\ UNCHANGED <<envVars, fileVars, procVars>>

\* An error, a kill or the shutdown: what is left are the files.
Stop ==
  /\ pc # "off" /\ pc' = "off"
  /\ bound' = FALSE /\ auth' = "none" /\ worker' = "none"
  /\ flakehub' = FALSE /\ gha' = FALSE /\ subscribed' = FALSE /\ notified' = {}
  /\ UNCHANGED <<envVars, fileVars, run, args>>

(***************************************************************************)
(* main_cli, up to the store                                               *)
(***************************************************************************)
\* validate: GitLab CI takes FlakeHub only, and wants it stated.
Permitted(a) ==
  environment = "gitlab" => a.gha # "enabled" /\ a.flakehub = "enabled"

\* Faulty: the arguments are not validated.
BindAnyway ==
  /\ Goto("validate", "conf")
  /\ bound' = TRUE
  /\ UNCHANGED <<envVars, fileVars, run, args, cacheVars, subscribed, notified>>

Bind ==
  /\ Permitted(args)
  /\ Goto("validate", "conf")
  /\ bound' = TRUE
  /\ UNCHANGED <<envVars, fileVars, run, args, cacheVars, subscribed, notified>>

\* "always enable fallback, first"; then the store is connected.
OpenConf ==
  /\ Goto("conf", "auth")
  /\ Write(Line("fallback"))
  /\ UNCHANGED <<envVars, cacheEntry, scripts, executable, run, args, procVars>>

(***************************************************************************)
(* FlakeHub                                                                *)
(***************************************************************************)
\* The match over the preference, the netrc and determinate-nixd.  Without
\* any of them --use-flakehub is an error.
ChooseAuth ==
  /\ ~(args.flakehub = "enabled" /\ ~args.netrc /\ ~dnixd)
  /\ auth' = CASE args.flakehub = "disabled" -> "none"
               [] args.flakehub # "disabled" /\ dnixd -> "nixd"
               [] args.flakehub # "disabled" /\ ~dnixd ->
                    IF args.netrc /\ userNetrc THEN "netrc" ELSE "none"
  /\ Goto("auth", IF auth' = "none" THEN "gha" ELSE "netrc")
  /\ UNCHANGED <<envVars, fileVars, run, args, bound, worker, flakehub, gha, subscribed,
                 notified>>

\* init_cache fails: FlakeHub stays off, what was spawned stays.
InitCacheFails ==
  /\ pc \in {"netrc", "worker", "lookup"} /\ pc' = "gha"
  /\ UNCHANGED <<envVars, fileVars, run, args, procVars>>

\* The netrc gets an entry for the cache server, unless it has one.
AppendEntry ==
  /\ Goto("netrc", "worker")
  /\ cacheEntry' = (cacheEntry \/ auth = "netrc")
  /\ UNCHANGED <<envVars, conf, scripts, executable, run, args, procVars>>

\* Nothing refreshes in GitLab CI, nor a netrc outside GitHub Actions.
SpawnWorker ==
  /\ Goto("worker", "lookup")
  /\ worker' = CASE environment = "gitlab" -> "none"
                 [] environment # "gitlab" /\ auth = "nixd" -> "nixd"
                 [] environment = "github" /\ auth = "netrc" -> "github"
                 [] environment = "other" /\ auth = "netrc" -> "none"
  /\ UNCHANGED <<envVars, fileVars, run, args, bound, auth, flakehub, gha, subscribed,
                 notified>>

\* The project and its cache are found.  Nix learns of the cache here only
\* if determinate-nixd did not tell it.
UseFlakeHub ==
  /\ Goto("lookup", "gha")
  /\ flakehub' = TRUE
  /\ IF auth = "netrc" THEN Write(Line("flakehub")) ELSE UNCHANGED conf
  /\ UNCHANGED <<envVars, cacheEntry, scripts, executable, run, args, bound, auth,
                 worker, gha, subscribed, notified>>

(***************************************************************************)
(* The GitHub Actions Cache                                                *)
(***************************************************************************)
WantsGha == \/ args.gha = "enabled"
            \/ args.gha = "noPreference" /\ ~flakehub

\* With credentials from the environment; without them main_cli fails.
UseGha ==
  /\ WantsGha
  /\ Goto("gha", "hook")
  /\ gha' = TRUE
  /\ Write(Line("gha"))
  /\ UNCHANGED <<envVars, cacheEntry, scripts, executable, run, args, bound, auth,
                 worker, flakehub, subscribed, notified>>

SkipGha ==
  /\ ~WantsGha
  /\ Goto("gha", "hook")
  /\ UNCHANGED <<envVars, fileVars, run, args, procVars>>

(***************************************************************************)
(* Build events: a subscription, or a post-build hook.                     *)
(***************************************************************************)
Subscribe ==
  /\ dnixd
  /\ Goto("hook", "url")
  /\ subscribed' = TRUE
  /\ UNCHANGED <<envVars, fileVars, run, args, bound, cacheVars, notified>>

\* The NamedTempFile is written and kept; until then it removes itself.
WriteScript ==
  /\ ~dnixd
  /\ Goto("hook", "chmod")
  /\ scripts' = scripts \cup {Line("tmp")}
  /\ UNCHANGED <<envVars, cacheEntry, conf, executable, run, args, procVars>>

MakeExecutable ==
  /\ Goto("chmod", "add")
  /\ executable' = executable \cup {Line("tmp")}
  /\ UNCHANGED <<envVars, cacheEntry, conf, scripts, run, args, procVars>>

\* Faulty: the permissions do not come with the copy.
AddPlain ==
  /\ \/ /\ Goto("add", "remove")
        /\ scripts' = scripts \cup {Line("store")}
     \/ Goto("add", "tmp") /\ UNCHANGED scripts
  /\ UNCHANGED <<envVars, cacheEntry, conf, executable, run, args, procVars>>

\* nix store add-path copies the script with its permissions, or it fails
\* and the temporary file is used.
AddPath ==
  /\ \/ /\ Goto("add", "remove")
        /\ scripts' = scripts \cup {Line("store")}
        /\ executable' = IF Line("tmp") \in executable
                         THEN executable \cup {Line("store")} ELSE executable
     \/ Goto("add", "tmp") /\ UNCHANGED <<scripts, executable>>
  /\ UNCHANGED <<envVars, cacheEntry, conf, run, args, procVars>>

RemoveTmp ==
  /\ Goto("remove", "store")
  /\ scripts' = scripts \ {Line("tmp")} /\ executable' = executable \ {Line("tmp")}
  /\ UNCHANGED <<envVars, cacheEntry, conf, run, args, procVars>>

ConfigureHook ==
  /\ pc \in Places /\ pc' = "url"
  /\ Write(Line(pc))
  /\ UNCHANGED <<envVars, cacheEntry, scripts, executable, run, args, procVars>>

(***************************************************************************)
(* The workflow is told, and requests are answered.                        *)
(***************************************************************************)
Notify(how, from, to) ==
  /\ Goto(from, to)
  /\ notified' \in {notified, notified \cup {how}}   \* if it was asked for
  /\ UNCHANGED <<envVars, fileVars, run, args, bound, cacheVars, subscribed>>

\* Faulty: the POST does not wait for the hook.
NotifyEarly ==
  \/ Notify("url", "url", "file")
  \/ Notify("url", "hook", "hook")

NotifyUrl == Notify("url", "url", "file")
NotifyFile == Notify("file", "file", "serve")

FlakeHub == ChooseAuth \/ AppendEntry \/ SpawnWorker \/ UseFlakeHub \/ InitCacheFails
Gha == UseGha \/ SkipGha
BuildHook == \/ Subscribe \/ WriteScript \/ MakeExecutable \/ AddPath \/ RemoveTmp
             \/ ConfigureHook

Next == \/ Launch \/ Stop \/ Bind \/ OpenConf
        \/ FlakeHub \/ Gha \/ BuildHook \/ NotifyUrl \/ NotifyFile

Spec == Init /\ [][Next]_vars

(***************************************************************************)
(* Properties.                                                             *)
(***************************************************************************)
Pcs == {"off", "validate", "conf", "auth", "netrc", "worker", "lookup", "gha", "hook",
        "chmod", "add", "remove", "tmp", "store", "url", "file", "serve"}
Lines == [what : {"fallback", "flakehub", "gha"} \cup Places, run : 1 .. MaxRuns]
IsHook(line) == line.what \in Places
Hooks == {line \in Lines : IsHook(line)}

\* Every variable stays in its range; a process that is gone holds nothing,
\* and one that has bound its address was permitted to.
TypeOK ==
  /\ environment \in Environments /\ dnixd \in BOOLEAN
  /\ userNetrc \in BOOLEAN /\ cacheEntry \in BOOLEAN
  /\ conf \in Seq(Lines) /\ pc \in Pcs
  /\ scripts \subseteq Hooks /\ executable \subseteq scripts
  /\ run \in 0 .. MaxRuns /\ args \in Arguments
  /\ auth \in {"none", "nixd", "netrc"} /\ worker \in {"none", "nixd", "github"}
  /\ bound \in BOOLEAN /\ flakehub \in BOOLEAN /\ gha \in BOOLEAN /\ subscribed \in BOOLEAN
  /\ notified \subseteq {"url", "file"}
  /\ pc = "off" => Idle
  /\ bound => Permitted(args)

\* nix.conf is safe to use whenever Nix reads it, between any two steps and
\* after any number of runs: a cache that does not answer is fallen back
\* from, FlakeHub's cache is named only when the netrc can log in to it, and
\* a post-build hook is there and can be run, or every build would fail.
ConfigIsSafe ==
  \A i \in 1 .. Len(conf) :
    /\ conf[i].what \in {"flakehub", "gha"} => \E j \in 1 .. i - 1 : conf[j].what = "fallback"
    /\ conf[i].what = "flakehub" => cacheEntry
    /\ IsHook(conf[i]) => conf[i] \in executable

Wrote(line) == \E i \in 1 .. Len(conf) : conf[i] = line
LastHook(line) == /\ conf # <<>>
                  /\ \E i \in 1 .. Len(conf) : /\ conf[i] = line
                                               /\ \A j \in i + 1 .. Len(conf) : ~IsHook(conf[j])

\* A workflow that was told of the startup finds its address bound, nix.conf
\* complete for the caches in use, and build events reaching this process
\* and no earlier one; unless the user turned the GitHub Actions Cache off
\* there is a cache, and a token that can be refreshed has its worker.
NotifiedMeansReady ==
  notified # {} =>
    /\ bound
    /\ gha => Wrote(Line("gha"))
    /\ flakehub /\ ~dnixd => Wrote(Line("flakehub"))
    /\ IF dnixd THEN subscribed ELSE \E place \in Places : LastHook(Line(place))
    /\ args.gha # "disabled" => gha \/ flakehub
    /\ flakehub /\ environment = "github" => worker # "none"
=============================================================================
