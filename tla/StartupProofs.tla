----------------------------- MODULE StartupProofs -----------------------------
(***************************************************************************)
(* Theorems about the startup for any number of runs, whatever errors and  *)
(* kills each of them ended with: nix.conf is safe to read between any two *)
(* steps, and a workflow that was told of the startup finds it complete.   *)
(***************************************************************************)
EXTENDS Startup, TLAPS

USE DEF Goto, envVars, fileVars, cacheVars, procVars

(***************************************************************************)
(* The inductive invariant.                                                *)
(***************************************************************************)
\* Where main_cli knows its caches, and where builds reach this process.
Hooking == {"hook", "chmod", "add", "remove", "tmp", "store"}
Telling == {"url", "file", "serve"}

\* A process belongs to the run that has begun last, and lines to runs that
\* have begun.
Runs == /\ pc # "off" => run >= 1
        /\ \A i \in 1 .. Len(conf) : conf[i].run <= run

\* "always enable fallback, first": it precedes what is written afterwards.
FallbackFirst ==
  /\ pc \notin {"off", "validate", "conf"} =>
       \E i \in 1 .. Len(conf) : conf[i].what = "fallback"
  /\ \A i \in 1 .. Len(conf) : conf[i].what \in {"flakehub", "gha"} =>
       \E j \in 1 .. i - 1 : conf[j].what = "fallback"

\* The netrc has its entry before the cache is named.
LoginFirst ==
  /\ pc \in {"worker", "lookup"} /\ auth = "netrc" => cacheEntry
  /\ \A i \in 1 .. Len(conf) : conf[i].what = "flakehub" => cacheEntry

\* How far the script of this run has come.
ScriptReady ==
  /\ pc = "chmod" => Line("tmp") \in scripts
  /\ pc \in {"add", "tmp"} => Line("tmp") \in executable
  /\ pc \in {"remove", "store"} => Line("store") \in executable

\* What nix.conf names is never taken away: the temporary script that a run
\* removes is named by no line, because a run names its script last.
HooksStay ==
  /\ \A i \in 1 .. Len(conf) : IsHook(conf[i]) => conf[i] \in executable
  /\ \A i \in 1 .. Len(conf) :
       IsHook(conf[i]) /\ conf[i].run = run => pc \in Telling \cup {"off"}

\* What this run has decided, and what it has written of that.
Decided ==
  /\ auth = "nixd" => dnixd
  /\ pc \in {"validate", "conf", "auth", "netrc", "worker", "lookup"} => ~flakehub
  /\ pc \in {"netrc", "worker", "lookup"} => auth # "none"
  /\ pc \notin {"off", "validate"} => bound
  /\ pc = "lookup" \/ flakehub => (environment = "github" => worker # "none")
  /\ flakehub /\ ~dnixd => Wrote(Line("flakehub"))
  /\ gha => Wrote(Line("gha"))
  /\ pc \in Hooking \cup Telling /\ args.gha # "disabled" => gha \/ flakehub

\* Build events reach this process: its hook is the last that Nix reads.
Reached ==
  /\ pc \in Telling =>
       IF dnixd THEN subscribed ELSE \E place \in Places : LastHook(Line(place))
  /\ pc \in {"chmod", "add", "remove"} \cup Places => ~dnixd
  /\ notified # {} => pc \in Telling

IInv == /\ TypeOK
        /\ Runs
        /\ FallbackFirst
        /\ LoginFirst
        /\ ScriptReady
        /\ HooksStay
        /\ Decided
        /\ Reached
(***************************************************************************)
(* Lines.                                                                  *)
(***************************************************************************)
\* What the lines of a running process are.
LEMMA LineTypes ==
  ASSUME TypeOK, Runs, pc # "off",
         NEW what \in {"fallback", "flakehub", "gha"} \cup Places
  PROVE  /\ Line(what) \in Lines
         /\ Line(what).what = what /\ Line(what).run = run
         /\ IsHook(Line(what)) <=> what \in Places
         /\ what \in Places => Line(what) \in Hooks
BY RunsAssumption DEF Line, Lines, Hooks, IsHook, Places, TypeOK, Runs

\* A line that is written comes last and moves no other.
LEMMA Written ==
  ASSUME TypeOK, Runs, pc # "off",
         NEW what \in {"fallback", "flakehub", "gha"} \cup Places, Write(Line(what))
  PROVE  /\ conf' \in Seq(Lines)
         /\ Len(conf) \in Nat /\ Len(conf') = Len(conf) + 1
         /\ conf'[Len(conf) + 1] = Line(what)
         /\ \A i \in 1 .. Len(conf) : conf'[i] = conf[i]
BY LineTypes DEF TypeOK, Write

(***************************************************************************)
(* One lemma for each part of the invariant, one step for each action.     *)
(***************************************************************************)
\* Every variable stays in its range.
LEMMA TypeStep ==
  ASSUME TypeOK, Runs, ScriptReady, Decided, Next
  PROVE  TypeOK'
<1>1. CASE Launch
  BY <1>1, RunsAssumption DEF Launch, TypeOK, Pcs, Idle, Permitted
<1>2. CASE Stop
  BY <1>2 DEF Stop, TypeOK, Pcs, Idle, Permitted
<1>3. CASE Bind
  BY <1>3 DEF Bind, TypeOK, Pcs, Idle, Permitted
<1>4. CASE OpenConf
  BY <1>4, Written, LineTypes DEF OpenConf, TypeOK, Pcs, Idle, Permitted
<1>5. CASE ChooseAuth
  BY <1>5 DEF ChooseAuth, TypeOK, Pcs, Idle, Permitted
<1>6. CASE AppendEntry
  BY <1>6 DEF AppendEntry, TypeOK, Pcs, Idle, Permitted
<1>7. CASE SpawnWorker
  BY <1>7 DEF SpawnWorker, TypeOK, Pcs, Idle, Permitted, Decided, Environments
<1>8. CASE UseFlakeHub
  BY <1>8, Written, LineTypes DEF UseFlakeHub, TypeOK, Pcs, Idle, Permitted
<1>9. CASE InitCacheFails
  BY <1>9 DEF InitCacheFails, TypeOK, Pcs, Idle, Permitted
<1>10. CASE UseGha
  BY <1>10, Written, LineTypes DEF UseGha, TypeOK, Pcs, Idle, Permitted
<1>11. CASE SkipGha
  BY <1>11 DEF SkipGha, TypeOK, Pcs, Idle, Permitted
<1>12. CASE Subscribe
  BY <1>12 DEF Subscribe, TypeOK, Pcs, Idle, Permitted
<1>13. CASE WriteScript
  BY <1>13, LineTypes DEF WriteScript, TypeOK, Pcs, Idle, Permitted, Places
<1>14. CASE MakeExecutable
  BY <1>14 DEF MakeExecutable, TypeOK, Pcs, Idle, Permitted, ScriptReady
<1>15. CASE AddPath
  <2>1. pc = "add" /\ Line("store") \in Hooks
    BY <1>15, LineTypes DEF AddPath, Places
  <2>2. scripts' \subseteq Hooks /\ executable' \subseteq scripts'
    BY <1>15, <2>1 DEF AddPath, TypeOK
  <2>3. pc' \in {"remove", "tmp"}
    BY <1>15 DEF AddPath
  <2> QED BY <1>15, <2>2, <2>3 DEF AddPath, TypeOK, Pcs, Permitted
<1>16. CASE RemoveTmp
  BY <1>16 DEF RemoveTmp, TypeOK, Pcs, Idle, Permitted
<1>17. CASE ConfigureHook
  <2>1. PICK place \in Places : pc = place /\ Write(Line(place))
    BY <1>17 DEF ConfigureHook
  <2>2. conf' \in Seq(Lines) /\ pc # "off"
    BY <2>1, Written DEF Places
  <2> QED BY <1>17, <2>2 DEF ConfigureHook, TypeOK, Pcs, Permitted
<1>18. CASE NotifyUrl
  BY <1>18 DEF NotifyUrl, Notify, TypeOK, Pcs, Idle, Permitted
<1>19. CASE NotifyFile
  BY <1>19 DEF NotifyFile, Notify, TypeOK, Pcs, Idle, Permitted
<1> QED
  BY <1>1, <1>2, <1>3, <1>4, <1>5, <1>6, <1>7, <1>8, <1>9, <1>10, <1>11, <1>12, <1>13, <1>14, <1>15, <1>16, <1>17, <1>18, <1>19
     DEF Next, FlakeHub, Gha, BuildHook

\* A line has the number of the run that writes it.
LEMMA RunsStep ==
  ASSUME TypeOK, Runs, Next
  PROVE  Runs'
<1>1. CASE Launch
  <2>1. \A i \in 1 .. Len(conf) : conf[i] \in Lines
    BY DEF TypeOK
  <2>2. run \in Nat /\ \A line \in Lines : line.run \in Nat
    BY RunsAssumption DEF TypeOK, Lines
  <2> QED BY <1>1, <2>1, <2>2 DEF Launch, Runs
<1>2. CASE Stop
  BY <1>2 DEF Stop, Runs
<1>3. CASE Bind
  BY <1>3 DEF Bind, Runs
<1>4. CASE OpenConf
  BY <1>4, Written, LineTypes, RunsAssumption DEF OpenConf, Runs, TypeOK
<1>5. CASE ChooseAuth
  BY <1>5 DEF ChooseAuth, Runs
<1>6. CASE AppendEntry
  BY <1>6 DEF AppendEntry, Runs
<1>7. CASE SpawnWorker
  BY <1>7 DEF SpawnWorker, Runs
<1>8. CASE UseFlakeHub
  BY <1>8, Written, LineTypes, RunsAssumption DEF UseFlakeHub, Runs, TypeOK
<1>9. CASE InitCacheFails
  BY <1>9 DEF InitCacheFails, Runs
<1>10. CASE UseGha
  BY <1>10, Written, LineTypes, RunsAssumption DEF UseGha, Runs, TypeOK
<1>11. CASE SkipGha
  BY <1>11 DEF SkipGha, Runs
<1>12. CASE Subscribe
  BY <1>12 DEF Subscribe, Runs
<1>13. CASE WriteScript
  BY <1>13 DEF WriteScript, Runs
<1>14. CASE MakeExecutable
  BY <1>14 DEF MakeExecutable, Runs
<1>15. CASE AddPath
  BY <1>15 DEF AddPath, Runs
<1>16. CASE RemoveTmp
  BY <1>16 DEF RemoveTmp, Runs
<1>17. CASE ConfigureHook
  BY <1>17, Written, LineTypes, RunsAssumption, SMTT(30) DEF ConfigureHook, Runs, Places, TypeOK
<1>18. CASE NotifyUrl
  BY <1>18 DEF NotifyUrl, Notify, Runs
<1>19. CASE NotifyFile
  BY <1>19 DEF NotifyFile, Notify, Runs
<1> QED
  BY <1>1, <1>2, <1>3, <1>4, <1>5, <1>6, <1>7, <1>8, <1>9, <1>10, <1>11, <1>12, <1>13, <1>14, <1>15, <1>16, <1>17, <1>18, <1>19
     DEF Next, FlakeHub, Gha, BuildHook

\* Whatever follows the fallback line has it in front.
LEMMA FallbackStep ==
  ASSUME TypeOK, Runs, FallbackFirst, Next
  PROVE  FallbackFirst'
<1>1. CASE Launch
  BY <1>1 DEF Launch, FallbackFirst
<1>2. CASE Stop
  BY <1>2 DEF Stop, FallbackFirst
<1>3. CASE Bind
  BY <1>3 DEF Bind, FallbackFirst
<1>4. CASE OpenConf
  BY <1>4, Written, LineTypes DEF OpenConf, FallbackFirst
<1>5. CASE ChooseAuth
  BY <1>5 DEF ChooseAuth, FallbackFirst
<1>6. CASE AppendEntry
  BY <1>6 DEF AppendEntry, FallbackFirst
<1>7. CASE SpawnWorker
  BY <1>7 DEF SpawnWorker, FallbackFirst
<1>8. CASE UseFlakeHub
  BY <1>8, Written, LineTypes, SMTT(30) DEF UseFlakeHub, FallbackFirst
<1>9. CASE InitCacheFails
  BY <1>9 DEF InitCacheFails, FallbackFirst
<1>10. CASE UseGha
  BY <1>10, Written, LineTypes, SMTT(30) DEF UseGha, FallbackFirst
<1>11. CASE SkipGha
  BY <1>11 DEF SkipGha, FallbackFirst
<1>12. CASE Subscribe
  BY <1>12 DEF Subscribe, FallbackFirst
<1>13. CASE WriteScript
  BY <1>13 DEF WriteScript, FallbackFirst
<1>14. CASE MakeExecutable
  BY <1>14 DEF MakeExecutable, FallbackFirst
<1>15. CASE AddPath
  BY <1>15 DEF AddPath, FallbackFirst
<1>16. CASE RemoveTmp
  BY <1>16 DEF RemoveTmp, FallbackFirst
<1>17. CASE ConfigureHook
  <2>1. pc \in Places /\ pc # "off" /\ Write(Line(pc))
    BY <1>17 DEF ConfigureHook, Places
  <2>2. /\ Len(conf) \in Nat /\ Len(conf') = Len(conf) + 1
        /\ conf'[Len(conf) + 1] = Line(pc) /\ Line(pc).what = pc
        /\ \A i \in 1 .. Len(conf) : conf'[i] = conf[i]
    BY <2>1, Written, LineTypes
  <2>3. PICK k \in 1 .. Len(conf) : conf[k].what = "fallback"
    BY <2>1 DEF FallbackFirst, Places
  <2>4. k \in 1 .. Len(conf') /\ conf'[k].what = "fallback"
    BY <2>2, <2>3
  <2>5. \A i \in 1 .. Len(conf') : conf'[i].what \in {"flakehub", "gha"} =>
          i \in 1 .. Len(conf) /\ conf[i].what \in {"flakehub", "gha"}
    BY <2>1, <2>2 DEF Places
  <2>6. \A i \in 1 .. Len(conf') : conf'[i].what \in {"flakehub", "gha"} =>
          \E j \in 1 .. i - 1 : conf'[j].what = "fallback"
    <3> SUFFICES ASSUME NEW i \in 1 .. Len(conf), conf[i].what \in {"flakehub", "gha"}
                 PROVE  \E j \in 1 .. i - 1 : conf'[j].what = "fallback"
      BY <2>5
    <3>1. PICK j \in 1 .. i - 1 : conf[j].what = "fallback"
      BY DEF FallbackFirst
    <3>2. conf'[j] = conf[j]
      BY <2>2, <3>1
    <3> QED BY <3>1, <3>2
  <2> QED BY <2>4, <2>6 DEF FallbackFirst
<1>18. CASE NotifyUrl
  BY <1>18 DEF NotifyUrl, Notify, FallbackFirst
<1>19. CASE NotifyFile
  BY <1>19 DEF NotifyFile, Notify, FallbackFirst
<1> QED
  BY <1>1, <1>2, <1>3, <1>4, <1>5, <1>6, <1>7, <1>8, <1>9, <1>10, <1>11, <1>12, <1>13, <1>14, <1>15, <1>16, <1>17, <1>18, <1>19
     DEF Next, FlakeHub, Gha, BuildHook

\* No entry is removed, and the cache is named after AppendEntry.
LEMMA LoginStep ==
  ASSUME TypeOK, Runs, LoginFirst, Decided, Next
  PROVE  LoginFirst'
<1>1. CASE Launch
  BY <1>1 DEF Launch, LoginFirst
<1>2. CASE Stop
  BY <1>2 DEF Stop, LoginFirst
<1>3. CASE Bind
  BY <1>3 DEF Bind, LoginFirst
<1>4. CASE OpenConf
  BY <1>4, Written, LineTypes DEF OpenConf, LoginFirst
<1>5. CASE ChooseAuth
  BY <1>5 DEF ChooseAuth, LoginFirst
<1>6. CASE AppendEntry
  BY <1>6 DEF AppendEntry, LoginFirst
<1>7. CASE SpawnWorker
  BY <1>7 DEF SpawnWorker, LoginFirst
<1>8. CASE UseFlakeHub
  BY <1>8, Written, LineTypes DEF UseFlakeHub, LoginFirst
<1>9. CASE InitCacheFails
  BY <1>9 DEF InitCacheFails, LoginFirst
<1>10. CASE UseGha
  BY <1>10, Written, LineTypes DEF UseGha, LoginFirst
<1>11. CASE SkipGha
  BY <1>11 DEF SkipGha, LoginFirst
<1>12. CASE Subscribe
  BY <1>12 DEF Subscribe, LoginFirst
<1>13. CASE WriteScript
  BY <1>13 DEF WriteScript, LoginFirst
<1>14. CASE MakeExecutable
  BY <1>14 DEF MakeExecutable, LoginFirst
<1>15. CASE AddPath
  BY <1>15 DEF AddPath, LoginFirst
<1>16. CASE RemoveTmp
  BY <1>16 DEF RemoveTmp, LoginFirst
<1>17. CASE ConfigureHook
  BY <1>17, Written, LineTypes DEF ConfigureHook, LoginFirst, Places
<1>18. CASE NotifyUrl
  BY <1>18 DEF NotifyUrl, Notify, LoginFirst
<1>19. CASE NotifyFile
  BY <1>19 DEF NotifyFile, Notify, LoginFirst
<1> QED
  BY <1>1, <1>2, <1>3, <1>4, <1>5, <1>6, <1>7, <1>8, <1>9, <1>10, <1>11, <1>12, <1>13, <1>14, <1>15, <1>16, <1>17, <1>18, <1>19
     DEF Next, FlakeHub, Gha, BuildHook

\* The script is there, then executable, then copied.
LEMMA ScriptStep ==
  ASSUME TypeOK, Runs, ScriptReady, Next
  PROVE  ScriptReady'
<1>1. CASE Launch
  BY <1>1 DEF Launch, ScriptReady, Line
<1>2. CASE Stop
  BY <1>2 DEF Stop, ScriptReady, Line
<1>3. CASE Bind
  BY <1>3 DEF Bind, ScriptReady, Line
<1>4. CASE OpenConf
  BY <1>4, Written, LineTypes DEF OpenConf, ScriptReady, Line
<1>5. CASE ChooseAuth
  BY <1>5 DEF ChooseAuth, ScriptReady, Line
<1>6. CASE AppendEntry
  BY <1>6 DEF AppendEntry, ScriptReady, Line
<1>7. CASE SpawnWorker
  BY <1>7 DEF SpawnWorker, ScriptReady, Line
<1>8. CASE UseFlakeHub
  BY <1>8, Written, LineTypes DEF UseFlakeHub, ScriptReady, Line
<1>9. CASE InitCacheFails
  BY <1>9 DEF InitCacheFails, ScriptReady, Line
<1>10. CASE UseGha
  BY <1>10, Written, LineTypes DEF UseGha, ScriptReady, Line
<1>11. CASE SkipGha
  BY <1>11 DEF SkipGha, ScriptReady, Line
<1>12. CASE Subscribe
  BY <1>12 DEF Subscribe, ScriptReady, Line
<1>13. CASE WriteScript
  BY <1>13 DEF WriteScript, ScriptReady, Line
<1>14. CASE MakeExecutable
  BY <1>14 DEF MakeExecutable, ScriptReady, Line
<1>15. CASE AddPath
  BY <1>15 DEF AddPath, ScriptReady, Line
<1>16. CASE RemoveTmp
  BY <1>16 DEF RemoveTmp, ScriptReady, Line
<1>17. CASE ConfigureHook
  BY <1>17, Written, LineTypes DEF ConfigureHook, ScriptReady, Line
<1>18. CASE NotifyUrl
  BY <1>18 DEF NotifyUrl, Notify, ScriptReady, Line
<1>19. CASE NotifyFile
  BY <1>19 DEF NotifyFile, Notify, ScriptReady, Line
<1> QED
  BY <1>1, <1>2, <1>3, <1>4, <1>5, <1>6, <1>7, <1>8, <1>9, <1>10, <1>11, <1>12, <1>13, <1>14, <1>15, <1>16, <1>17, <1>18, <1>19
     DEF Next, FlakeHub, Gha, BuildHook

\* Only RemoveTmp takes a script away, and no line names that one.
LEMMA HooksStep ==
  ASSUME TypeOK, Runs, ScriptReady, HooksStay, Next
  PROVE  HooksStay'
<1>1. CASE Launch
  BY <1>1 DEF Launch, HooksStay, Telling, Runs, TypeOK
<1>2. CASE Stop
  BY <1>2 DEF Stop, HooksStay, Telling
<1>3. CASE Bind
  BY <1>3 DEF Bind, HooksStay, Telling
<1>4. CASE OpenConf
  BY <1>4, Written, LineTypes DEF OpenConf, HooksStay, Telling, Places
<1>5. CASE ChooseAuth
  BY <1>5 DEF ChooseAuth, HooksStay, Telling
<1>6. CASE AppendEntry
  BY <1>6 DEF AppendEntry, HooksStay, Telling
<1>7. CASE SpawnWorker
  BY <1>7 DEF SpawnWorker, HooksStay, Telling
<1>8. CASE UseFlakeHub
  BY <1>8, Written, LineTypes DEF UseFlakeHub, HooksStay, Telling, Places
<1>9. CASE InitCacheFails
  BY <1>9 DEF InitCacheFails, HooksStay, Telling
<1>10. CASE UseGha
  BY <1>10, Written, LineTypes DEF UseGha, HooksStay, Telling, Places
<1>11. CASE SkipGha
  BY <1>11 DEF SkipGha, HooksStay, Telling
<1>12. CASE Subscribe
  BY <1>12 DEF Subscribe, HooksStay, Telling
<1>13. CASE WriteScript
  BY <1>13 DEF WriteScript, HooksStay, Telling
<1>14. CASE MakeExecutable
  BY <1>14 DEF MakeExecutable, HooksStay, Telling
<1>15. CASE AddPath
  BY <1>15 DEF AddPath, HooksStay, Telling
<1>16. CASE RemoveTmp
  BY <1>16, LineTypes DEF RemoveTmp, HooksStay, Telling, Line
<1>17. CASE ConfigureHook
  BY <1>17, Written, LineTypes DEF ConfigureHook, HooksStay, Telling, Places, ScriptReady
<1>18. CASE NotifyUrl
  BY <1>18 DEF NotifyUrl, Notify, HooksStay, Telling
<1>19. CASE NotifyFile
  BY <1>19 DEF NotifyFile, Notify, HooksStay, Telling
<1> QED
  BY <1>1, <1>2, <1>3, <1>4, <1>5, <1>6, <1>7, <1>8, <1>9, <1>10, <1>11, <1>12, <1>13, <1>14, <1>15, <1>16, <1>17, <1>18, <1>19
     DEF Next, FlakeHub, Gha, BuildHook

\* What was decided is written, and not decided again.
LEMMA DecidedStep ==
  ASSUME TypeOK, Runs, Decided, Next
  PROVE  Decided'
<1>1. CASE Launch
  BY <1>1 DEF Launch, Decided, Wrote, Line, Hooking, Telling, TypeOK, Idle
<1>2. CASE Stop
  BY <1>2 DEF Stop, Decided, Wrote, Line, Hooking, Telling, Idle
<1>3. CASE Bind
  BY <1>3 DEF Bind, Decided, Wrote, Line, Hooking, Telling
<1>4. CASE OpenConf
  BY <1>4, Written, LineTypes DEF OpenConf, Decided, Wrote, Line, Hooking, Telling
<1>5. CASE ChooseAuth
  BY <1>5 DEF ChooseAuth, Decided, Wrote, Line, Hooking, Telling, TypeOK
<1>6. CASE AppendEntry
  BY <1>6 DEF AppendEntry, Decided, Wrote, Line, Hooking, Telling
<1>7. CASE SpawnWorker
  BY <1>7 DEF SpawnWorker, Decided, Wrote, Line, Hooking, Telling, TypeOK
<1>8. CASE UseFlakeHub
  BY <1>8, Written, LineTypes DEF UseFlakeHub, Decided, Wrote, Line, Hooking, Telling, TypeOK
<1>9. CASE InitCacheFails
  BY <1>9 DEF InitCacheFails, Decided, Wrote, Line, Hooking, Telling
<1>10. CASE UseGha
  BY <1>10, Written, LineTypes DEF UseGha, Decided, Wrote, Line, Hooking, Telling, WantsGha
<1>11. CASE SkipGha
  BY <1>11 DEF SkipGha, Decided, Wrote, Line, Hooking, Telling, WantsGha, TypeOK, Arguments, Trinary
<1>12. CASE Subscribe
  BY <1>12 DEF Subscribe, Decided, Wrote, Line, Hooking, Telling
<1>13. CASE WriteScript
  BY <1>13 DEF WriteScript, Decided, Wrote, Line, Hooking, Telling
<1>14. CASE MakeExecutable
  BY <1>14 DEF MakeExecutable, Decided, Wrote, Line, Hooking, Telling
<1>15. CASE AddPath
  BY <1>15 DEF AddPath, Decided, Wrote, Line, Hooking, Telling
<1>16. CASE RemoveTmp
  BY <1>16 DEF RemoveTmp, Decided, Wrote, Line, Hooking, Telling
<1>17. CASE ConfigureHook
  BY <1>17, Written, LineTypes DEF ConfigureHook, Decided, Wrote, Line, Hooking, Telling, Places
<1>18. CASE NotifyUrl
  BY <1>18 DEF NotifyUrl, Notify, Decided, Wrote, Line, Hooking, Telling
<1>19. CASE NotifyFile
  BY <1>19 DEF NotifyFile, Notify, Decided, Wrote, Line, Hooking, Telling
<1> QED
  BY <1>1, <1>2, <1>3, <1>4, <1>5, <1>6, <1>7, <1>8, <1>9, <1>10, <1>11, <1>12, <1>13, <1>14, <1>15, <1>16, <1>17, <1>18, <1>19
     DEF Next, FlakeHub, Gha, BuildHook

\* The hook is named last, or the events were subscribed to.
LEMMA ReachedStep ==
  ASSUME TypeOK, Runs, Reached, Next
  PROVE  Reached'
<1>1. CASE Launch
  BY <1>1 DEF Launch, Reached, LastHook, Line, Telling, Places, TypeOK, Idle
<1>2. CASE Stop
  BY <1>2 DEF Stop, Reached, LastHook, Line, Telling, Places
<1>3. CASE Bind
  BY <1>3 DEF Bind, Reached, LastHook, Line, Telling, Places
<1>4. CASE OpenConf
  BY <1>4, Written, LineTypes DEF OpenConf, Reached, LastHook, Line, Telling, Places
<1>5. CASE ChooseAuth
  BY <1>5 DEF ChooseAuth, Reached, LastHook, Line, Telling, Places
<1>6. CASE AppendEntry
  BY <1>6 DEF AppendEntry, Reached, LastHook, Line, Telling, Places
<1>7. CASE SpawnWorker
  BY <1>7 DEF SpawnWorker, Reached, LastHook, Line, Telling, Places
<1>8. CASE UseFlakeHub
  BY <1>8, Written, LineTypes DEF UseFlakeHub, Reached, LastHook, Line, Telling, Places
<1>9. CASE InitCacheFails
  BY <1>9 DEF InitCacheFails, Reached, LastHook, Line, Telling, Places
<1>10. CASE UseGha
  BY <1>10, Written, LineTypes DEF UseGha, Reached, LastHook, Line, Telling, Places
<1>11. CASE SkipGha
  BY <1>11 DEF SkipGha, Reached, LastHook, Line, Telling, Places
<1>12. CASE Subscribe
  BY <1>12 DEF Subscribe, Reached, LastHook, Line, Telling, Places
<1>13. CASE WriteScript
  BY <1>13 DEF WriteScript, Reached, LastHook, Line, Telling, Places
<1>14. CASE MakeExecutable
  BY <1>14 DEF MakeExecutable, Reached, LastHook, Line, Telling, Places
<1>15. CASE AddPath
  BY <1>15 DEF AddPath, Reached, LastHook, Line, Telling, Places
<1>16. CASE RemoveTmp
  BY <1>16 DEF RemoveTmp, Reached, LastHook, Line, Telling, Places
<1>17. CASE ConfigureHook
  <2>1. PICK place \in Places : pc = place /\ Write(Line(place))
    BY <1>17 DEF ConfigureHook
  <2>2. pc # "off" /\ pc \notin Telling
    BY <2>1 DEF Places, Telling
  <2>3. /\ Len(conf) \in Nat /\ Len(conf') = Len(conf) + 1
        /\ conf'[Len(conf')] = Line(place)'
    BY <1>17, <2>1, <2>2, Written DEF ConfigureHook, Line
  <2>4. conf' # <<>>
    BY <1>17, <2>1 DEF ConfigureHook, Write, TypeOK
  <2>5. LastHook(Line(place))'
    BY <2>3, <2>4 DEF LastHook
  <2>6. notified' = {}
    BY <1>17, <2>2 DEF ConfigureHook, Reached
  <2> QED BY <1>17, <2>1, <2>5, <2>6 DEF ConfigureHook, Reached, Telling
<1>18. CASE NotifyUrl
  BY <1>18 DEF NotifyUrl, Notify, Reached, LastHook, Line, Telling, Places
<1>19. CASE NotifyFile
  BY <1>19 DEF NotifyFile, Notify, Reached, LastHook, Line, Telling, Places
<1> QED
  BY <1>1, <1>2, <1>3, <1>4, <1>5, <1>6, <1>7, <1>8, <1>9, <1>10, <1>11, <1>12, <1>13, <1>14, <1>15, <1>16, <1>17, <1>18, <1>19
     DEF Next, FlakeHub, Gha, BuildHook

(***************************************************************************)
(* The invariant and the theorems.                                         *)
(***************************************************************************)
\* Before the first run nothing is written.
LEMMA InitInv == Init => IInv
<1> SUFFICES ASSUME Init PROVE IInv
  OBVIOUS
<1>1. TypeOK
  <2>1. args \in Arguments
    BY DEF Init, Arguments, Trinary
  <2>2. conf \in Seq(Lines) /\ scripts \subseteq Hooks /\ executable \subseteq scripts
    BY DEF Init
  <2>3. run \in 0 .. MaxRuns
    BY RunsAssumption DEF Init
  <2>4. Idle /\ notified \subseteq {"url", "file"} /\ pc \in Pcs
    BY DEF Init, Idle, Pcs
  <2> QED BY <2>1, <2>2, <2>3, <2>4 DEF Init, Idle, TypeOK
<1>2. conf = <<>> /\ pc = "off"
  BY DEF Init
<1>3. Runs /\ FallbackFirst /\ LoginFirst /\ ScriptReady /\ HooksStay
  BY <1>2 DEF Runs, FallbackFirst, LoginFirst, ScriptReady, HooksStay
<1>4. Decided /\ Reached
  BY <1>2 DEF Init, Idle, Decided, Reached, Hooking, Telling, Places
<1> QED BY <1>1, <1>3, <1>4 DEF IInv

\* A stuttering step changes nothing the invariant speaks of.
LEMMA SameInv == IInv /\ UNCHANGED vars => IInv'
<1> SUFFICES ASSUME IInv, UNCHANGED vars PROVE IInv'
  OBVIOUS
<1>1. TypeOK'
  BY DEF IInv, TypeOK, vars, Idle, Permitted
<1>2. Runs' /\ FallbackFirst' /\ LoginFirst' /\ ScriptReady' /\ HooksStay'
  BY DEF IInv, Runs, FallbackFirst, LoginFirst, ScriptReady, HooksStay, vars, Line
<1>3. Decided' /\ Reached'
  BY DEF IInv, Decided, Reached, Wrote, LastHook, Line, vars
<1> QED BY <1>1, <1>2, <1>3 DEF IInv

\* Every step keeps every part.
LEMMA NextInv == IInv /\ [Next]_vars => IInv'
<1>1. CASE UNCHANGED vars
  BY <1>1, SameInv
<1>2. ASSUME IInv, Next PROVE IInv'
  BY <1>2, TypeStep, RunsStep, FallbackStep, LoginStep, ScriptStep, HooksStep, DecidedStep,
     ReachedStep DEF IInv
<1> QED BY <1>1, <1>2

\* IInv holds of every reachable state.
LEMMA InductiveInvariant == Spec => []IInv
BY InitInv, NextInv, PTL DEF Spec

\* Every variable stays in its range; a process that is gone holds nothing, and
\* the address is bound only with arguments that validate.
THEOREM TypeCorrect == Spec => []TypeOK
<1>1. IInv => TypeOK
  BY DEF IInv
<1> QED BY <1>1, InductiveInvariant, PTL

\* nix.conf is safe whenever Nix reads it, after any number of runs that were
\* killed or failed anywhere in main_cli: the fallback precedes every cache, the
\* netrc can log in to FlakeHub's, and every hook named can be run.
THEOREM ConfigStaysSafe == Spec => []ConfigIsSafe
<1>1. IInv => ConfigIsSafe
  BY DEF IInv, FallbackFirst, LoginFirst, HooksStay, ConfigIsSafe
<1> QED BY <1>1, InductiveInvariant, PTL

\* Whoever is told of the startup, by URL or file, finds the address bound, this
\* run's caches in nix.conf, and build events reaching this run and no earlier one.
THEOREM ToldWhenReady == Spec => []NotifiedMeansReady
<1>1. IInv => NotifiedMeansReady
  BY DEF IInv, Decided, Reached, Telling, Hooking, NotifiedMeansReady
<1> QED BY <1>1, InductiveInvariant, PTL
================================================================================
