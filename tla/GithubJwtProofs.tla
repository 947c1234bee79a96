--------------------------- MODULE GithubJwtProofs ---------------------------
(***************************************************************************)
(* Proofs about GithubJwt: for every lifetime, period and outage within    *)
(* the margin, the tokens in use are alive and the netrc is in step with   *)
(* the worker.  Budget is the argument: the age of a token and what is     *)
(* left of the current sleep or request never add up to more than the      *)
(* margin allows.                                                          *)
(***************************************************************************)
EXTENDS GithubJwt, TLAPS

\* Before the worker exists there is one token.
Before ==
  worker = "none" =>
    /\ late = 0
    /\ api = jwt /\ netrc["api"] = jwt
    /\ netrc["cache"] \in {jwt, Absent, Foreign}
    /\ init \in {"read", "append"} => jwt <= Latency

\* How old a token can be where the worker is.
Budget ==
  /\ worker \in Running => api = jwt /\ jwt <= Latency + Refresh + late
  /\ worker = "sleep" => late = 0 /\ jwt + timer <= Latency + Refresh
  /\ worker = "retry" => late + timer < Outage + Retry
  /\ worker \in Attempt => timer <= Latency /\ late + timer < Latency + Outage + Retry
  /\ worker \in Attempt \ {"request"} => new + timer <= Latency

\* Where the copies of the entries are in step.
Copies ==
  /\ worker \in (Running \ {"set"}) \cup {"dead"} => netrc = Entries(jwt)
  /\ worker = "set" => netrc = Entries(new)
  /\ worker = "gone" => netrc \in {Entries(jwt), Entries(new)}
  /\ worker \in {"create", "write", "rename"} => text = Entries(new)
  /\ worker = "rename" => tmp = text

IInv == TypeOK /\ Before /\ Budget /\ Copies

(***************************************************************************)
(* Lemmas about ages and entries.                                          *)
(***************************************************************************)
\* Ageing adds a tick at most and keeps a token a token.
LEMMA OlderBound ==
  ASSUME NEW a \in Ages
  PROVE  Older(a) \in Ages /\ Older(a) <= a + 1
<1>1. Life \in Nat /\ a \in 0 .. Life
  BY PeriodAssumption DEF Ages
<1>2. CASE a < Life
  BY <1>1, <1>2 DEF Older, Ages
<1>3. CASE ~(a < Life)
  BY <1>1, <1>3 DEF Older, Ages
<1> QED BY <1>2, <1>3

\* Entries are texts.
LEMMA EntriesType ==
  ASSUME NEW t \in Ages
  PROVE  Entries(t) \in Texts
BY DEF Entries, Texts

\* Ageing the entries is ageing their token.
LEMMA EntriesAge ==
  ASSUME NEW t \in Ages
  PROVE  Aged(Entries(t)) = Entries(Older(t))
BY PasswordAssumption DEF Aged, Entries, Hosts

\* Replacing the token replaces it in every entry that has it, and only there.
LEMMA EntriesReplace ==
  ASSUME NEW t \in Ages, NEW u \in Ages
  PROVE  Replace(Entries(t), t, u) = Entries(u)
BY PasswordAssumption DEF Replace, Entries

\* A netrc stays a netrc when time passes.
LEMMA AgedType ==
  ASSUME NEW t \in Texts
  PROVE  Aged(t) \in Texts
BY OlderBound DEF Aged, Texts

(***************************************************************************)
(* The invariant.                                                          *)
(***************************************************************************)
LEMMA InitIInv == Init => IInv
<1> SUFFICES ASSUME Init PROVE IInv
  OBVIOUS
<1>1. 0 .. Latency \subseteq Ages
  BY PeriodAssumption, MarginAssumption DEF Ages
<1>2. PICK age \in 0 .. Latency : /\ jwt = age /\ new = age /\ api = age
                                  /\ \E p \in {age, Absent, Foreign} :
                                       netrc = [h \in Hosts |-> IF h = "api" THEN age ELSE p]
  BY DEF Init
<1>3. netrc["api"] = age /\ netrc["cache"] \in {age, Absent, Foreign} /\ netrc \in Texts
  BY <1>1, <1>2 DEF Hosts, Texts
<1>4. Truncated \in Texts
  BY DEF Truncated, Texts
<1>5. TypeOK
  BY <1>1, <1>2, <1>3, <1>4, PeriodAssumption DEF Init, TypeOK, Running, Attempt
<1>6. Before
  BY <1>2, <1>3, PeriodAssumption DEF Init, Before
<1>7. Budget /\ Copies
  BY DEF Init, Budget, Copies, Running, Attempt
<1> QED BY <1>5, <1>6, <1>7 DEF IInv

LEMMA ReadInitialStep == IInv /\ ReadInitial => IInv'
BY DEF IInv, ReadInitial, TypeOK, Before, Budget, Copies, Running, Attempt, Entries

LEMMA AppendEntryStep == IInv /\ AppendEntry => IInv'
<1> SUFFICES ASSUME IInv, AppendEntry PROVE IInv'
  OBVIOUS
<1> USE DEF AppendEntry
<1>1. worker = "none" /\ jwt \in Ages /\ netrc \in Texts /\ jwt <= Latency
  BY DEF IInv, TypeOK, Before
<1>2. CASE init' = "failed"
  BY <1>2 DEF IInv, TypeOK, Before, Budget, Copies, Running, Attempt, Entries
<1>3. CASE init' = "lookup"
  <2>1. /\ netrc' = [netrc EXCEPT !["cache"] = IF @ = Absent THEN jwt ELSE @]
        /\ owned' = {h \in Hosts : netrc'[h] = jwt}
        /\ worker' = "sleep" /\ timer' = Refresh
        /\ UNCHANGED <<late, tmp, text, jwt, new, api>>
    BY <1>3
  <2>2. /\ netrc' \in Texts
        /\ netrc'["api"] = jwt
        /\ netrc'["cache"] \in {jwt, Foreign}
    BY <1>1, <2>1 DEF IInv, Before, Texts, Hosts
  <2>3. "api" \in owned' /\ owned' \subseteq Hosts
    BY <2>1, <2>2 DEF Hosts
  <2>4. netrc' = Entries(jwt)'
    BY <2>1, <2>2 DEF Entries, Texts, Hosts
  <2>5. TypeOK'
    BY <1>3, <2>1, <2>2, <2>3, PeriodAssumption DEF IInv, TypeOK, Running, Attempt
  <2>6. Before' /\ Budget'
    BY <1>1, <2>1, PeriodAssumption DEF IInv, Before, Budget, Running, Attempt, Ages
  <2>7. Copies'
    BY <2>1, <2>4 DEF Copies, Running, Attempt
  <2> QED BY <2>5, <2>6, <2>7 DEF IInv
<1> QED BY <1>2, <1>3

LEMMA LookUpStep == IInv /\ LookUp => IInv'
BY DEF IInv, LookUp, tokenVars, TypeOK, Before, Budget, Copies, Running, Attempt, Entries

LEMMA WakeStep == IInv /\ Wake => IInv'
BY PeriodAssumption
   DEF IInv, Wake, tokenVars, TypeOK, Before, Budget, Copies, Running, Attempt, Entries, Ages

LEMMA TokenReceivedStep == IInv /\ TokenReceived => IInv'
<1> SUFFICES ASSUME IInv, TokenReceived PROVE IInv'
  OBVIOUS
<1>1. new' \in Ages /\ new' + timer <= Latency
  BY PeriodAssumption, MarginAssumption
  DEF IInv, TypeOK, Budget, Attempt, TokenReceived, Goto, Ages
<1> QED
  BY <1>1 DEF IInv, TokenReceived, Goto, TypeOK, Before, Budget, Copies, Running, Attempt, Entries

LEMMA ReadNetrcStep == IInv /\ ReadNetrc => IInv'
<1> SUFFICES ASSUME IInv, ReadNetrc PROVE IInv'
  OBVIOUS
<1>1. text' = Entries(new)
  BY EntriesReplace DEF IInv, TypeOK, Copies, Running, Attempt, ReadNetrc, Goto
<1>2. text' \in Texts
  BY <1>1, EntriesType DEF IInv, TypeOK
<1>3. Entries(new)' = Entries(new) /\ Entries(jwt)' = Entries(jwt)
  BY DEF ReadNetrc, Goto, Entries
<1>4. TypeOK' /\ Before' /\ Budget'
  BY <1>2 DEF IInv, ReadNetrc, Goto, TypeOK, Before, Budget, Running, Attempt
<1>5. Copies'
  BY <1>1, <1>3 DEF IInv, ReadNetrc, Goto, Copies, Running, Attempt
<1> QED BY <1>4, <1>5 DEF IInv

LEMMA FileStep == IInv /\ (CreateTmp \/ WriteTmp \/ Rename) => IInv'
<1> SUFFICES ASSUME IInv, CreateTmp \/ WriteTmp \/ Rename PROVE IInv'
  OBVIOUS
<1> USE DEF CreateTmp, WriteTmp, Rename, Goto
<1>1. Entries(new)' = Entries(new) /\ Entries(jwt)' = Entries(jwt)
  BY DEF Entries
<1>2. Truncated \in Texts
  BY DEF Truncated, Texts
<1>3. TypeOK' /\ Before' /\ Budget'
  BY <1>2 DEF IInv, TypeOK, Before, Budget, Running, Attempt
<1>4. Copies'
  BY <1>1 DEF IInv, Copies, Running, Attempt
<1> QED BY <1>3, <1>4 DEF IInv

LEMMA FailStep == IInv /\ Fail => IInv'
BY PeriodAssumption
   DEF IInv, Fail, tokenVars, TypeOK, Before, Budget, Copies, Running, Attempt, Entries, Ages

LEMMA SetTokenStep == IInv /\ SetToken => IInv'
<1> SUFFICES ASSUME IInv, SetToken PROVE IInv'
  OBVIOUS
<1>1. Entries(jwt)' = Entries(new)
  BY DEF SetToken, Entries
<1>2. TypeOK' /\ Before' /\ Budget'
  BY PeriodAssumption DEF IInv, SetToken, TypeOK, Before, Budget, Running, Attempt, Ages
<1>3. Copies'
  BY <1>1 DEF IInv, SetToken, Copies, Running, Attempt
<1> QED BY <1>2, <1>3 DEF IInv

LEMMA SetFailsStep == IInv /\ SetFails => IInv'
<1> SUFFICES ASSUME IInv, SetFails PROVE IInv'
  OBVIOUS
<1>1. Entries(jwt)' = Entries(new)
  BY DEF SetFails, Goto, Entries
<1> QED
  BY <1>1 DEF IInv, SetFails, Goto, TypeOK, Before, Budget, Copies, Running, Attempt

LEMMA TickStep == IInv /\ Tick => IInv'
<1> SUFFICES ASSUME IInv, Tick PROVE IInv'
  OBVIOUS
<1> USE DEF Tick
<1>1. /\ jwt \in Ages /\ new \in Ages /\ api \in Ages
      /\ netrc \in Texts /\ tmp \in Texts /\ text \in Texts
      /\ timer \in Nat /\ late \in Nat
  BY DEF IInv, TypeOK
<1>2. /\ jwt' \in Ages /\ jwt' <= jwt + 1
      /\ new' \in Ages /\ new' <= new + 1
      /\ api' \in Ages
  BY <1>1, OlderBound
<1>3. netrc' \in Texts /\ tmp' \in Texts /\ text' \in Texts
  BY <1>1, AgedType
<1>4. TypeOK'
  BY <1>1, <1>2, <1>3 DEF IInv, TypeOK
<1>5. Before'
  <2> SUFFICES ASSUME worker = "none" PROVE Before'
    BY DEF Before
  <2>1. /\ late = 0 /\ api = jwt /\ netrc["api"] = jwt
        /\ netrc["cache"] \in {jwt, Absent, Foreign}
    BY DEF IInv, Before
  <2>2. late' = 0 /\ api' = jwt'
    BY <2>1 DEF Attempt
  <2>3. netrc'["api"] = jwt' /\ netrc'["cache"] \in {jwt', Absent, Foreign}
    BY <1>1, <2>1, PasswordAssumption DEF Aged, Hosts
  <2>4. init \in {"read", "append"} => jwt' <= Latency
    BY <1>1, <1>2, <2>1, PeriodAssumption DEF Ages
  <2> QED BY <2>2, <2>3, <2>4 DEF Before
<1>6. Budget'
  <2> SUFFICES ASSUME worker \in Running PROVE Budget'
    BY DEF Budget, Running
  <2>1. timer > 0 /\ timer' = timer - 1 /\ worker' = worker
    OBVIOUS
  <2>2. api' = jwt'
    BY DEF IInv, Budget
  <2>3. CASE worker = "sleep"
    BY <1>1, <1>2, <2>1, <2>2, <2>3, PeriodAssumption
    DEF IInv, Budget, Attempt, Running, Ages
  <2>4. CASE worker = "retry"
    BY <1>1, <1>2, <2>1, <2>2, <2>4, PeriodAssumption
    DEF IInv, Budget, Attempt, Running, Ages
  <2>5. CASE worker \in Attempt
    BY <1>1, <1>2, <2>1, <2>2, <2>5, PeriodAssumption
    DEF IInv, Budget, Attempt, Running, Ages
  <2> QED BY <2>3, <2>4, <2>5 DEF Running
<1>7. Copies'
  <2>1. Entries(jwt)' = Aged(Entries(jwt)) /\ Entries(new)' = Aged(Entries(new))
    <3>1. Entries(jwt)' = Entries(Older(jwt)) /\ Entries(new)' = Entries(Older(new))
      BY DEF Entries
    <3> QED BY <3>1, <1>1, EntriesAge
  <2> QED BY <2>1 DEF IInv, Copies
<1> QED BY <1>4, <1>5, <1>6, <1>7 DEF IInv

LEMMA ExitStep == IInv /\ Exit => IInv'
BY DEF IInv, Exit, tokenVars, TypeOK, Before, Budget, Copies, Running, Attempt, Entries

LEMMA StutterStep == IInv /\ UNCHANGED vars => IInv'
BY DEF IInv, vars, tokenVars, TypeOK, Before, Budget, Copies, Running, Attempt, Entries

LEMMA NextIInv == IInv /\ [Next]_vars => IInv'
BY ReadInitialStep, AppendEntryStep, LookUpStep, WakeStep, TokenReceivedStep,
   ReadNetrcStep, FileStep, FailStep, SetTokenStep, SetFailsStep, TickStep,
   ExitStep, StutterStep
DEF Next, Rewrite

THEOREM Invariance == Spec => []IInv
BY InitIInv, NextIInv, PTL DEF Spec

(***************************************************************************)
(* The theorems.                                                           *)
(***************************************************************************)
\* Type correctness: what the worker receives, stores and compares are tokens.
THEOREM TypeCorrect == Spec => []TypeOK
BY Invariance, PTL DEF IInv

\* As long as the worker of flakehub.rs runs, no token in use has expired,
\* whatever the lifetime of a token and the length of an outage are, within
\* the margin.
THEOREM Alive == Spec => []TokensLive
<1>1. IInv => TokensLive
  <2> SUFFICES ASSUME IInv, worker \in Running
               PROVE  api < Life /\ \A h \in owned : netrc[h] < Life
    BY DEF TokensLive
  <2>1. /\ jwt \in Nat /\ new \in Nat /\ timer \in Nat /\ late \in Nat
        /\ owned \subseteq Hosts
    BY DEF IInv, TypeOK, Ages
  <2>2. api = jwt /\ jwt < Life
    <3>1. jwt <= Latency + Refresh + late /\ late < Latency + Outage + Retry
      BY <2>1, PeriodAssumption DEF IInv, Budget, Running, Attempt
    <3>2. api = jwt
      BY DEF IInv, Budget
    <3> QED BY <2>1, <3>1, <3>2, PeriodAssumption, MarginAssumption
  <2>3. worker = "set" => new < Life
    BY <2>1, PeriodAssumption, MarginAssumption DEF IInv, Budget, Attempt
  <2>4. netrc = Entries(jwt) \/ (worker = "set" /\ netrc = Entries(new))
    BY DEF IInv, Copies
  <2> QED BY <2>1, <2>2, <2>3, <2>4 DEF Entries
<1> QED BY <1>1, Invariance, PTL

\* The netrc is whole and in step with the worker at any time.
THEOREM Stepwise == Spec => []InStep
<1>1. IInv => InStep
  BY DEF IInv, TypeOK, Copies, InStep, Running, Attempt
<1> QED BY <1>1, Invariance, PTL
=============================================================================
