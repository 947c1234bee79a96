---------------------------- MODULE NarinfoCache ----------------------------
(***************************************************************************)
(* The binary cache API of magic-nix-cache/src/binary_cache.rs, upload_path*)
(* of gha.rs, and the set of store path hashes they share: the negative    *)
(* cache, which saves a request to the service for what it was last seen   *)
(* not to have.                                                            *)
(*                                                                         *)
(* Readers are Nix clients that ask for the narinfo of a path and, when it *)
(* is served, for its NAR.  Writers upload a NAR and then its narinfo: the *)
(* upload worker, and Nix clients that PUT both in Nix's own order.  What  *)
(* an upload is made of is in GhaUpload; here a file appears in the cache  *)
(* in one step, and the answer may be lost before or after it.             *)
(***************************************************************************)
EXTENDS Integers, FiniteSets

CONSTANTS Paths,      \* store paths
          Readers,    \* clients that substitute a path
          Putters,    \* clients that PUT a NAR and its narinfo
          Worker,     \* the upload worker
          Upstream,   \* an upstream cache is configured
          ServiceV2,  \* the service speaks Twirp
          NoPath      \* where no path has been named

Writers == Putters \cup {Worker}

ASSUME SwitchAssumption == {Upstream, ServiceV2} \subseteq BOOLEAN
ASSUME ReadersAssumption == IsFiniteSet(Readers)
ASSUME WriterAssumption == Worker \notin Putters
ASSUME NoPathAssumption == NoPath \notin Paths

VARIABLES
  gha,       \* the GitHub Actions Cache is in use
  negative,  \* narinfo_negative_cache
  tripped,   \* the breaker of the API client
  rpc,       \* where each reader's call is
  rpath,     \* the path it asks for
  narinfo,   \* the answer to its narinfo request, "none" before
  nar,       \* the answer to its NAR request
  sent,      \* metrics.narinfos_sent_upstream
  wpc,       \* where each writer is
  wpath,     \* the path it uploads
  done,      \* paths the worker has started on
  stored,    \* service: files that can be looked up
  unsure,    \* files sent to the service without an answer
  missed,    \* history: paths whose narinfo the service was seen without
  raced,     \* history: paths cached as missing when they were there, and not
             \* removed since
  dropped    \* history: paths whose PUT was dropped before it removed them, and
             \* not removed since

readerVars == <<rpc, rpath, narinfo, nar, sent>>
writerVars == <<wpc, wpath, done>>
histories == <<missed, raced, dropped>>
vars == <<gha, negative, tripped, readerVars, writerVars, stored, unsure, histories>>

Files == {"nar", "narinfo"} \X Paths
Replies == {"none", "served", "upstream", "not found", "teapot", "429"}

Init ==
  /\ gha \in BOOLEAN
  /\ negative = {} /\ tripped = FALSE
  /\ rpc = [r \in Readers |-> "idle"]
  /\ rpath = [r \in Readers |-> NoPath]
  /\ narinfo = [r \in Readers |-> "none"]
  /\ nar = [r \in Readers |-> "none"]
  /\ sent = 0
  /\ wpc = [w \in Writers |-> "idle"]
  /\ wpath = [w \in Writers |-> NoPath]
  /\ done = {}
  /\ stored = {} /\ unsure = {}
  /\ missed = {} /\ raced = {} /\ dropped = {}

(***************************************************************************)
(* Answers of error.rs.  Of the client's errors only a plain 429 keeps its *)
(* status; a tripped breaker, and a throttled Twirp call, are a 418.       *)
(***************************************************************************)
Refused == "teapot"
Throttled == IF ServiceV2 THEN "teapot" ELSE "429"
PullThrough == IF Upstream THEN "upstream" ELSE "not found"

(***************************************************************************)
(* get_narinfo                                                             *)
(***************************************************************************)
At(r, s) == rpc[r] = s
Continue(r, s) == rpc' = [rpc EXCEPT ![r] = s]
Answer(r, reply) == /\ narinfo' = [narinfo EXCEPT ![r] = reply]
                    /\ Continue(r, IF reply = "served" THEN "want" ELSE "ended")
Arrive(r, p) == At(r, "idle") /\ rpath' = [rpath EXCEPT ![r] = p]

\* Faulty: counted as a miss and again when it is forwarded.
CountTwice == sent' = sent + 2

CountSent == sent' = sent + 1

\* The set says the service does not have it.
NegativeHit(r, p) ==
  /\ Arrive(r, p)
  /\ p \in negative
  /\ CountSent
  /\ Answer(r, PullThrough)
  /\ UNCHANGED <<gha, negative, tripped, nar, writerVars, stored, unsure, histories>>

\* It does not: ask, unless the breaker has tripped.
AskNarinfo(r, p) ==
  /\ Arrive(r, p)
  /\ gha /\ p \notin negative
  /\ \/ tripped /\ Answer(r, Refused)
     \/ ~tripped /\ Continue(r, "asked") /\ UNCHANGED narinfo
  /\ UNCHANGED <<gha, negative, tripped, nar, sent, writerVars, stored, unsure, histories>>

\* Without the GitHub Actions Cache every path is a miss.
SkipService(r, p) ==
  /\ Arrive(r, p)
  /\ ~gha /\ p \notin negative
  /\ Continue(r, "missing")
  /\ UNCHANGED <<gha, negative, tripped, narinfo, nar, sent, writerVars, stored,
                 unsure, histories>>

\* The service looks the key up, while other handlers go on.
LookUpNarinfo(r) ==
  /\ At(r, "asked")
  /\ LET there == <<"narinfo", rpath[r]>> \in stored IN
       /\ Continue(r, IF there THEN "found" ELSE "missing")
       /\ missed' = IF there THEN missed ELSE missed \cup {rpath[r]}
  /\ UNCHANGED <<gha, negative, tripped, rpath, narinfo, nar, sent, writerVars,
                 stored,
                 unsure, raced, dropped>>

\* Faulty: an error is taken for a miss.
ErrorIsMiss(r) ==
  /\ At(r, "asked")
  /\ tripped' \in {tripped, TRUE}
  /\ Continue(r, "missing")
  /\ UNCHANGED <<gha, negative, rpath, narinfo, nar, sent, writerVars, stored,
                 unsure, histories>>

\* An error goes to the client, and is not remembered as a miss.
LookUpFails(r) ==
  /\ At(r, "asked")
  /\ \/ tripped' = TRUE /\ Answer(r, Throttled)
     \/ UNCHANGED tripped /\ Answer(r, Refused)
  /\ UNCHANGED <<gha, negative, rpath, nar, sent, writerVars, stored, unsure, histories>>

ServeNarinfo(r) ==
  /\ At(r, "found")
  /\ Answer(r, "served")
  /\ UNCHANGED <<gha, negative, tripped, rpath, nar, sent, writerVars, stored,
                 unsure, histories>>

\* The miss is remembered under the write lock, whatever has been uploaded
\* since the service was asked.
InsertNegative(r) ==
  /\ At(r, "missing")
  /\ negative' = negative \cup {rpath[r]}
  /\ raced' = IF <<"narinfo", rpath[r]>> \in stored THEN raced \cup {rpath[r]} ELSE raced
  /\ CountSent
  /\ Answer(r, PullThrough)
  /\ UNCHANGED <<gha, tripped, rpath, nar, writerVars, stored, unsure, missed, dropped>>

(***************************************************************************)
(* get_nar, for a reader that was served the narinfo.                      *)
(***************************************************************************)
AnswerNar(r, reply) == nar' = [nar EXCEPT ![r] = reply] /\ Continue(r, "ended")

AskNar(r) ==
  /\ At(r, "want")
  /\ \/ tripped /\ AnswerNar(r, Refused)
     \/ ~tripped /\ Continue(r, "asked nar") /\ UNCHANGED nar
  /\ UNCHANGED <<gha, negative, tripped, rpath, narinfo, sent, writerVars, stored,
                 unsure, histories>>

LookUpNar(r) ==
  /\ At(r, "asked nar")
  /\ AnswerNar(r, IF <<"nar", rpath[r]>> \in stored THEN "served" ELSE PullThrough)
  /\ UNCHANGED <<gha, negative, tripped, rpath, narinfo, sent, writerVars, stored,
                 unsure, histories>>

LookUpNarFails(r) ==
  /\ At(r, "asked nar")
  /\ \/ tripped' = TRUE /\ AnswerNar(r, Throttled)
     \/ UNCHANGED tripped /\ AnswerNar(r, Refused)
  /\ UNCHANGED <<gha, negative, rpath, narinfo, sent, writerVars, stored, unsure, histories>>

Read(r) == \/ \E p \in Paths : NegativeHit(r, p) \/ AskNarinfo(r, p) \/ SkipService(r, p)
           \/ LookUpNarinfo(r) \/ LookUpFails(r) \/ ServeNarinfo(r) \/ InsertNegative(r)
           \/ AskNar(r) \/ LookUpNar(r) \/ LookUpNarFails(r)

(***************************************************************************)
(* upload_path, and put_nar followed by put_narinfo.                       *)
(***************************************************************************)
\* The file a writer is sending, by where it is.
Sending(w) == <<IF wpc[w] \in {"nar", "nar stored"} THEN "nar" ELSE "narinfo", wpath[w]>>

\* The worker goes on to another path, a handler returns.
Rest(w) == IF w = Worker THEN "idle" ELSE "ended"
Proceed(w, s) == wpc' = [wpc EXCEPT ![w] = s]

\* The worker starts on a path once; without a cache there is no worker and
\* a PUT is refused.
StartUpload(w, p) ==
  /\ wpc[w] = "idle"
  /\ w = Worker => gha /\ p \notin done
  /\ wpath' = [wpath EXCEPT ![w] = p]
  /\ Proceed(w, IF gha /\ ~tripped THEN "nar" ELSE Rest(w))
  /\ done' = IF w = Worker /\ ~tripped THEN done \cup {p} ELSE done
  /\ UNCHANGED <<gha, negative, tripped, readerVars, stored, unsure, histories>>

\* The entry is published; the writer does not know yet.
Publish(w) ==
  /\ wpc[w] \in {"nar", "narinfo"}
  /\ stored' = stored \cup {Sending(w)}
  /\ Proceed(w, IF wpc[w] = "nar" THEN "nar stored" ELSE "narinfo stored")
  /\ UNCHANGED <<gha, negative, tripped, readerVars, wpath, done, unsure, histories>>

\* Faulty: the narinfo is uploaded although the NAR was not.
NarFailureIgnored(w) ==
  /\ wpc[w] \in {"nar", "narinfo"}
  /\ tripped' \in {tripped, TRUE}
  /\ Proceed(w, IF wpc[w] = "nar" THEN "narinfo" ELSE Rest(w))
  /\ UNCHANGED <<gha, negative, readerVars, wpath, done, stored, unsure, histories>>

\* Some request of the upload fails before the one that publishes it.
UploadFails(w) ==
  /\ wpc[w] \in {"nar", "narinfo"}
  /\ tripped' \in {tripped, TRUE}
  /\ Proceed(w, Rest(w))
  /\ UNCHANGED <<gha, negative, readerVars, wpath, done, stored, unsure, histories>>

\* The answer to the last request is lost, before or after its effect.
AnswerLost(w) ==
  /\ wpc[w] \in {"nar", "nar stored", "narinfo", "narinfo stored"}
  /\ unsure' = unsure \cup {Sending(w)}
  /\ Proceed(w, Rest(w))
  /\ UNCHANGED <<gha, negative, tripped, readerVars, wpath, done, stored, histories>>

\* A request whose answer was lost takes effect after all.
PublishLate(f) ==
  /\ f \in unsure \ stored
  /\ stored' = stored \cup {f}
  /\ UNCHANGED <<gha, negative, tripped, readerVars, writerVars, unsure, histories>>

\* The NAR is there: its narinfo next, which asks the breaker again.
NarUploaded(w) ==
  /\ wpc[w] = "nar stored"
  /\ Proceed(w, IF tripped THEN Rest(w) ELSE "narinfo")
  /\ UNCHANGED <<gha, negative, tripped, readerVars, wpath, done, stored, unsure, histories>>

NarinfoUploaded(w) ==
  /\ wpc[w] = "narinfo stored"
  /\ Proceed(w, "remove")
  /\ UNCHANGED <<gha, negative, tripped, readerVars, wpath, done, stored, unsure, histories>>

\* The entries go, and what was to be said of them.
Removes(ps) ==
  /\ negative' = negative \ ps
  /\ raced' = raced \ ps
  /\ dropped' = dropped \ ps

\* Faulty: only the worker removes what it uploaded.
RemoveByWorkerOnly(w) ==
  /\ wpc[w] = "remove"
  /\ Removes(IF w = Worker THEN {wpath[w]} ELSE {})
  /\ Proceed(w, Rest(w))
  /\ UNCHANGED <<gha, tripped, readerVars, wpath, done, stored, unsure, missed>>

\* Under the write lock, after the upload.
RemoveNegative(w) ==
  /\ wpc[w] = "remove"
  /\ Removes({wpath[w]})
  /\ Proceed(w, Rest(w))
  /\ UNCHANGED <<gha, tripped, readerVars, wpath, done, stored, unsure, missed>>

\* The client disconnects while its PUT waits for that lock.
RemovalDropped(w) ==
  /\ wpc[w] = "remove" /\ w \in Putters
  /\ dropped' = dropped \cup {wpath[w]}
  /\ Proceed(w, Rest(w))
  /\ UNCHANGED <<gha, negative, tripped, readerVars, wpath, done, stored, unsure,
                 missed, raced>>

Write(w) == \/ \E p \in Paths : StartUpload(w, p)
            \/ Publish(w) \/ UploadFails(w) \/ AnswerLost(w)
            \/ NarUploaded(w) \/ NarinfoUploaded(w)
            \/ RemoveNegative(w) \/ RemovalDropped(w)

Next == \/ \E r \in Readers : Read(r)
        \/ \E w \in Writers : Write(w)
        \/ \E f \in Files : PublishLate(f)

Spec == Init /\ [][Next]_vars

(***************************************************************************)
(* Properties.                                                             *)
(***************************************************************************)
ReaderStates == {"idle", "asked", "found", "missing", "want", "asked nar", "ended"}
WriterStates == {"idle", "nar", "nar stored", "narinfo", "narinfo stored", "remove", "ended"}

\* Every variable stays in its range; a call counts once as sent upstream,
\* and only a reader that was served a narinfo asks for the NAR.
TypeOK ==
  /\ negative \subseteq Paths
  /\ gha \in BOOLEAN /\ tripped \in BOOLEAN
  /\ rpc \in [Readers -> ReaderStates]
  /\ rpath \in [Readers -> Paths \cup {NoPath}]
  /\ narinfo \in [Readers -> Replies] /\ nar \in [Readers -> Replies]
  /\ \A r \in Readers : rpc[r] \in {"want", "asked nar"} => narinfo[r] = "served"
  /\ sent \in 0 .. Cardinality(Readers)
  /\ wpc \in [Writers -> WriterStates]
  /\ wpath \in [Writers -> Paths \cup {NoPath}]
  /\ done \subseteq Paths
  /\ stored \subseteq Files /\ unsure \subseteq Files
  /\ missed \subseteq Paths /\ raced \subseteq Paths /\ dropped \subseteq Paths

\* A client that was served a narinfo is not told that the NAR it names does
\* not exist, however uploads fail or overlap.
NarNeverMissing == \A r \in Readers : nar[r] \in {"none", "served", "teapot", "429"}

\* A path is remembered as missing although its narinfo is in the cache only
\* while its writer has not come to removing it, when the writer never got
\* the answer, when the narinfo was published between a reader's lookup and
\* its insertion, or when the client of a PUT went away before the removal;
\* and the last two only until some writer of the path removes it.
StaleOnlyByRace ==
  \A p \in negative : <<"narinfo", p>> \in stored =>
    \/ \E w \in Writers : wpath[w] = p /\ wpc[w] \in {"narinfo stored", "remove"}
    \/ <<"narinfo", p>> \in unsure
    \/ p \in raced
    \/ p \in dropped

\* Only what the service was seen not to have is remembered as missing:
\* throttling, lost answers and a tripped breaker are not.
ErrorsNeverCached == gha => negative \subseteq missed

\* What the answers mean to a client.
Meaning(reply) ==
  CASE reply = "none" -> "nothing"
    [] reply = "served" -> "there"
    [] reply \in {"upstream", "not found"} -> "missing"
    [] OTHER -> "failure"

\* To its clients the API is a Substituter: half uploads, the negative cache
\* and the breaker are seen only as paths that are not there yet, and as
\* failures; each pull-through is counted once.
Seen == INSTANCE Substituter WITH
  Clients <- Readers,
  whole <- {p \in Paths : {<<"nar", p>>, <<"narinfo", p>>} \subseteq stored},
  absent <- IF gha THEN missed ELSE Paths,
  told <- [r \in Readers |-> Meaning(narinfo[r])],
  path <- [r \in Readers |-> IF narinfo[r] = "none" THEN NoPath ELSE rpath[r]],
  brought <- [r \in Readers |-> CASE nar[r] = "served" -> "whole"
                                   [] nar[r] = "none" -> "nothing"
                                   [] OTHER -> "failure"],
  forwarded <- sent
SubstitutesWholePaths == Seen!Spec

\* No call is under way.
Quiet == /\ \A r \in Readers : rpc[r] \in {"idle", "ended"}
         /\ \A w \in Writers : wpc[w] \in {"idle", "ended"}

\* "Set of store path hashes that are not present in GHAC", when nothing is
\* under way, every upload was answered and every PUT ran to its end.
NegativeIsAbsent ==
  Quiet => \A p \in negative \ dropped : <<"narinfo", p>> \notin stored \ unsure
=============================================================================
