------------------------- MODULE NarinfoCacheProofs -------------------------
(***************************************************************************)
(* Theorems about the negative cache for any sets of paths, readers and    *)
(* putting clients.                                                        *)
(***************************************************************************)
EXTENDS NarinfoCache, TLAPS, FiniteSetTheorems

USE DEF Writers, Files, Replies, ReaderStates, WriterStates

(***************************************************************************)
(* The inductive invariant.                                                *)
(***************************************************************************)
\* A reader has named a path, has no answer while it waits for one, and what
\* it was served, or is about to be, is in the cache.
ReaderInv(r) ==
  /\ rpc[r] # "idle" => rpath[r] \in Paths
  /\ rpc[r] \in {"idle", "asked", "found", "missing"} => narinfo[r] = "none"
  /\ rpc[r] = "found" \/ narinfo[r] = "served" => <<"narinfo", rpath[r]>> \in stored
  /\ gha /\ rpc[r] = "missing" => rpath[r] \in missed

\* A writer that is past its NAR has published it.
WriterInv(w) ==
  /\ wpc[w] \notin {"idle", "ended"} => wpath[w] \in Paths
  /\ wpc[w] \in {"nar stored", "narinfo", "narinfo stored", "remove"}
       => <<"nar", wpath[w]>> \in stored

\* A narinfo is published, or may still be, only when its NAR is there.
NarinfoImpliesNar ==
  \A p \in Paths : <<"narinfo", p>> \in stored \cup unsure => <<"nar", p>> \in stored

\* One count for each reader that was sent upstream.
Counted == {r \in Readers : narinfo[r] \in {"upstream", "not found"}}
SentExact == sent = Cardinality(Counted)

IInv == /\ TypeOK
        /\ \A r \in Readers : ReaderInv(r)
        /\ \A w \in Writers : WriterInv(w)
        /\ NarinfoImpliesNar
        /\ NarNeverMissing
        /\ StaleOnlyByRace
        /\ ErrorsNeverCached
        /\ SentExact

(***************************************************************************)
(* Counting.                                                               *)
(***************************************************************************)
\* A reader that had no answer and is sent upstream is one more.
LEMMA CountOne ==
  ASSUME TypeOK, SentExact, NEW r \in Readers, narinfo[r] = "none",
         CountSent, Answer(r, PullThrough)
  PROVE  SentExact'
<1>1. Counted' = Counted \cup {r} /\ r \notin Counted
  BY DEF Counted, Answer, PullThrough, TypeOK
<1>2. IsFiniteSet(Counted)
  BY ReadersAssumption, FS_Subset DEF Counted
<1>3. Cardinality(Counted') = Cardinality(Counted) + 1
  BY <1>1, <1>2, FS_AddElement
<1> QED BY <1>3 DEF SentExact, CountSent

\* The other steps send nobody upstream and count nothing.
LEMMA SentStep ==
  ASSUME TypeOK, SentExact, \A r \in Readers : ReaderInv(r), Next
  PROVE  SentExact'
<1> USE DEF histories
<1>0. Counted' = Counted /\ sent' = sent => SentExact'
  BY DEF SentExact
<1>a. ASSUME NEW r \in Readers,
             narinfo' \in {narinfo, [narinfo EXCEPT ![r] = "served"],
                           [narinfo EXCEPT ![r] = "teapot"],
                           [narinfo EXCEPT ![r] = "429"]},
             narinfo[r] \notin {"upstream", "not found"} \/ narinfo' = narinfo
      PROVE  Counted' = Counted
  BY <1>a DEF Counted, TypeOK
<1>1. ASSUME NEW r \in Readers, NEW p \in Paths, NegativeHit(r, p) PROVE SentExact'
  BY <1>1, CountOne DEF NegativeHit, Arrive, At, ReaderInv
<1>2. ASSUME NEW r \in Readers, NEW p \in Paths, AskNarinfo(r, p) PROVE SentExact'
  BY <1>2, <1>0, <1>a DEF AskNarinfo, Arrive, At, Answer, Refused, ReaderInv
<1>3. ASSUME NEW r \in Readers, NEW p \in Paths, SkipService(r, p) PROVE SentExact'
  BY <1>3 DEF SkipService, Arrive, At, Continue, writerVars, Counted,
      SentExact, TypeOK
<1>4. ASSUME NEW r \in Readers, LookUpNarinfo(r) PROVE SentExact'
  BY <1>4 DEF LookUpNarinfo, At, Continue, writerVars, Counted, SentExact,
      TypeOK
<1>5. ASSUME NEW r \in Readers, LookUpFails(r) PROVE SentExact'
  BY <1>5, <1>0, <1>a DEF LookUpFails, At, Answer, Refused, Throttled,
      ReaderInv
<1>6. ASSUME NEW r \in Readers, ServeNarinfo(r) PROVE SentExact'
  BY <1>6, <1>0, <1>a DEF ServeNarinfo, At, Answer, ReaderInv
<1>7. ASSUME NEW r \in Readers, InsertNegative(r) PROVE SentExact'
  BY <1>7, CountOne DEF InsertNegative, At, ReaderInv
<1>8. ASSUME NEW r \in Readers, AskNar(r) PROVE SentExact'
  BY <1>8 DEF AskNar, At, Continue, AnswerNar, Refused, writerVars, Counted,
      SentExact, TypeOK
<1>9. ASSUME NEW r \in Readers, LookUpNar(r) PROVE SentExact'
  BY <1>9 DEF LookUpNar, At, Continue, AnswerNar, PullThrough, writerVars,
      Counted, SentExact, TypeOK
<1>10. ASSUME NEW r \in Readers, LookUpNarFails(r) PROVE SentExact'
  BY <1>10 DEF LookUpNarFails, At, Continue, AnswerNar, Throttled, Refused,
      writerVars, Counted, SentExact, TypeOK
<1>11. ASSUME NEW w \in Writers, NEW p \in Paths, StartUpload(w, p) PROVE SentExact'
  BY <1>11 DEF StartUpload, Proceed, Rest, readerVars, Counted, SentExact,
      TypeOK
<1>12. ASSUME NEW w \in Writers, Publish(w) PROVE SentExact'
  BY <1>12 DEF Publish, Sending, Proceed, readerVars, Counted, SentExact,
      TypeOK
<1>13. ASSUME NEW w \in Writers, UploadFails(w) PROVE SentExact'
  BY <1>13 DEF UploadFails, Proceed, Rest, readerVars, Counted, SentExact,
      TypeOK
<1>14. ASSUME NEW w \in Writers, AnswerLost(w) PROVE SentExact'
  BY <1>14 DEF AnswerLost, Sending, Proceed, Rest, readerVars, Counted,
      SentExact, TypeOK
<1>15. ASSUME NEW w \in Writers, NarUploaded(w) PROVE SentExact'
  BY <1>15 DEF NarUploaded, Proceed, Rest, readerVars, Counted, SentExact,
      TypeOK
<1>16. ASSUME NEW w \in Writers, NarinfoUploaded(w) PROVE SentExact'
  BY <1>16 DEF NarinfoUploaded, Proceed, readerVars, Counted, SentExact, TypeOK
<1>17. ASSUME NEW w \in Writers, RemoveNegative(w) PROVE SentExact'
  BY <1>17 DEF RemoveNegative, Removes, Proceed, Rest, readerVars, Counted, SentExact,
      TypeOK
<1>18. ASSUME NEW w \in Writers, RemovalDropped(w) PROVE SentExact'
  BY <1>18 DEF RemovalDropped, Proceed, Rest, readerVars, Counted, SentExact,
      TypeOK
<1>19. ASSUME NEW f \in Files, PublishLate(f) PROVE SentExact'
  BY <1>19 DEF PublishLate, readerVars, writerVars, Counted, SentExact, TypeOK
<1> QED
  BY <1>1, <1>2, <1>3, <1>4, <1>5, <1>6, <1>7, <1>8, <1>9, <1>10, <1>11,
      <1>12, <1>13, <1>14, <1>15, <1>16, <1>17, <1>18, <1>19
     DEF Next, Read, Write

(***************************************************************************)
(* Types.                                                                  *)
(***************************************************************************)
\* Every step keeps TypeOK; the counter is bounded by the readers counted.
LEMMA TypeStep ==
  ASSUME TypeOK, SentExact', \A r \in Readers : ReaderInv(r),
         \A w \in Writers : WriterInv(w), Next
  PROVE  TypeOK'
<1> USE DEF histories
<1>0. sent' \in 0 .. Cardinality(Readers)
  <2>1. Counted' \subseteq Readers
    BY DEF Counted
  <2>2. /\ Cardinality(Counted') <= Cardinality(Readers)
        /\ Cardinality(Counted') \in Nat /\ Cardinality(Readers) \in Nat
    BY <2>1, ReadersAssumption, FS_Subset, FS_CardinalityType
  <2> QED BY <2>2 DEF SentExact
<1>1. ASSUME NEW r \in Readers, NEW p \in Paths, NegativeHit(r, p) PROVE TypeOK'
  BY <1>1, <1>0 DEF NegativeHit, Arrive, At, Continue, Answer, PullThrough,
      writerVars, TypeOK
<1>2. ASSUME NEW r \in Readers, NEW p \in Paths, AskNarinfo(r, p) PROVE TypeOK'
  BY <1>2, ZenonT(40) DEF AskNarinfo, Arrive, At, Continue, Answer, Refused, writerVars,
      ReaderInv, WriterInv, TypeOK
<1>3. ASSUME NEW r \in Readers, NEW p \in Paths, SkipService(r, p) PROVE TypeOK'
  BY <1>3 DEF SkipService, Arrive, At, Continue, writerVars, ReaderInv,
      WriterInv, TypeOK
<1>4. ASSUME NEW r \in Readers, LookUpNarinfo(r) PROVE TypeOK'
  BY <1>4 DEF LookUpNarinfo, At, Continue, writerVars, ReaderInv, WriterInv,
      TypeOK
<1>5. ASSUME NEW r \in Readers, LookUpFails(r) PROVE TypeOK'
  BY <1>5, ZenonT(40) DEF LookUpFails, At, Continue, Answer, Throttled, Refused,
      writerVars, ReaderInv, WriterInv, TypeOK
<1>6. ASSUME NEW r \in Readers, ServeNarinfo(r) PROVE TypeOK'
  BY <1>6 DEF ServeNarinfo, At, Continue, Answer, writerVars, ReaderInv,
      WriterInv, TypeOK
<1>7. ASSUME NEW r \in Readers, InsertNegative(r) PROVE TypeOK'
  BY <1>7, <1>0 DEF InsertNegative, At, Continue, Answer, PullThrough,
      writerVars, ReaderInv, TypeOK
<1>8. ASSUME NEW r \in Readers, AskNar(r) PROVE TypeOK'
  BY <1>8 DEF AskNar, At, Continue, AnswerNar, Refused, writerVars, ReaderInv,
      WriterInv, TypeOK
<1>9. ASSUME NEW r \in Readers, LookUpNar(r) PROVE TypeOK'
  BY <1>9 DEF LookUpNar, At, Continue, AnswerNar, PullThrough, writerVars,
      ReaderInv, WriterInv, TypeOK
<1>10. ASSUME NEW r \in Readers, LookUpNarFails(r) PROVE TypeOK'
  BY <1>10 DEF LookUpNarFails, At, Continue, AnswerNar, Throttled, Refused,
      writerVars, ReaderInv, WriterInv, TypeOK
<1>11. ASSUME NEW w \in Writers, NEW p \in Paths, StartUpload(w, p) PROVE TypeOK'
  BY <1>11 DEF StartUpload, Proceed, Rest, readerVars, ReaderInv, WriterInv,
      TypeOK
<1>12. ASSUME NEW w \in Writers, Publish(w) PROVE TypeOK'
  <2>1. Sending(w) \in Files
    BY <1>12 DEF Publish, Sending, WriterInv
  <2> QED BY <1>12, <2>1 DEF Publish, Proceed, readerVars, TypeOK
<1>13. ASSUME NEW w \in Writers, UploadFails(w) PROVE TypeOK'
  BY <1>13 DEF UploadFails, Proceed, Rest, readerVars, ReaderInv, WriterInv,
      TypeOK
<1>14. ASSUME NEW w \in Writers, AnswerLost(w) PROVE TypeOK'
  <2>1. Sending(w) \in Files
    BY <1>14 DEF AnswerLost, Sending, WriterInv
  <2> QED BY <1>14, <2>1 DEF AnswerLost, Proceed, Rest, readerVars, TypeOK
<1>15. ASSUME NEW w \in Writers, NarUploaded(w) PROVE TypeOK'
  BY <1>15 DEF NarUploaded, Proceed, Rest, readerVars, ReaderInv, WriterInv,
      TypeOK
<1>16. ASSUME NEW w \in Writers, NarinfoUploaded(w) PROVE TypeOK'
  BY <1>16 DEF NarinfoUploaded, Proceed, readerVars, ReaderInv, WriterInv,
      TypeOK
<1>17. ASSUME NEW w \in Writers, RemoveNegative(w) PROVE TypeOK'
  BY <1>17 DEF RemoveNegative, Removes, Proceed, Rest, readerVars, ReaderInv,
      WriterInv, TypeOK
<1>18. ASSUME NEW w \in Writers, RemovalDropped(w) PROVE TypeOK'
  BY <1>18 DEF RemovalDropped, Proceed, Rest, readerVars, ReaderInv,
      WriterInv, TypeOK
<1>19. ASSUME NEW f \in Files, PublishLate(f) PROVE TypeOK'
  BY <1>19 DEF PublishLate, readerVars, writerVars, ReaderInv, WriterInv,
      TypeOK
<1> QED
  BY <1>1, <1>2, <1>3, <1>4, <1>5, <1>6, <1>7, <1>8, <1>9, <1>10, <1>11,
      <1>12, <1>13, <1>14, <1>15, <1>16, <1>17, <1>18, <1>19
     DEF Next, Read, Write

(***************************************************************************)
(* Readers and writers.                                                    *)
(***************************************************************************)
\* What the service has, it keeps, so what a reader was told stays true.
LEMMA ReaderStep ==
  ASSUME TypeOK, \A r \in Readers : ReaderInv(r), Next, NEW q \in Readers
  PROVE  ReaderInv(q)'
<1> USE DEF histories
<1>0. ReaderInv(q)
  OBVIOUS
<1>1. ASSUME NEW r \in Readers, NEW p \in Paths, NegativeHit(r, p) PROVE ReaderInv(q)'
  BY <1>1 DEF NegativeHit, Arrive, At, Continue, Answer, CountSent,
      PullThrough, writerVars, ReaderInv, TypeOK
<1>2. ASSUME NEW r \in Readers, NEW p \in Paths, AskNarinfo(r, p) PROVE ReaderInv(q)'
  BY <1>2, ZenonT(40) DEF AskNarinfo, Arrive, At, Continue, Answer, Refused, writerVars,
      ReaderInv, TypeOK
<1>3. ASSUME NEW r \in Readers, NEW p \in Paths, SkipService(r, p) PROVE ReaderInv(q)'
  BY <1>3 DEF SkipService, Arrive, At, Continue, writerVars, ReaderInv, TypeOK
<1>4. ASSUME NEW r \in Readers, LookUpNarinfo(r) PROVE ReaderInv(q)'
  BY <1>4 DEF LookUpNarinfo, At, Continue, writerVars, ReaderInv, TypeOK
<1>5. ASSUME NEW r \in Readers, LookUpFails(r) PROVE ReaderInv(q)'
  BY <1>5, ZenonT(40) DEF LookUpFails, At, Continue, Answer, Throttled, Refused,
      writerVars, ReaderInv, TypeOK
<1>6. ASSUME NEW r \in Readers, ServeNarinfo(r) PROVE ReaderInv(q)'
  BY <1>6 DEF ServeNarinfo, At, Continue, Answer, writerVars, ReaderInv, TypeOK
<1>7. ASSUME NEW r \in Readers, InsertNegative(r) PROVE ReaderInv(q)'
  BY <1>7 DEF InsertNegative, At, Continue, Answer, CountSent, PullThrough,
      writerVars, ReaderInv, TypeOK
<1>8. ASSUME NEW r \in Readers, AskNar(r) PROVE ReaderInv(q)'
  BY <1>8, ZenonT(40) DEF AskNar, At, Continue, AnswerNar, Refused, writerVars, ReaderInv,
      TypeOK
<1>9. ASSUME NEW r \in Readers, LookUpNar(r) PROVE ReaderInv(q)'
  BY <1>9 DEF LookUpNar, At, Continue, AnswerNar, PullThrough, writerVars,
      ReaderInv, TypeOK
<1>10. ASSUME NEW r \in Readers, LookUpNarFails(r) PROVE ReaderInv(q)'
  BY <1>10 DEF LookUpNarFails, At, Continue, AnswerNar, Throttled, Refused,
      writerVars, ReaderInv, TypeOK
<1>11. ASSUME NEW w \in Writers, NEW p \in Paths, StartUpload(w, p) PROVE ReaderInv(q)'
  BY <1>11 DEF StartUpload, Proceed, Rest, readerVars, ReaderInv, TypeOK
<1>12. ASSUME NEW w \in Writers, Publish(w) PROVE ReaderInv(q)'
  BY <1>12 DEF Publish, Sending, Proceed, readerVars, ReaderInv, TypeOK
<1>13. ASSUME NEW w \in Writers, UploadFails(w) PROVE ReaderInv(q)'
  BY <1>13 DEF UploadFails, Proceed, Rest, readerVars, ReaderInv, TypeOK
<1>14. ASSUME NEW w \in Writers, AnswerLost(w) PROVE ReaderInv(q)'
  BY <1>14 DEF AnswerLost, Sending, Proceed, Rest, readerVars, ReaderInv,
      TypeOK
<1>15. ASSUME NEW w \in Writers, NarUploaded(w) PROVE ReaderInv(q)'
  BY <1>15 DEF NarUploaded, Proceed, Rest, readerVars, ReaderInv, TypeOK
<1>16. ASSUME NEW w \in Writers, NarinfoUploaded(w) PROVE ReaderInv(q)'
  BY <1>16 DEF NarinfoUploaded, Proceed, readerVars, ReaderInv, TypeOK
<1>17. ASSUME NEW w \in Writers, RemoveNegative(w) PROVE ReaderInv(q)'
  BY <1>17 DEF RemoveNegative, Removes, Proceed, Rest, readerVars, ReaderInv, TypeOK
<1>18. ASSUME NEW w \in Writers, RemovalDropped(w) PROVE ReaderInv(q)'
  BY <1>18 DEF RemovalDropped, Proceed, Rest, readerVars, ReaderInv, TypeOK
<1>19. ASSUME NEW f \in Files, PublishLate(f) PROVE ReaderInv(q)'
  BY <1>19 DEF PublishLate, readerVars, writerVars, ReaderInv, TypeOK
<1> QED
  BY <1>1, <1>2, <1>3, <1>4, <1>5, <1>6, <1>7, <1>8, <1>9, <1>10, <1>11,
      <1>12, <1>13, <1>14, <1>15, <1>16, <1>17, <1>18, <1>19
     DEF Next, Read, Write

\* A writer goes on to the narinfo only when the NAR was published.
LEMMA WriterStep ==
  ASSUME TypeOK, \A w \in Writers : WriterInv(w), Next, NEW v \in Writers
  PROVE  WriterInv(v)'
<1> USE DEF histories
<1>0. WriterInv(v)
  OBVIOUS
<1>1. ASSUME NEW r \in Readers, NEW p \in Paths, NegativeHit(r, p) PROVE WriterInv(v)'
  BY <1>1 DEF NegativeHit, Arrive, At, Continue, Answer, CountSent,
      PullThrough, writerVars, WriterInv, TypeOK
<1>2. ASSUME NEW r \in Readers, NEW p \in Paths, AskNarinfo(r, p) PROVE WriterInv(v)'
  BY <1>2 DEF AskNarinfo, Arrive, At, Continue, Answer, Refused, writerVars,
      WriterInv, TypeOK
<1>3. ASSUME NEW r \in Readers, NEW p \in Paths, SkipService(r, p) PROVE WriterInv(v)'
  BY <1>3 DEF SkipService, Arrive, At, Continue, writerVars, WriterInv, TypeOK
<1>4. ASSUME NEW r \in Readers, LookUpNarinfo(r) PROVE WriterInv(v)'
  BY <1>4 DEF LookUpNarinfo, At, Continue, writerVars, WriterInv, TypeOK
<1>5. ASSUME NEW r \in Readers, LookUpFails(r) PROVE WriterInv(v)'
  BY <1>5 DEF LookUpFails, At, Continue, Answer, Throttled, Refused,
      writerVars, WriterInv, TypeOK
<1>6. ASSUME NEW r \in Readers, ServeNarinfo(r) PROVE WriterInv(v)'
  BY <1>6 DEF ServeNarinfo, At, Continue, Answer, writerVars, WriterInv, TypeOK
<1>7. ASSUME NEW r \in Readers, InsertNegative(r) PROVE WriterInv(v)'
  BY <1>7 DEF InsertNegative, At, Continue, Answer, CountSent, PullThrough,
      writerVars, WriterInv, TypeOK
<1>8. ASSUME NEW r \in Readers, AskNar(r) PROVE WriterInv(v)'
  BY <1>8 DEF AskNar, At, Continue, AnswerNar, Refused, writerVars, WriterInv,
      TypeOK
<1>9. ASSUME NEW r \in Readers, LookUpNar(r) PROVE WriterInv(v)'
  BY <1>9 DEF LookUpNar, At, Continue, AnswerNar, PullThrough, writerVars,
      WriterInv, TypeOK
<1>10. ASSUME NEW r \in Readers, LookUpNarFails(r) PROVE WriterInv(v)'
  BY <1>10 DEF LookUpNarFails, At, Continue, AnswerNar, Throttled, Refused,
      writerVars, WriterInv, TypeOK
<1>11. ASSUME NEW w \in Writers, NEW p \in Paths, StartUpload(w, p) PROVE WriterInv(v)'
  BY <1>11 DEF StartUpload, Proceed, Rest, readerVars, WriterInv, TypeOK
<1>12. ASSUME NEW w \in Writers, Publish(w) PROVE WriterInv(v)'
  BY <1>12 DEF Publish, Sending, Proceed, readerVars, WriterInv, TypeOK
<1>13. ASSUME NEW w \in Writers, UploadFails(w) PROVE WriterInv(v)'
  BY <1>13 DEF UploadFails, Proceed, Rest, readerVars, WriterInv, TypeOK
<1>14. ASSUME NEW w \in Writers, AnswerLost(w) PROVE WriterInv(v)'
  BY <1>14 DEF AnswerLost, Sending, Proceed, Rest, readerVars, WriterInv,
      TypeOK
<1>15. ASSUME NEW w \in Writers, NarUploaded(w) PROVE WriterInv(v)'
  BY <1>15 DEF NarUploaded, Proceed, Rest, readerVars, WriterInv, TypeOK
<1>16. ASSUME NEW w \in Writers, NarinfoUploaded(w) PROVE WriterInv(v)'
  BY <1>16 DEF NarinfoUploaded, Proceed, readerVars, WriterInv, TypeOK
<1>17. ASSUME NEW w \in Writers, RemoveNegative(w) PROVE WriterInv(v)'
  BY <1>17 DEF RemoveNegative, Removes, Proceed, Rest, readerVars, WriterInv, TypeOK
<1>18. ASSUME NEW w \in Writers, RemovalDropped(w) PROVE WriterInv(v)'
  BY <1>18 DEF RemovalDropped, Proceed, Rest, readerVars, WriterInv, TypeOK
<1>19. ASSUME NEW f \in Files, PublishLate(f) PROVE WriterInv(v)'
  BY <1>19 DEF PublishLate, readerVars, writerVars, WriterInv, TypeOK
<1> QED
  BY <1>1, <1>2, <1>3, <1>4, <1>5, <1>6, <1>7, <1>8, <1>9, <1>10, <1>11,
      <1>12, <1>13, <1>14, <1>15, <1>16, <1>17, <1>18, <1>19
     DEF Next, Read, Write

(***************************************************************************)
(* What the cache promises.                                                *)
(***************************************************************************)
\* The narinfo is sent after the NAR is there.
LEMMA NarFirstStep ==
  ASSUME TypeOK, \A w \in Writers : WriterInv(w), NarinfoImpliesNar, Next
  PROVE  NarinfoImpliesNar'
<1> USE DEF histories
<1>1. ASSUME NEW r \in Readers, NEW p \in Paths, NegativeHit(r, p) PROVE NarinfoImpliesNar'
  BY <1>1 DEF NegativeHit, Arrive, At, Continue, Answer, CountSent,
      PullThrough, writerVars, NarinfoImpliesNar, WriterInv, TypeOK
<1>2. ASSUME NEW r \in Readers, NEW p \in Paths, AskNarinfo(r, p) PROVE NarinfoImpliesNar'
  BY <1>2 DEF AskNarinfo, Arrive, At, Continue, Answer, Refused, writerVars,
      NarinfoImpliesNar, WriterInv, TypeOK
<1>3. ASSUME NEW r \in Readers, NEW p \in Paths, SkipService(r, p) PROVE NarinfoImpliesNar'
  BY <1>3 DEF SkipService, Arrive, At, Continue, writerVars,
      NarinfoImpliesNar, WriterInv, TypeOK
<1>4. ASSUME NEW r \in Readers, LookUpNarinfo(r) PROVE NarinfoImpliesNar'
  BY <1>4 DEF LookUpNarinfo, At, Continue, writerVars, NarinfoImpliesNar,
      WriterInv, TypeOK
<1>5. ASSUME NEW r \in Readers, LookUpFails(r) PROVE NarinfoImpliesNar'
  BY <1>5 DEF LookUpFails, At, Continue, Answer, Throttled, Refused,
      writerVars, NarinfoImpliesNar, WriterInv, TypeOK
<1>6. ASSUME NEW r \in Readers, ServeNarinfo(r) PROVE NarinfoImpliesNar'
  BY <1>6 DEF ServeNarinfo, At, Continue, Answer, writerVars,
      NarinfoImpliesNar, WriterInv, TypeOK
<1>7. ASSUME NEW r \in Readers, InsertNegative(r) PROVE NarinfoImpliesNar'
  BY <1>7 DEF InsertNegative, At, Continue, Answer, CountSent, PullThrough,
      writerVars, NarinfoImpliesNar, WriterInv, TypeOK
<1>8. ASSUME NEW r \in Readers, AskNar(r) PROVE NarinfoImpliesNar'
  BY <1>8 DEF AskNar, At, Continue, AnswerNar, Refused, writerVars,
      NarinfoImpliesNar, WriterInv, TypeOK
<1>9. ASSUME NEW r \in Readers, LookUpNar(r) PROVE NarinfoImpliesNar'
  BY <1>9 DEF LookUpNar, At, Continue, AnswerNar, PullThrough, writerVars,
      NarinfoImpliesNar, WriterInv, TypeOK
<1>10. ASSUME NEW r \in Readers, LookUpNarFails(r) PROVE NarinfoImpliesNar'
  BY <1>10 DEF LookUpNarFails, At, Continue, AnswerNar, Throttled, Refused,
      writerVars, NarinfoImpliesNar, WriterInv, TypeOK
<1>11. ASSUME NEW w \in Writers, NEW p \in Paths, StartUpload(w, p) PROVE NarinfoImpliesNar'
  BY <1>11 DEF StartUpload, Proceed, Rest, readerVars, NarinfoImpliesNar,
      WriterInv, TypeOK
<1>12. ASSUME NEW w \in Writers, Publish(w) PROVE NarinfoImpliesNar'
  BY <1>12 DEF Publish, Sending, Proceed, readerVars, NarinfoImpliesNar,
      WriterInv, TypeOK
<1>13. ASSUME NEW w \in Writers, UploadFails(w) PROVE NarinfoImpliesNar'
  BY <1>13 DEF UploadFails, Proceed, Rest, readerVars, NarinfoImpliesNar,
      WriterInv, TypeOK
<1>14. ASSUME NEW w \in Writers, AnswerLost(w) PROVE NarinfoImpliesNar'
  BY <1>14 DEF AnswerLost, Sending, Proceed, Rest, readerVars,
      NarinfoImpliesNar, WriterInv, TypeOK
<1>15. ASSUME NEW w \in Writers, NarUploaded(w) PROVE NarinfoImpliesNar'
  BY <1>15 DEF NarUploaded, Proceed, Rest, readerVars, NarinfoImpliesNar,
      WriterInv, TypeOK
<1>16. ASSUME NEW w \in Writers, NarinfoUploaded(w) PROVE NarinfoImpliesNar'
  BY <1>16 DEF NarinfoUploaded, Proceed, readerVars, NarinfoImpliesNar,
      WriterInv, TypeOK
<1>17. ASSUME NEW w \in Writers, RemoveNegative(w) PROVE NarinfoImpliesNar'
  BY <1>17 DEF RemoveNegative, Removes, Proceed, Rest, readerVars, NarinfoImpliesNar,
      WriterInv, TypeOK
<1>18. ASSUME NEW w \in Writers, RemovalDropped(w) PROVE NarinfoImpliesNar'
  BY <1>18 DEF RemovalDropped, Proceed, Rest, readerVars, NarinfoImpliesNar,
      WriterInv, TypeOK
<1>19. ASSUME NEW f \in Files, PublishLate(f) PROVE NarinfoImpliesNar'
  BY <1>19 DEF PublishLate, readerVars, writerVars, NarinfoImpliesNar,
      WriterInv, TypeOK
<1> QED
  BY <1>1, <1>2, <1>3, <1>4, <1>5, <1>6, <1>7, <1>8, <1>9, <1>10, <1>11,
      <1>12, <1>13, <1>14, <1>15, <1>16, <1>17, <1>18, <1>19
     DEF Next, Read, Write

\* A reader that was served the narinfo finds the NAR.
LEMMA NarStep ==
  ASSUME TypeOK, \A r \in Readers : ReaderInv(r), NarinfoImpliesNar,
         NarNeverMissing, Next
  PROVE  NarNeverMissing'
<1> USE DEF histories
<1>1. ASSUME NEW r \in Readers, NEW p \in Paths, NegativeHit(r, p) PROVE NarNeverMissing'
  BY <1>1 DEF NegativeHit, Arrive, At, Continue, Answer, CountSent,
      PullThrough, writerVars, NarNeverMissing, TypeOK
<1>2. ASSUME NEW r \in Readers, NEW p \in Paths, AskNarinfo(r, p) PROVE NarNeverMissing'
  BY <1>2 DEF AskNarinfo, Arrive, At, Continue, Answer, Refused, writerVars,
      NarNeverMissing, TypeOK
<1>3. ASSUME NEW r \in Readers, NEW p \in Paths, SkipService(r, p) PROVE NarNeverMissing'
  BY <1>3 DEF SkipService, Arrive, At, Continue, writerVars, NarNeverMissing,
      TypeOK
<1>4. ASSUME NEW r \in Readers, LookUpNarinfo(r) PROVE NarNeverMissing'
  BY <1>4 DEF LookUpNarinfo, At, Continue, writerVars, NarNeverMissing, TypeOK
<1>5. ASSUME NEW r \in Readers, LookUpFails(r) PROVE NarNeverMissing'
  BY <1>5 DEF LookUpFails, At, Continue, Answer, Throttled, Refused,
      writerVars, NarNeverMissing, TypeOK
<1>6. ASSUME NEW r \in Readers, ServeNarinfo(r) PROVE NarNeverMissing'
  BY <1>6 DEF ServeNarinfo, At, Continue, Answer, writerVars, NarNeverMissing,
      TypeOK
<1>7. ASSUME NEW r \in Readers, InsertNegative(r) PROVE NarNeverMissing'
  BY <1>7 DEF InsertNegative, At, Continue, Answer, CountSent, PullThrough,
      writerVars, NarNeverMissing, TypeOK
<1>8. ASSUME NEW r \in Readers, AskNar(r) PROVE NarNeverMissing'
  BY <1>8 DEF AskNar, At, Continue, AnswerNar, Refused, writerVars,
      NarNeverMissing, TypeOK
<1>9. ASSUME NEW r \in Readers, LookUpNar(r) PROVE NarNeverMissing'
  <2>1. <<"nar", rpath[r]>> \in stored
    BY <1>9 DEF LookUpNar, At, ReaderInv, NarinfoImpliesNar, TypeOK
  <2> QED BY <1>9, <2>1 DEF LookUpNar, AnswerNar, NarNeverMissing, TypeOK
<1>10. ASSUME NEW r \in Readers, LookUpNarFails(r) PROVE NarNeverMissing'
  BY <1>10 DEF LookUpNarFails, At, Continue, AnswerNar, Throttled, Refused,
      writerVars, NarNeverMissing, TypeOK
<1>11. ASSUME NEW w \in Writers, NEW p \in Paths, StartUpload(w, p) PROVE NarNeverMissing'
  BY <1>11 DEF StartUpload, Proceed, Rest, readerVars, NarNeverMissing, TypeOK
<1>12. ASSUME NEW w \in Writers, Publish(w) PROVE NarNeverMissing'
  BY <1>12 DEF Publish, Sending, Proceed, readerVars, NarNeverMissing, TypeOK
<1>13. ASSUME NEW w \in Writers, UploadFails(w) PROVE NarNeverMissing'
  BY <1>13 DEF UploadFails, Proceed, Rest, readerVars, NarNeverMissing, TypeOK
<1>14. ASSUME NEW w \in Writers, AnswerLost(w) PROVE NarNeverMissing'
  BY <1>14 DEF AnswerLost, Sending, Proceed, Rest, readerVars,
      NarNeverMissing, TypeOK
<1>15. ASSUME NEW w \in Writers, NarUploaded(w) PROVE NarNeverMissing'
  BY <1>15 DEF NarUploaded, Proceed, Rest, readerVars, NarNeverMissing, TypeOK
<1>16. ASSUME NEW w \in Writers, NarinfoUploaded(w) PROVE NarNeverMissing'
  BY <1>16 DEF NarinfoUploaded, Proceed, readerVars, NarNeverMissing, TypeOK
<1>17. ASSUME NEW w \in Writers, RemoveNegative(w) PROVE NarNeverMissing'
  BY <1>17 DEF RemoveNegative, Removes, Proceed, Rest, readerVars, NarNeverMissing,
      TypeOK
<1>18. ASSUME NEW w \in Writers, RemovalDropped(w) PROVE NarNeverMissing'
  BY <1>18 DEF RemovalDropped, Proceed, Rest, readerVars, NarNeverMissing,
      TypeOK
<1>19. ASSUME NEW f \in Files, PublishLate(f) PROVE NarNeverMissing'
  BY <1>19 DEF PublishLate, readerVars, writerVars, NarNeverMissing, TypeOK
<1> QED
  BY <1>1, <1>2, <1>3, <1>4, <1>5, <1>6, <1>7, <1>8, <1>9, <1>10, <1>11,
      <1>12, <1>13, <1>14, <1>15, <1>16, <1>17, <1>18, <1>19
     DEF Next, Read, Write

\* An entry of the set is taken out by whoever published the narinfo, unless
\* the answer was lost, a reader put it in afterwards or its PUT was dropped.
LEMMA StaleStep ==
  ASSUME TypeOK, \A w \in Writers : WriterInv(w), StaleOnlyByRace, Next
  PROVE  StaleOnlyByRace'
<1> USE DEF histories
<1>1. ASSUME NEW r \in Readers, NEW p \in Paths, NegativeHit(r, p) PROVE StaleOnlyByRace'
  BY <1>1 DEF NegativeHit, Arrive, At, Continue, Answer, CountSent,
      PullThrough, writerVars, StaleOnlyByRace, WriterInv, TypeOK
<1>2. ASSUME NEW r \in Readers, NEW p \in Paths, AskNarinfo(r, p) PROVE StaleOnlyByRace'
  BY <1>2 DEF AskNarinfo, Arrive, At, Continue, Answer, Refused, writerVars,
      StaleOnlyByRace, WriterInv, TypeOK
<1>3. ASSUME NEW r \in Readers, NEW p \in Paths, SkipService(r, p) PROVE StaleOnlyByRace'
  BY <1>3 DEF SkipService, Arrive, At, Continue, writerVars, StaleOnlyByRace,
      WriterInv, TypeOK
<1>4. ASSUME NEW r \in Readers, LookUpNarinfo(r) PROVE StaleOnlyByRace'
  BY <1>4 DEF LookUpNarinfo, At, Continue, writerVars, StaleOnlyByRace,
      WriterInv, TypeOK
<1>5. ASSUME NEW r \in Readers, LookUpFails(r) PROVE StaleOnlyByRace'
  BY <1>5 DEF LookUpFails, At, Continue, Answer, Throttled, Refused,
      writerVars, StaleOnlyByRace, WriterInv, TypeOK
<1>6. ASSUME NEW r \in Readers, ServeNarinfo(r) PROVE StaleOnlyByRace'
  BY <1>6 DEF ServeNarinfo, At, Continue, Answer, writerVars, StaleOnlyByRace,
      WriterInv, TypeOK
<1>7. ASSUME NEW r \in Readers, InsertNegative(r) PROVE StaleOnlyByRace'
  BY <1>7 DEF InsertNegative, At, Continue, Answer, CountSent, PullThrough,
      writerVars, StaleOnlyByRace, WriterInv, TypeOK
<1>8. ASSUME NEW r \in Readers, AskNar(r) PROVE StaleOnlyByRace'
  BY <1>8 DEF AskNar, At, Continue, AnswerNar, Refused, writerVars,
      StaleOnlyByRace, WriterInv, TypeOK
<1>9. ASSUME NEW r \in Readers, LookUpNar(r) PROVE StaleOnlyByRace'
  BY <1>9 DEF LookUpNar, At, Continue, AnswerNar, PullThrough, writerVars,
      StaleOnlyByRace, WriterInv, TypeOK
<1>10. ASSUME NEW r \in Readers, LookUpNarFails(r) PROVE StaleOnlyByRace'
  BY <1>10 DEF LookUpNarFails, At, Continue, AnswerNar, Throttled, Refused,
      writerVars, StaleOnlyByRace, WriterInv, TypeOK
<1>11. ASSUME NEW w \in Writers, NEW p \in Paths, StartUpload(w, p) PROVE StaleOnlyByRace'
  BY <1>11 DEF StartUpload, Proceed, Rest, readerVars, StaleOnlyByRace,
      WriterInv, TypeOK
<1>12. ASSUME NEW w \in Writers, Publish(w) PROVE StaleOnlyByRace'
  BY <1>12 DEF Publish, Sending, Proceed, readerVars, StaleOnlyByRace,
      WriterInv, TypeOK
<1>13. ASSUME NEW w \in Writers, UploadFails(w) PROVE StaleOnlyByRace'
  BY <1>13 DEF UploadFails, Proceed, Rest, readerVars, StaleOnlyByRace,
      WriterInv, TypeOK
<1>14. ASSUME NEW w \in Writers, AnswerLost(w) PROVE StaleOnlyByRace'
  BY <1>14 DEF AnswerLost, Sending, Proceed, Rest, readerVars,
      StaleOnlyByRace, WriterInv, TypeOK
<1>15. ASSUME NEW w \in Writers, NarUploaded(w) PROVE StaleOnlyByRace'
  BY <1>15 DEF NarUploaded, Proceed, Rest, readerVars, StaleOnlyByRace,
      WriterInv, TypeOK
<1>16. ASSUME NEW w \in Writers, NarinfoUploaded(w) PROVE StaleOnlyByRace'
  BY <1>16 DEF NarinfoUploaded, Proceed, readerVars, StaleOnlyByRace,
      WriterInv, TypeOK
<1>17. ASSUME NEW w \in Writers, RemoveNegative(w) PROVE StaleOnlyByRace'
  BY <1>17 DEF RemoveNegative, Removes, Proceed, Rest, readerVars, StaleOnlyByRace,
      WriterInv, TypeOK
<1>18. ASSUME NEW w \in Writers, RemovalDropped(w) PROVE StaleOnlyByRace'
  BY <1>18 DEF RemovalDropped, Proceed, Rest, readerVars, StaleOnlyByRace,
      WriterInv, TypeOK
<1>19. ASSUME NEW f \in Files, PublishLate(f) PROVE StaleOnlyByRace'
  BY <1>19 DEF PublishLate, readerVars, writerVars, StaleOnlyByRace,
      WriterInv, TypeOK
<1> QED
  BY <1>1, <1>2, <1>3, <1>4, <1>5, <1>6, <1>7, <1>8, <1>9, <1>10, <1>11,
      <1>12, <1>13, <1>14, <1>15, <1>16, <1>17, <1>18, <1>19
     DEF Next, Read, Write

\* A reader comes to insert only by a lookup that found nothing.
LEMMA MissedStep ==
  ASSUME TypeOK, \A r \in Readers : ReaderInv(r), ErrorsNeverCached, Next
  PROVE  ErrorsNeverCached'
<1> USE DEF histories
<1>1. ASSUME NEW r \in Readers, NEW p \in Paths, NegativeHit(r, p) PROVE ErrorsNeverCached'
  BY <1>1 DEF NegativeHit, Arrive, At, Continue, Answer, CountSent,
      PullThrough, writerVars, ErrorsNeverCached, ReaderInv, TypeOK
<1>2. ASSUME NEW r \in Readers, NEW p \in Paths, AskNarinfo(r, p) PROVE ErrorsNeverCached'
  BY <1>2 DEF AskNarinfo, Arrive, At, Continue, Answer, Refused, writerVars,
      ErrorsNeverCached, ReaderInv, TypeOK
<1>3. ASSUME NEW r \in Readers, NEW p \in Paths, SkipService(r, p) PROVE ErrorsNeverCached'
  BY <1>3 DEF SkipService, Arrive, At, Continue, writerVars,
      ErrorsNeverCached, ReaderInv, TypeOK
<1>4. ASSUME NEW r \in Readers, LookUpNarinfo(r) PROVE ErrorsNeverCached'
  BY <1>4 DEF LookUpNarinfo, At, Continue, writerVars, ErrorsNeverCached,
      ReaderInv, TypeOK
<1>5. ASSUME NEW r \in Readers, LookUpFails(r) PROVE ErrorsNeverCached'
  BY <1>5 DEF LookUpFails, At, Continue, Answer, Throttled, Refused,
      writerVars, ErrorsNeverCached, ReaderInv, TypeOK
<1>6. ASSUME NEW r \in Readers, ServeNarinfo(r) PROVE ErrorsNeverCached'
  BY <1>6 DEF ServeNarinfo, At, Continue, Answer, writerVars,
      ErrorsNeverCached, ReaderInv, TypeOK
<1>7. ASSUME NEW r \in Readers, InsertNegative(r) PROVE ErrorsNeverCached'
  BY <1>7 DEF InsertNegative, At, Continue, Answer, CountSent, PullThrough,
      writerVars, ErrorsNeverCached, ReaderInv, TypeOK
<1>8. ASSUME NEW r \in Readers, AskNar(r) PROVE ErrorsNeverCached'
  BY <1>8 DEF AskNar, At, Continue, AnswerNar, Refused, writerVars,
      ErrorsNeverCached, ReaderInv, TypeOK
<1>9. ASSUME NEW r \in Readers, LookUpNar(r) PROVE ErrorsNeverCached'
  BY <1>9 DEF LookUpNar, At, Continue, AnswerNar, PullThrough, writerVars,
      ErrorsNeverCached, ReaderInv, TypeOK
<1>10. ASSUME NEW r \in Readers, LookUpNarFails(r) PROVE ErrorsNeverCached'
  BY <1>10 DEF LookUpNarFails, At, Continue, AnswerNar, Throttled, Refused,
      writerVars, ErrorsNeverCached, ReaderInv, TypeOK
<1>11. ASSUME NEW w \in Writers, NEW p \in Paths, StartUpload(w, p) PROVE ErrorsNeverCached'
  BY <1>11 DEF StartUpload, Proceed, Rest, readerVars, ErrorsNeverCached,
      ReaderInv, TypeOK
<1>12. ASSUME NEW w \in Writers, Publish(w) PROVE ErrorsNeverCached'
  BY <1>12 DEF Publish, Sending, Proceed, readerVars, ErrorsNeverCached,
      ReaderInv, TypeOK
<1>13. ASSUME NEW w \in Writers, UploadFails(w) PROVE ErrorsNeverCached'
  BY <1>13 DEF UploadFails, Proceed, Rest, readerVars, ErrorsNeverCached,
      ReaderInv, TypeOK
<1>14. ASSUME NEW w \in Writers, AnswerLost(w) PROVE ErrorsNeverCached'
  BY <1>14 DEF AnswerLost, Sending, Proceed, Rest, readerVars,
      ErrorsNeverCached, ReaderInv, TypeOK
<1>15. ASSUME NEW w \in Writers, NarUploaded(w) PROVE ErrorsNeverCached'
  BY <1>15 DEF NarUploaded, Proceed, Rest, readerVars, ErrorsNeverCached,
      ReaderInv, TypeOK
<1>16. ASSUME NEW w \in Writers, NarinfoUploaded(w) PROVE ErrorsNeverCached'
  BY <1>16 DEF NarinfoUploaded, Proceed, readerVars, ErrorsNeverCached,
      ReaderInv, TypeOK
<1>17. ASSUME NEW w \in Writers, RemoveNegative(w) PROVE ErrorsNeverCached'
  BY <1>17 DEF RemoveNegative, Removes, Proceed, Rest, readerVars, ErrorsNeverCached,
      ReaderInv, TypeOK
<1>18. ASSUME NEW w \in Writers, RemovalDropped(w) PROVE ErrorsNeverCached'
  BY <1>18 DEF RemovalDropped, Proceed, Rest, readerVars, ErrorsNeverCached,
      ReaderInv, TypeOK
<1>19. ASSUME NEW f \in Files, PublishLate(f) PROVE ErrorsNeverCached'
  BY <1>19 DEF PublishLate, readerVars, writerVars, ErrorsNeverCached,
      ReaderInv, TypeOK
<1> QED
  BY <1>1, <1>2, <1>3, <1>4, <1>5, <1>6, <1>7, <1>8, <1>9, <1>10, <1>11,
      <1>12, <1>13, <1>14, <1>15, <1>16, <1>17, <1>18, <1>19
     DEF Next, Read, Write

(***************************************************************************)
(* The invariant and the theorems.                                         *)
(***************************************************************************)
\* Init establishes every part.
LEMMA InitInv == Init => IInv
<1> SUFFICES ASSUME Init PROVE IInv
  OBVIOUS
<1>1. SentExact
  <2>1. Counted = {}
    BY DEF Init, Counted
  <2> QED BY <2>1, FS_EmptySet DEF Init, SentExact
<1>2. TypeOK
  <2>1. sent \in 0 .. Cardinality(Readers)
    BY ReadersAssumption, FS_CardinalityType DEF Init
  <2> QED BY <2>1 DEF Init, TypeOK
<1>3. /\ \A r \in Readers : ReaderInv(r)
      /\ \A w \in Writers : WriterInv(w)
      /\ NarinfoImpliesNar /\ NarNeverMissing
      /\ StaleOnlyByRace /\ ErrorsNeverCached
  BY DEF Init, ReaderInv, WriterInv, NarinfoImpliesNar, NarNeverMissing,
         StaleOnlyByRace, ErrorsNeverCached
<1> QED BY <1>1, <1>2, <1>3 DEF IInv

\* A stuttering step changes nothing the invariant speaks of.
LEMMA SameInv == IInv /\ UNCHANGED vars => IInv'
<1> SUFFICES ASSUME IInv, UNCHANGED vars PROVE IInv'
  OBVIOUS
<1> USE DEF IInv, vars, readerVars, writerVars, histories
<1>1. TypeOK'
  BY DEF TypeOK
<1>2. \A r \in Readers : ReaderInv(r)'
  BY DEF ReaderInv
<1>3. \A w \in Writers : WriterInv(w)'
  BY DEF WriterInv
<1>4. NarinfoImpliesNar' /\ NarNeverMissing' /\ StaleOnlyByRace'
  BY DEF NarinfoImpliesNar, NarNeverMissing, StaleOnlyByRace
<1>5. ErrorsNeverCached' /\ SentExact'
  BY DEF ErrorsNeverCached, SentExact, Counted
<1> QED BY <1>1, <1>2, <1>3, <1>4, <1>5

\* Every step keeps it.
LEMMA NextInv == IInv /\ [Next]_vars => IInv'
<1>1. CASE UNCHANGED vars
  BY <1>1, SameInv
<1>2. ASSUME IInv, Next PROVE IInv'
  <2> USE <1>2 DEF IInv
  <2>1. SentExact'
    BY SentStep
  <2>2. TypeOK'
    BY <2>1, TypeStep
  <2>3. \A r \in Readers : ReaderInv(r)'
    BY ReaderStep
  <2>4. \A w \in Writers : WriterInv(w)'
    BY WriterStep
  <2>5. NarinfoImpliesNar' /\ NarNeverMissing'
    BY NarFirstStep, NarStep
  <2>6. StaleOnlyByRace' /\ ErrorsNeverCached'
    BY StaleStep, MissedStep
  <2> QED BY <2>1, <2>2, <2>3, <2>4, <2>5, <2>6
<1> QED BY <1>1, <1>2

\* IInv holds of every reachable state.
LEMMA InductiveInvariant == Spec => []IInv
BY InitInv, NextInv, PTL DEF Spec

\* Every variable stays in its range, and get_narinfo counts a request once.
THEOREM TypeCorrect == Spec => []TypeOK
<1>1. IInv => TypeOK
  BY DEF IInv
<1> QED BY <1>1, InductiveInvariant, PTL

\* upload_path, and a client that PUTs the NAR first, publish a narinfo only
\* after its NAR, so get_nar finds what get_narinfo has promised.
THEOREM ServedNarsExist == Spec => []NarNeverMissing
<1>1. IInv => NarNeverMissing
  BY DEF IInv
<1> QED BY <1>1, InductiveInvariant, PTL

\* The negative cache is stale only while a writer is about to take the path
\* out, after a lost answer, or by the race of lookup and insertion in
\* get_narinfo.
THEOREM StaleEntriesAreRaces == Spec => []StaleOnlyByRace
<1>1. IInv => StaleOnlyByRace
  BY DEF IInv
<1> QED BY <1>1, InductiveInvariant, PTL

\* get_narinfo remembers as missing only what get_file_url answered None for.
THEOREM OnlyMissesAreCached == Spec => []ErrorsNeverCached
<1>1. IInv => ErrorsNeverCached
  BY DEF IInv
<1> QED BY <1>1, InductiveInvariant, PTL

(***************************************************************************)
(* NarinfoCache implements Substituter.                                    *)
(***************************************************************************)
\* The NAR is answered in the last step of a call only.
NarOnce == \A r \in Readers : rpc[r] # "ended" => nar[r] = "none"

\* No other step answers it.
LEMMA NarOnceStep == IInv /\ NarOnce /\ [Next]_vars => NarOnce'
<1> USE DEF histories
<1> SUFFICES ASSUME IInv, NarOnce, [Next]_vars PROVE NarOnce'
  OBVIOUS
<1> USE DEF NarOnce, IInv, TypeOK
<1>1. CASE \E r \in Readers : Read(r)
  <2>1. PICK r \in Readers : Read(r)
    BY <1>1
  <2>2. CASE \E p \in Paths : NegativeHit(r, p) \/ AskNarinfo(r, p) \/ SkipService(r, p)
    BY <2>2 DEF NegativeHit, AskNarinfo, SkipService, Arrive, At, Answer, Continue
  <2>3. CASE LookUpNarinfo(r) \/ LookUpFails(r) \/ ServeNarinfo(r) \/ InsertNegative(r)
    BY <2>3 DEF LookUpNarinfo, LookUpFails, ServeNarinfo, InsertNegative, At, Answer,
                Continue
  <2>4. CASE AskNar(r) \/ LookUpNar(r) \/ LookUpNarFails(r)
    BY <2>4 DEF AskNar, LookUpNar, LookUpNarFails, At, AnswerNar, Continue
  <2> QED BY <2>1, <2>2, <2>3, <2>4 DEF Read
<1>2. CASE \E w \in Writers : Write(w)
  <2>1. UNCHANGED readerVars
    BY <1>2 DEF Write, StartUpload, Publish, UploadFails, AnswerLost, NarUploaded,
                NarinfoUploaded, RemoveNegative, Removes, RemovalDropped
  <2> QED BY <2>1 DEF readerVars
<1>3. CASE (\E f \in Files : PublishLate(f)) \/ UNCHANGED vars
  <2>1. UNCHANGED readerVars
    BY <1>3 DEF PublishLate, vars
  <2> QED BY <2>1 DEF readerVars
<1> QED BY <1>1, <1>2, <1>3 DEF Next

\* A published narinfo stands for a whole path.
LEMMA NarinfoIsWhole ==
  ASSUME IInv, NEW p \in Paths, <<"narinfo", p>> \in stored
  PROVE  {<<"nar", p>>, <<"narinfo", p>>} \subseteq stored
BY DEF IInv, NarinfoImpliesNar

\* The first answer to a reader, whichever it is.
LEMMA AnswerTells ==
  ASSUME IInv, NEW r \in Readers, NEW p \in Paths, NEW reply \in Replies \ {"none"},
         narinfo[r] = "none", narinfo' = [narinfo EXCEPT ![r] = reply],
         rpath' = [rpath EXCEPT ![r] = p],
         UNCHANGED <<gha, nar, stored, missed>>
  PROVE  Seen!Tell(r, p, Meaning(reply))
<1>1. narinfo \in [Readers -> Replies] /\ rpath \in [Readers -> Paths \cup {NoPath}]
  BY DEF IInv, TypeOK
<1>2. \A c \in Readers : /\ narinfo'[c] = IF c = r THEN reply ELSE narinfo[c]
                         /\ rpath'[c] = IF c = r THEN p ELSE rpath[c]
  BY <1>1
<1>3. [c \in Readers |-> Meaning(narinfo[c])][r] = "nothing"
  BY DEF Meaning
<1>4. [c \in Readers |-> Meaning(narinfo'[c])]
        = [[c \in Readers |-> Meaning(narinfo[c])] EXCEPT ![r] = Meaning(reply)]
  <2>1. \A c \in Readers :
          Meaning(narinfo'[c]) = IF c = r THEN Meaning(reply) ELSE Meaning(narinfo[c])
    <3> SUFFICES ASSUME NEW c \in Readers
                 PROVE  Meaning(narinfo'[c])
                          = IF c = r THEN Meaning(reply) ELSE Meaning(narinfo[c])
      OBVIOUS
    <3>1. CASE c = r
      <4>1. narinfo'[c] = reply
        BY <1>2, <3>1
      <4> QED BY <3>1, <4>1 DEF Meaning
    <3>2. CASE c # r
      <4>1. narinfo'[c] = narinfo[c]
        BY <1>2, <3>2
      <4> QED BY <3>2, <4>1 DEF Meaning
    <3> QED BY <3>1, <3>2
  <2> QED BY <2>1
<1>5. [c \in Readers |-> IF narinfo'[c] = "none" THEN NoPath ELSE rpath'[c]]
        = [[c \in Readers |-> IF narinfo[c] = "none" THEN NoPath ELSE rpath[c]]
             EXCEPT ![r] = p]
  <2>1. reply # "none"
    OBVIOUS
  <2> QED BY <1>2, <2>1
<1> QED BY <1>3, <1>4, <1>5 DEF Seen!Tell

\* A miss, of which there was one before.
LEMMA MissForwards ==
  ASSUME IInv, NEW r \in Readers, NEW p \in Paths,
         Seen!Tell(r, p, Meaning(PullThrough)), CountSent,
         IF gha THEN p \in missed ELSE TRUE
  PROVE  Seen!Next
<1>1. Meaning(PullThrough) = "missing"
  BY DEF Meaning, PullThrough
<1>2. Seen!Forward(r, p)
  BY <1>1 DEF Seen!Forward, CountSent
<1> QED BY <1>2 DEF Seen!Next

\* A refusal.
LEMMA FailureRefuses ==
  ASSUME NEW r \in Readers, NEW p \in Paths, NEW reply \in {"teapot", "429"},
         Seen!Tell(r, p, Meaning(reply)), UNCHANGED sent
  PROVE  Seen!Next
<1>1. Meaning(reply) = "failure"
  BY DEF Meaning
<1>2. Seen!Refuse(r, p)
  BY <1>1 DEF Seen!Refuse
<1> QED BY <1>2 DEF Seen!Next

\* A NAR that is served, or fails.
LEMMA NarBrings ==
  ASSUME IInv, NarOnce, NEW r \in Readers, NEW reply \in {"served", "teapot", "429"},
         rpc[r] \in {"want", "asked nar"}, nar' = [nar EXCEPT ![r] = reply],
         UNCHANGED <<gha, narinfo, rpath, sent, stored, missed>>
  PROVE  Seen!Next
<1> DEFINE how == IF reply = "served" THEN "whole" ELSE "failure"
           Brought(x) == CASE x = "served" -> "whole"
                           [] x = "none" -> "nothing"
                           [] OTHER -> "failure"
<1>1. nar \in [Readers -> Replies] /\ nar[r] = "none"
  BY DEF IInv, TypeOK, NarOnce
<1>2. /\ narinfo[r] = "served" /\ rpath[r] \in Paths
      /\ <<"narinfo", rpath[r]>> \in stored
  BY DEF IInv, TypeOK, ReaderInv
<1>3. {<<"nar", rpath[r]>>, <<"narinfo", rpath[r]>>} \subseteq stored
  BY <1>2, NarinfoIsWhole
<1>4. Meaning("served") = "there" /\ Brought(reply) = how /\ Brought("none") = "nothing"
  BY DEF Meaning
<1>5. [c \in Readers |-> Brought(nar'[c])]
        = [[c \in Readers |-> Brought(nar[c])] EXCEPT ![r] = how]
  <2> HIDE DEF Brought, how
  <2>1. \A c \in Readers : nar'[c] = IF c = r THEN reply ELSE nar[c]
    BY <1>1
  <2>2. \A c \in Readers : Brought(nar'[c]) = IF c = r THEN how ELSE Brought(nar[c])
    <3> SUFFICES ASSUME NEW c \in Readers
                 PROVE  Brought(nar'[c]) = IF c = r THEN how ELSE Brought(nar[c])
      OBVIOUS
    <3>1. CASE c = r
      <4>1. nar'[c] = reply
        BY <2>1, <3>1
      <4> QED BY <1>4, <3>1, <4>1 DEF Brought
    <3>2. CASE c # r
      <4>1. nar'[c] = nar[c]
        BY <2>1, <3>2
      <4> QED BY <3>2, <4>1 DEF Brought
    <3> QED BY <3>1, <3>2
  <2> QED BY <2>2
<1>6. Seen!Bring(r, how)
  <2>1. [c \in Readers |-> Brought(nar[c])][r] = "nothing"
    BY <1>1, <1>4
  <2>2. [c \in Readers |-> Meaning(narinfo[c])][r] = "there"
    BY <1>2, <1>4
  <2>3. /\ [c \in Readers |-> IF narinfo[c] = "none" THEN NoPath ELSE rpath[c]][r] = rpath[r]
        /\ rpath[r] \in {p \in Paths : {<<"nar", p>>, <<"narinfo", p>>} \subseteq stored}
    BY <1>2, <1>3
  <2> QED BY <1>5, <2>1, <2>2, <2>3 DEF Seen!Bring
<1> QED BY <1>6 DEF Seen!Next

\* What a reader asks for is not seen before it has an answer.
LEMMA Unseen ==
  ASSUME UNCHANGED <<gha, narinfo, nar, sent, stored, missed>>,
         \A c \in Readers : narinfo[c] # "none" => rpath'[c] = rpath[c]
  PROVE  UNCHANGED Seen!vars
<1>1. [c \in Readers |-> IF narinfo'[c] = "none" THEN NoPath ELSE rpath'[c]]
        = [c \in Readers |-> IF narinfo[c] = "none" THEN NoPath ELSE rpath[c]]
  OBVIOUS
<1> QED BY <1>1 DEF Seen!vars

\* A file more in the cache makes one path whole, or none.
LEMMA FilePuts ==
  ASSUME NEW f \in Files, stored' = stored \cup {f}, UNCHANGED <<gha, missed, readerVars>>
  PROVE  Seen!Next \/ UNCHANGED Seen!vars
<1> DEFINE Whole(files) == {p \in Paths : {<<"nar", p>>, <<"narinfo", p>>} \subseteq files}
<1>1. PICK kind \in {"nar", "narinfo"}, p \in Paths : f = <<kind, p>>
  OBVIOUS
<1>2. Whole(stored') = Whole(stored) \/ Whole(stored') = Whole(stored) \cup {p}
  BY <1>1
<1>3. CASE Whole(stored') = Whole(stored)
  BY <1>3 DEF readerVars, Seen!vars
<1>4. CASE Whole(stored') = Whole(stored) \cup {p}
  <2>1. Seen!Put(p)
    BY <1>4 DEF readerVars, Seen!Put
  <2> QED BY <2>1 DEF Seen!Next
<1> QED BY <1>2, <1>3, <1>4

\* get_narinfo, up to its first await.
LEMMA ArrivalSeen ==
  ASSUME IInv, NEW r \in Readers, NEW p \in Paths,
         NegativeHit(r, p) \/ AskNarinfo(r, p) \/ SkipService(r, p)
  PROVE  Seen!Next \/ UNCHANGED Seen!vars
<1> USE DEF histories
<1>1. narinfo[r] = "none" /\ rpath' = [rpath EXCEPT ![r] = p] /\ UNCHANGED <<gha, nar, stored, missed>>
  BY DEF NegativeHit, AskNarinfo, SkipService, Arrive, At, writerVars, IInv, ReaderInv
<1>2. rpath \in [Readers -> Paths \cup {NoPath}]
  BY DEF IInv, TypeOK
<1>3. CASE NegativeHit(r, p)
  <2>1. narinfo' = [narinfo EXCEPT ![r] = PullThrough] /\ CountSent
    BY <1>3 DEF NegativeHit, Answer
  <2>2. PullThrough \in Replies \ {"none"}
    BY DEF PullThrough
  <2>3. IF gha THEN p \in missed ELSE TRUE
    BY <1>3 DEF NegativeHit, IInv, ErrorsNeverCached
  <2> QED BY <1>1, <2>1, <2>2, <2>3, AnswerTells, MissForwards
<1>4. CASE AskNarinfo(r, p) /\ tripped
  <2>1. narinfo' = [narinfo EXCEPT ![r] = "teapot"] /\ UNCHANGED sent
    BY <1>4 DEF AskNarinfo, Answer, Refused
  <2>2. Seen!Tell(r, p, Meaning("teapot"))
    BY <1>1, <2>1, AnswerTells
  <2> QED BY <2>1, <2>2, FailureRefuses
<1>5. CASE (AskNarinfo(r, p) /\ ~tripped) \/ SkipService(r, p)
  <2>1. UNCHANGED <<narinfo, sent>>
    BY <1>5 DEF AskNarinfo, SkipService
  <2>2. \A c \in Readers : narinfo[c] # "none" => rpath'[c] = rpath[c]
    BY <1>1, <1>2
  <2> QED BY <1>1, <2>1, <2>2, Unseen
<1> QED BY <1>3, <1>4, <1>5

\* The rest of get_narinfo.
LEMMA NarinfoSeen ==
  ASSUME IInv, NEW r \in Readers,
         LookUpNarinfo(r) \/ LookUpFails(r) \/ ServeNarinfo(r) \/ InsertNegative(r)
  PROVE  Seen!Next \/ UNCHANGED Seen!vars
<1> USE DEF histories
<1> DEFINE p == rpath[r]
<1>1. p \in Paths /\ narinfo[r] = "none"
  BY DEF LookUpNarinfo, LookUpFails, ServeNarinfo, InsertNegative, At, IInv, ReaderInv
<1>2. rpath' = [rpath EXCEPT ![r] = p] /\ UNCHANGED <<gha, nar, stored, rpath>>
  BY DEF LookUpNarinfo, LookUpFails, ServeNarinfo, InsertNegative, writerVars, IInv, TypeOK
<1>3. CASE LookUpNarinfo(r)
  <2>1. UNCHANGED <<gha, rpath, narinfo, nar, sent, stored>>
    BY <1>3 DEF LookUpNarinfo
  <2>2. CASE <<"narinfo", p>> \in stored
    <3>1. UNCHANGED missed
      BY <1>3, <2>2 DEF LookUpNarinfo
    <3> QED BY <2>1, <3>1, Unseen
  <2>3. CASE <<"narinfo", p>> \notin stored
    <3>1. missed' = missed \cup {p}
      BY <1>3, <2>3 DEF LookUpNarinfo
    <3>2. Seen!LookInVain(p)
      <4>1. p \notin {q \in Paths : {<<"nar", q>>, <<"narinfo", q>>} \subseteq stored}
        BY <2>3
      <4>2. (IF gha THEN missed ELSE Paths)' = (IF gha THEN missed ELSE Paths) \cup {p}
        BY <1>1, <2>1, <3>1
      <4> QED BY <2>1, <4>1, <4>2 DEF Seen!LookInVain
    <3> QED BY <1>1, <3>2 DEF Seen!Next
  <2> QED BY <2>2, <2>3
<1>4. CASE LookUpFails(r)
  <2>1. PICK reply \in {"teapot", "429"} :
          narinfo' = [narinfo EXCEPT ![r] = reply] /\ UNCHANGED <<sent, missed>>
    BY <1>4 DEF LookUpFails, Answer, Throttled, Refused
  <2>2. Seen!Tell(r, p, Meaning(reply))
    BY <1>1, <1>2, <2>1, AnswerTells
  <2> QED BY <1>1, <2>1, <2>2, FailureRefuses
<1>5. CASE ServeNarinfo(r)
  <2>1. narinfo' = [narinfo EXCEPT ![r] = "served"] /\ UNCHANGED <<sent, missed>>
    BY <1>5 DEF ServeNarinfo, Answer
  <2>2. Seen!Tell(r, p, Meaning("served")) /\ Meaning("served") = "there"
    BY <1>1, <1>2, <2>1, AnswerTells DEF Meaning
  <2>3. <<"narinfo", p>> \in stored
    BY <1>5 DEF ServeNarinfo, At, IInv, ReaderInv
  <2>4. p \in {q \in Paths : {<<"nar", q>>, <<"narinfo", q>>} \subseteq stored}
    BY <1>1, <2>3, NarinfoIsWhole
  <2>5. Seen!Offer(r, p)
    BY <2>1, <2>2, <2>4 DEF Seen!Offer
  <2> QED BY <1>1, <2>5 DEF Seen!Next
<1>6. CASE InsertNegative(r)
  <2>1. narinfo' = [narinfo EXCEPT ![r] = PullThrough] /\ CountSent /\ UNCHANGED missed
    BY <1>6 DEF InsertNegative, Answer
  <2>2. PullThrough \in Replies \ {"none"}
    BY DEF PullThrough
  <2>3. IF gha THEN p \in missed ELSE TRUE
    BY <1>6 DEF InsertNegative, At, IInv, ReaderInv
  <2> QED BY <1>1, <1>2, <2>1, <2>2, <2>3, AnswerTells, MissForwards
<1> QED BY <1>3, <1>4, <1>5, <1>6

\* get_nar.
LEMMA NarSeen ==
  ASSUME IInv, NarOnce, NEW r \in Readers,
         AskNar(r) \/ LookUpNar(r) \/ LookUpNarFails(r)
  PROVE  Seen!Next \/ UNCHANGED Seen!vars
<1> USE DEF histories
<1>1. UNCHANGED <<gha, narinfo, rpath, sent, stored, missed>> /\ rpc[r] \in {"want", "asked nar"}
  BY DEF AskNar, LookUpNar, LookUpNarFails, At, writerVars
<1>2. CASE AskNar(r) /\ ~tripped
  <2>1. UNCHANGED nar
    BY <1>2 DEF AskNar
  <2> QED BY <1>1, <2>1, Unseen
<1>3. CASE AskNar(r) /\ tripped
  <2>1. nar' = [nar EXCEPT ![r] = "teapot"]
    BY <1>3 DEF AskNar, AnswerNar, Refused
  <2> QED BY <1>1, <2>1, NarBrings
<1>4. CASE LookUpNar(r)
  <2>1. rpath[r] \in Paths /\ <<"narinfo", rpath[r]>> \in stored
    BY <1>4 DEF LookUpNar, At, IInv, TypeOK, ReaderInv
  <2>2. <<"nar", rpath[r]>> \in stored
    BY <2>1, NarinfoIsWhole
  <2>3. nar' = [nar EXCEPT ![r] = "served"]
    BY <1>4, <2>2 DEF LookUpNar, AnswerNar
  <2> QED BY <1>1, <2>3, NarBrings
<1>5. CASE LookUpNarFails(r)
  <2>1. PICK reply \in {"teapot", "429"} : nar' = [nar EXCEPT ![r] = reply]
    BY <1>5 DEF LookUpNarFails, AnswerNar, Throttled, Refused
  <2> QED BY <1>1, <2>1, NarBrings
<1> QED BY <1>2, <1>3, <1>4, <1>5

\* The writers.
LEMMA WriterSeen ==
  ASSUME IInv, NEW w \in Writers, Write(w)
  PROVE  Seen!Next \/ UNCHANGED Seen!vars
<1> USE DEF histories
<1>1. UNCHANGED <<gha, missed, readerVars>>
  BY DEF Write, StartUpload, Publish, UploadFails, AnswerLost, NarUploaded,
         NarinfoUploaded, RemoveNegative, Removes, RemovalDropped
<1>2. CASE Publish(w)
  <2>1. Sending(w) \in Files /\ stored' = stored \cup {Sending(w)}
    BY <1>2 DEF Publish, Sending, IInv, WriterInv
  <2> QED BY <1>1, <2>1, FilePuts
<1>3. CASE ~Publish(w)
  <2>1. UNCHANGED stored
    BY <1>3 DEF Write, StartUpload, UploadFails, AnswerLost, NarUploaded,
                NarinfoUploaded, RemoveNegative, Removes, RemovalDropped
  <2> QED BY <1>1, <2>1, Unseen DEF readerVars
<1> QED BY <1>2, <1>3

\* Every step is one that a Substituter may take, or is not seen.
LEMMA SubstituterStep == IInv /\ NarOnce /\ [Next]_vars => [Seen!Next]_(Seen!vars)
<1> SUFFICES ASSUME IInv, NarOnce, [Next]_vars PROVE Seen!Next \/ UNCHANGED Seen!vars
  BY Zenon
<1>1. ASSUME NEW r \in Readers, Read(r) PROVE Seen!Next \/ UNCHANGED Seen!vars
  BY <1>1, ArrivalSeen, NarinfoSeen, NarSeen DEF Read
<1>2. ASSUME NEW f \in Files, PublishLate(f) PROVE Seen!Next \/ UNCHANGED Seen!vars
  BY <1>2, FilePuts DEF PublishLate, histories
<1>3. CASE UNCHANGED vars
  BY <1>3, Unseen DEF vars, readerVars, histories
<1> QED BY <1>1, <1>2, <1>3, WriterSeen DEF Next

\* To its clients the binary cache API serves whole paths, tells a failure as
\* a failure and a path as missing only when the service once was without
\* it, whatever the uploads, the negative cache and the breaker do.
THEOREM SubstitutesWhole == Spec => SubstitutesWholePaths
<1>1. Init => NarOnce /\ Seen!Init
  BY DEF Init, NarOnce, Meaning, Seen!Init
<1> QED
  BY <1>1, NarOnceStep, SubstituterStep, InductiveInvariant, PTL
  DEF Spec, SubstitutesWholePaths, Seen!Spec
=============================================================================
