--------------------------- MODULE UploadsProofs ---------------------------
(***************************************************************************)
(* Proofs about Uploads, for any candidates, contents, runs and times that *)
(* satisfy its assumptions.  The invariants are split by what they are     *)
(* about: types, the sweep's timing, and where a document's bytes are.     *)
(***************************************************************************)
EXTENDS Uploads, TLAPS

-----------------------------------------------------------------------------
(* Types.                                                                  *)

\* The initial state has the types.
LEMMA InitTypeOK == Init => TypeOK
  BY TimeAssumption DEF Init, TypeOK, RunStep

\* Every step keeps the types: one case for each action.
LEMMA StepTypeOK == TypeOK /\ [Next]_vars => TypeOK'
<1> SUFFICES ASSUME TypeOK, [Next]_vars
             PROVE  TypeOK'
  OBVIOUS
<1> USE TimeAssumption, ModeAssumption DEF TypeOK, stores, runs, sweeper
<1>1. CASE Tick
  BY <1>1 DEF Tick
<1>2. ASSUME NEW c \in Candidate, CreateUpload(c)
      PROVE  TypeOK'
  BY <1>2 DEF CreateUpload
<1>3. ASSUME NEW c \in Candidate, NEW k \in Content, PutUpload(c, k)
      PROVE  TypeOK'
  BY <1>3 DEF PutUpload
<1>4. ASSUME NEW r \in Run, NEW c \in Candidate, Notify(r, c)
      PROVE  TypeOK'
  BY <1>4 DEF Notify, RunStep, Running
<1>5. ASSUME NEW r \in Run, CommitStep(r)
      PROVE  TypeOK'
  <2>1. CASE DocumentRef(r)
    BY <2>1 DEF DocumentRef, Return, Go, RunStep, Running
  <2>2. CASE CheckUpload(r)
    BY <2>2 DEF CheckUpload, Go, RunStep, Running, Committing
  <2>3. CASE OpenUpload(r)
    BY <2>3 DEF OpenUpload, Go, RunStep, Running, Committing
  <2>4. CASE DescribeUpload(r)
    BY <2>4 DEF DescribeUpload, Go, RunStep, Running, Committing
  <2>5. CASE InsertDocument(r)
    BY <2>5 DEF InsertDocument, Return, Go, RunStep, Running, Committing
  <2>6. CASE ReadBack(r)
    BY <2>6 DEF ReadBack, Go, RunStep, Running, Committing
  <2>7. CASE DiscardUpload(r)
    BY <2>7 DEF DiscardUpload, Go, RunStep
  <2>8. QED
    BY <1>5, <2>1, <2>2, <2>3, <2>4, <2>5, <2>6, <2>7 DEF CommitStep
<1>6. ASSUME NEW r \in Run, Retry(r)
      PROVE  TypeOK'
  BY <1>6 DEF Retry, Go, RunStep, Running, Committing
<1>7. ASSUME NEW r \in Run, Fail(r)
      PROVE  TypeOK'
  BY <1>7 DEF Fail, Go, RunStep, Running, Committing
<1>8. ASSUME NEW d \in Candidate, DeleteLock(d) \/ DeleteStep(d) \/ DeleteRollback(d)
      PROVE  TypeOK'
  BY <1>8 DEF DeleteLock, DeleteStep, DeleteObjects, DeleteCommit, DeleteRollback
<1>9. CASE SweepBegin \/ ListStale \/ ExcludeDocuments
  BY <1>9 DEF SweepBegin, ListStale, ExcludeDocuments
<1>10. CASE DeleteStale \/ SweepFail
  BY <1>10 DEF DeleteStale, SweepFail, Removed
<1>11. CASE UNCHANGED vars
  BY <1>11 DEF vars
<1>12. QED
  BY <1>1, <1>2, <1>3, <1>4, <1>5, <1>6, <1>7, <1>8, <1>9, <1>10, <1>11 DEF Next

\* Every variable keeps its type, whatever the processes do.
THEOREM TypeCorrect == Spec => []TypeOK
  BY InitTypeOK, StepTypeOK, PTL DEF Spec

-----------------------------------------------------------------------------
(* The sweep.  A stale candidate was written more than AbandonedAfter      *)
(* before the sweep began; a commit that passed its age check was within   *)
(* CommitWindow of that write and ends within MaxCommit.  So no commit of  *)
(* a stale candidate is still going, and none can start.                   *)

\* An upload URL is good for PutTTL from its signing, and signing precedes
\* the write.
UrlTimes ==
    \A c \in Candidate :
        /\ expires[c] <= now + PutTTL
        /\ written[c] <= now
        /\ written[c] # -1 => expires[c] # -1 /\ expires[c] <= written[c] + PutTTL
        /\ bytes[c] # None => written[c] # -1

\* A commit runs within MaxCommit of a check that its bytes were young.
CommitTimes ==
    \A r \in Run :
        pc[r] \in Committing =>
            /\ now <= checked[r] + MaxCommit
            /\ written[cand[r]] # -1
            /\ checked[r] <= written[cand[r]] + CommitWindow

\* What the sweep found was old when it began.
StaleTimes ==
    /\ sweepStart <= now
    /\ sweep \in {"idle", "list"} => stale = {}
    /\ \A c \in stale :
           /\ written[c] # -1
           /\ sweepStart - written[c] > AbandonedAfter

\* Once the sweep has asked, nothing it holds becomes a document.
StaleUnrecorded == sweep = "delete" => \A c \in stale : ~IsDocument(c)

SweepInv == UrlTimes /\ CommitTimes /\ StaleTimes /\ StaleUnrecorded

\* The timing argument: a commit of a stale candidate would have ended.
LEMMA StaleNotCommitting ==
    ASSUME TypeOK, UrlTimes, CommitTimes, StaleTimes,
           NEW c \in stale, NEW r \in Run, cand[r] = c
    PROVE  pc[r] \notin Committing
<1> SUFFICES ASSUME pc[r] \in Committing
             PROVE  FALSE
  OBVIOUS
<1>1. c \in Candidate
  BY DEF TypeOK
<1>2. now <= checked[r] + MaxCommit /\ checked[r] <= written[c] + CommitWindow
  BY DEF CommitTimes
<1>3. sweepStart <= now /\ sweepStart - written[c] > AbandonedAfter
  BY DEF StaleTimes
<1>4. /\ now \in Int /\ checked[r] \in Int /\ written[c] \in Int /\ sweepStart \in Int
      /\ MaxCommit \in Int /\ CommitWindow \in Int /\ AbandonedAfter \in Int
  BY <1>1, TimeAssumption DEF TypeOK
<1>5. CommitWindow + MaxCommit <= AbandonedAfter
  BY TimeAssumption
<1>6. QED
  BY <1>2, <1>3, <1>4, <1>5

\* Its upload URL has expired too.
LEMMA StaleNotWritten ==
    ASSUME TypeOK, UrlTimes, StaleTimes, NEW c \in stale
    PROVE  ~(now <= expires[c])
<1>1. c \in Candidate
  BY DEF TypeOK
<1>2. sweepStart <= now /\ sweepStart - written[c] > AbandonedAfter
  BY DEF StaleTimes
<1>3. expires[c] <= written[c] + PutTTL
  BY <1>1 DEF UrlTimes, StaleTimes
<1>4. /\ now \in Int /\ expires[c] \in Int /\ written[c] \in Int /\ sweepStart \in Int
      /\ PutTTL \in Int /\ AbandonedAfter \in Int
  BY <1>1, TimeAssumption DEF TypeOK
<1>5. PutTTL <= AbandonedAfter
  BY TimeAssumption
<1>6. QED
  BY <1>2, <1>3, <1>4, <1>5

\* The timing invariant holds at the start, when nothing is listed.
LEMMA InitSweepInv == Init => SweepInv
  BY TimeAssumption
  DEF Init, SweepInv, UrlTimes, CommitTimes, StaleTimes, StaleUnrecorded, Committing

\* Every step keeps the timing invariant, the clock and the query among them.
LEMMA StepSweepInv == TypeOK /\ SweepInv /\ [Next]_vars => SweepInv'
<1> SUFFICES ASSUME TypeOK, SweepInv, [Next]_vars
             PROVE  SweepInv'
  OBVIOUS
<1> USE DEF stores, runs, sweeper
<1>0. UrlTimes /\ CommitTimes /\ StaleTimes /\ StaleUnrecorded
  BY DEF SweepInv
<1>1. CASE Tick
  <2>1. now' = now + 1 /\ UNCHANGED <<stores, runs, sweeper>>
    BY <1>1 DEF Tick
  <2>2. UrlTimes' /\ StaleTimes' /\ StaleUnrecorded'
    BY <1>0, <2>1, TimeAssumption
    DEF UrlTimes, StaleTimes, StaleUnrecorded, IsDocument, TypeOK
  <2>3. CommitTimes'
    BY <1>0, <1>1, <2>1, TimeAssumption DEF CommitTimes, Tick, TypeOK
  <2>4. QED
    BY <2>2, <2>3 DEF SweepInv
<1>2. ASSUME NEW c \in Candidate, CreateUpload(c)
      PROVE  SweepInv'
  <2>1. written[c] = -1
    BY <1>0, <1>2, TimeAssumption DEF UrlTimes, CreateUpload, TypeOK
  <2>2. UrlTimes'
    BY <1>0, <1>2, <2>1, TimeAssumption DEF UrlTimes, CreateUpload, TypeOK
  <2>3. CommitTimes' /\ StaleTimes' /\ StaleUnrecorded'
    BY <1>0, <1>2
    DEF CreateUpload, CommitTimes, StaleTimes, StaleUnrecorded, IsDocument
  <2>4. QED
    BY <2>2, <2>3 DEF SweepInv
<1>3. ASSUME NEW c \in Candidate, NEW k \in Content, PutUpload(c, k)
      PROVE  SweepInv'
  <2>1. c \notin stale
    BY <1>0, <1>3, StaleNotWritten DEF PutUpload
  <2>2. UrlTimes'
    BY <1>0, <1>3, TimeAssumption DEF UrlTimes, PutUpload, TypeOK
  <2>3. CommitTimes'
    BY <1>0, <1>3, TimeAssumption
    DEF CommitTimes, UrlTimes, PutUpload, TypeOK, Committing
  <2>4. StaleTimes' /\ StaleUnrecorded'
    BY <1>0, <1>3, <2>1 DEF PutUpload, StaleTimes, StaleUnrecorded, IsDocument, TypeOK
  <2>5. QED
    BY <2>2, <2>3, <2>4 DEF SweepInv
<1>4. ASSUME NEW r \in Run, NEW c \in Candidate, Notify(r, c)
      PROVE  SweepInv'
  <2>1. UrlTimes' /\ StaleTimes' /\ StaleUnrecorded'
    BY <1>0, <1>4 DEF Notify, UrlTimes, StaleTimes, StaleUnrecorded, IsDocument
  <2>2. CommitTimes'
    BY <1>0, <1>4 DEF Notify, CommitTimes, TypeOK, Committing
  <2>3. QED
    BY <2>1, <2>2 DEF SweepInv
<1>5. ASSUME NEW r \in Run, CommitStep(r)
      PROVE  SweepInv'
  <2>1. CASE DocumentRef(r)
    BY <1>0, <2>1
    DEF DocumentRef, Return, Go, SweepInv, UrlTimes, CommitTimes, StaleTimes,
        StaleUnrecorded, IsDocument, TypeOK, Committing
  <2>2. CASE CheckUpload(r)
    <3>1. UrlTimes' /\ StaleTimes' /\ StaleUnrecorded'
      BY <1>0, <2>2 DEF CheckUpload, UrlTimes, StaleTimes, StaleUnrecorded, IsDocument
    <3>2. cand[r] \in Candidate
      BY <2>2 DEF CheckUpload, TypeOK
    <3>3. CommitTimes'
      <4>1. CASE bytes[cand[r]] # None /\ Fresh(cand[r])
        BY <1>0, <2>2, <3>2, <4>1, TimeAssumption
        DEF CheckUpload, Go, Fresh, CommitTimes, UrlTimes, TypeOK, Committing
      <4>2. CASE ~(bytes[cand[r]] # None /\ Fresh(cand[r]))
        BY <1>0, <2>2, <4>2 DEF CheckUpload, Go, CommitTimes, TypeOK, Committing
      <4>3. QED
        BY <4>1, <4>2
    <3>4. QED
      BY <3>1, <3>3 DEF SweepInv
  <2>3. CASE OpenUpload(r)
    BY <1>0, <2>3
    DEF OpenUpload, Go, SweepInv, UrlTimes, CommitTimes, StaleTimes,
        StaleUnrecorded, IsDocument, TypeOK, Committing
  <2>4. CASE DescribeUpload(r)
    BY <1>0, <2>4
    DEF DescribeUpload, Go, SweepInv, UrlTimes, CommitTimes, StaleTimes,
        StaleUnrecorded, IsDocument, TypeOK, Committing
  <2>5. CASE InsertDocument(r)
    <3>1. cand[r] \notin stale
      BY <1>0, <2>5, StaleNotCommitting DEF InsertDocument, Committing
    <3>2. UrlTimes' /\ StaleTimes' /\ CommitTimes'
      BY <1>0, <2>5
      DEF InsertDocument, Return, Go, UrlTimes, StaleTimes, CommitTimes, TypeOK, Committing
    <3>3. StaleUnrecorded'
      BY <1>0, <2>5, <3>1 DEF InsertDocument, StaleUnrecorded, IsDocument, TypeOK
    <3>4. QED
      BY <3>2, <3>3 DEF SweepInv
  <2>6. CASE ReadBack(r)
    BY <1>0, <2>6
    DEF ReadBack, Go, SweepInv, UrlTimes, CommitTimes, StaleTimes,
        StaleUnrecorded, IsDocument, TypeOK, Committing
  <2>7. CASE DiscardUpload(r)
    BY <1>0, <2>7
    DEF DiscardUpload, Go, SweepInv, UrlTimes, CommitTimes, StaleTimes,
        StaleUnrecorded, IsDocument, TypeOK, Committing
  <2>8. QED
    BY <1>5, <2>1, <2>2, <2>3, <2>4, <2>5, <2>6, <2>7 DEF CommitStep
<1>6. ASSUME NEW r \in Run, Retry(r) \/ Fail(r)
      PROVE  SweepInv'
  BY <1>0, <1>6
  DEF Retry, Fail, Go, SweepInv, UrlTimes, CommitTimes, StaleTimes,
      StaleUnrecorded, IsDocument, TypeOK, Committing
<1>7. ASSUME NEW d \in Candidate, DeleteLock(d) \/ DeleteStep(d) \/ DeleteRollback(d)
      PROVE  SweepInv'
  <2>1. /\ UNCHANGED <<now, expires, written, runs, sweeper>>
        /\ \A c \in Candidate : bytes'[c] # None => bytes[c] # None
        /\ \A c \in Candidate : recorded'[c] # None => recorded[c] # None
    BY <1>7
    DEF DeleteLock, DeleteStep, DeleteObjects, DeleteCommit, DeleteRollback, TypeOK
  <2>2. QED
    BY <1>0, <2>1
    DEF SweepInv, UrlTimes, CommitTimes, StaleTimes, StaleUnrecorded, IsDocument, TypeOK
<1>8. CASE SweepBegin
  BY <1>0, <1>8, TimeAssumption
  DEF SweepBegin, SweepInv, UrlTimes, CommitTimes, StaleTimes, StaleUnrecorded,
      IsDocument, TypeOK
<1>9. CASE ListStale
  <2>1. UrlTimes' /\ CommitTimes' /\ StaleUnrecorded'
    BY <1>0, <1>9 DEF ListStale, UrlTimes, CommitTimes, StaleUnrecorded
  <2>2. StaleTimes'
    BY <1>0, <1>9 DEF ListStale, UrlTimes, StaleTimes
  <2>3. QED
    BY <2>1, <2>2 DEF SweepInv
<1>10. CASE ExcludeDocuments
  BY <1>0, <1>10
  DEF ExcludeDocuments, SweepInv, UrlTimes, CommitTimes, StaleTimes,
      StaleUnrecorded, IsDocument
<1>11. CASE DeleteStale \/ SweepFail
  <2>1. /\ UNCHANGED <<now, expires, written, recorded, runs, sweepStart>>
        /\ sweep' = "idle" /\ stale' = {}
        /\ \A c \in Candidate : bytes'[c] # None => bytes[c] # None
    BY <1>11 DEF DeleteStale, SweepFail, Removed
  <2>2. QED
    BY <1>0, <2>1 DEF SweepInv, UrlTimes, CommitTimes, StaleTimes, StaleUnrecorded
<1>12. CASE UNCHANGED vars
  BY <1>0, <1>12
  DEF vars, SweepInv, UrlTimes, CommitTimes, StaleTimes, StaleUnrecorded, IsDocument
<1>13. QED
  BY <1>1, <1>2, <1>3, <1>4, <1>5, <1>6, <1>7, <1>8, <1>9, <1>10, <1>11, <1>12 DEF Next

\* The timing invariant: what the sweep holds has been old for longer than any
\* commit takes, since before it listed (ABANDONED_AFTER, sweep_flow.py:10).
THEOREM SweepInvariant == Spec => []SweepInv
<1>1. TypeOK /\ SweepInv /\ [Next]_vars => SweepInv'
  BY StepSweepInv
<1>2. QED
  BY <1>1, InitSweepInv, TypeCorrect, PTL DEF Spec

\* What the sweep deletes is not a document and is not being committed, for
\* any commit window, longest commit and abandonment age in the right order.
THEOREM SweepIsSafe == Spec => []SweepSparesCommits
<1>1. TypeOK /\ SweepInv => SweepSparesCommits
  BY StaleNotCommitting DEF SweepInv, SweepSparesCommits, StaleUnrecorded
<1>2. QED
  BY <1>1, TypeCorrect, SweepInvariant, PTL

-----------------------------------------------------------------------------
(* One document for each content.                                          *)

\* No step records a content a second time: only the insert records, and it
\* looks at every row (documents_content_key).
LEMMA StepOneDocument ==
    TypeOK /\ OneDocumentPerContent /\ [Next]_vars => OneDocumentPerContent'
<1> SUFFICES ASSUME TypeOK, OneDocumentPerContent, [Next]_vars
             PROVE  OneDocumentPerContent'
  OBVIOUS
<1> USE DEF OneDocumentPerContent, IsDocument, stores, runs, sweeper
<1>1. ASSUME NEW r \in Run, InsertDocument(r)
      PROVE  OneDocumentPerContent'
  BY <1>1 DEF InsertDocument, Return, Go, TypeOK
<1>2. ASSUME NEW d \in Candidate, DeleteCommit(d)
      PROVE  OneDocumentPerContent'
  BY <1>2 DEF DeleteCommit, TypeOK
<1>3. CASE UNCHANGED recorded
  BY <1>3
<1>4. \/ \E r \in Run : InsertDocument(r)
      \/ \E d \in Candidate : DeleteCommit(d)
      \/ UNCHANGED recorded
  BY DEF Next, vars, Tick, CreateUpload, PutUpload, Notify, CommitStep, DocumentRef,
         CheckUpload, OpenUpload, DescribeUpload, ReadBack, DiscardUpload, Retry, Fail,
         DeleteLock, DeleteStep, DeleteObjects, DeleteRollback, SweepBegin, ListStale,
         ExcludeDocuments, DeleteStale, SweepFail
<1>5. QED
  BY <1>1, <1>2, <1>3, <1>4

\* However many uploads of the same bytes are committed at the same time, they
\* become one document.
THEOREM ContentIsUnique == Spec => []OneDocumentPerContent
<1>1. Init => OneDocumentPerContent
  BY DEF Init, OneDocumentPerContent, IsDocument
<1>2. QED
  BY <1>1, StepOneDocument, TypeCorrect, PTL DEF Spec

-----------------------------------------------------------------------------
(* A document keeps its bytes: what takes bytes away.  Any step leaves the *)
(* bytes of a candidate alone, or is one of five.                          *)

\* What takes or gives bytes, for every step.
LEMMA BytesChange ==
    ASSUME TypeOK, SweepInv, [Next]_vars, NEW c \in Candidate, bytes'[c] # bytes[c]
    PROVE  \/ /\ bytes[c] = None
              /\ Rewrite \/ written[c] = -1
              /\ UNCHANGED <<recorded, deletion, runs>>
           \/ /\ bytes'[c] = None
              /\ UNCHANGED <<recorded, deletion, runs>>
              /\ c \in stale
              /\ ~IsDocument(c)
              /\ \A r \in Run : cand[r] = c => pc[r] \notin Committing
           \/ /\ deletion[c] = "locked"
              /\ UNCHANGED <<recorded, runs>>
              /\ deletion' = [deletion EXCEPT ![c] = "emptied"]
           \/ \E r \in Run : DiscardUpload(r) /\ cand[r] = c /\ bytes'[c] = None
<1> USE DEF stores, runs, sweeper
<1>1. CASE \E d \in Candidate, k \in Content : PutUpload(d, k)
  BY <1>1 DEF PutUpload, TypeOK
<1>2. CASE DeleteStale \/ SweepFail
  <2>1. /\ c \in stale /\ sweep = "delete" /\ bytes'[c] = None
        /\ UNCHANGED <<recorded, deletion, runs>>
    BY <1>2 DEF DeleteStale, SweepFail, Removed
  <2>2. UrlTimes /\ CommitTimes /\ StaleTimes /\ StaleUnrecorded
    BY DEF SweepInv
  <2>3. \A r \in Run : cand[r] = c => pc[r] \notin Committing
    BY <2>1, <2>2, StaleNotCommitting
  <2>4. ~IsDocument(c)
    BY <2>1, <2>2 DEF StaleUnrecorded
  <2>5. QED
    BY <2>1, <2>3, <2>4
<1>3. CASE \E d \in Candidate : DeleteObjects(d)
  BY <1>3 DEF DeleteObjects, TypeOK
<1>4. CASE \E r \in Run : DiscardUpload(r)
  <2>1. PICK r \in Run : DiscardUpload(r)
    BY <1>4
  <2>2. cand[r] = c /\ bytes'[c] = None
    BY <2>1 DEF DiscardUpload, TypeOK
  <2>3. QED
    BY <2>1, <2>2
<1>5. \/ \E d \in Candidate, k \in Content : PutUpload(d, k)
      \/ DeleteStale \/ SweepFail
      \/ \E d \in Candidate : DeleteObjects(d)
      \/ \E r \in Run : DiscardUpload(r)
  BY DEF Next, vars, Tick, CreateUpload, Notify, CommitStep, DocumentRef,
         CheckUpload, OpenUpload, DescribeUpload, InsertDocument, ReadBack, Retry, Fail,
         DeleteLock, DeleteStep, DeleteCommit, DeleteRollback, SweepBegin, ListStale,
         ExcludeDocuments
<1>6. QED
  BY <1>1, <1>2, <1>3, <1>4, <1>5

\* How a document comes and goes: by an insert of a committing run, or when a
\* deletion that has removed the bytes commits.
LEMMA RecordedChange ==
    ASSUME TypeOK, [Next]_vars, NEW d \in Candidate, recorded'[d] # recorded[d]
    PROVE  \/ \E r \in Run : /\ InsertDocument(r)
                             /\ cand[r] = d
                             /\ ~IsDocument(d)
                             /\ recorded'[d] = hashed[r]
                             /\ \A c \in Candidate : recorded[c] # hashed[r]
           \/ DeleteCommit(d) /\ recorded'[d] = None
<1> USE DEF stores, runs, sweeper
<1>1. CASE \E r \in Run : InsertDocument(r)
  <2>1. PICK r \in Run : InsertDocument(r)
    BY <1>1
  <2>2. QED
    BY <2>1 DEF InsertDocument, Return, Go, TypeOK
<1>2. CASE \E c \in Candidate : DeleteCommit(c)
  BY <1>2 DEF DeleteCommit, TypeOK
<1>3. \/ \E r \in Run : InsertDocument(r)
      \/ \E c \in Candidate : DeleteCommit(c)
  BY DEF Next, vars, Tick, CreateUpload, PutUpload, Notify, CommitStep, DocumentRef,
         CheckUpload, OpenUpload, DescribeUpload, ReadBack, DiscardUpload, Retry, Fail,
         DeleteLock, DeleteStep, DeleteObjects, DeleteRollback, SweepBegin, ListStale,
         ExcludeDocuments, DeleteStale, SweepFail
<1>4. QED
  BY <1>1, <1>2, <1>3

\* A deletion holds the lock of a row that exists; unless it may be partial,
\* it commits once it has removed the bytes.
LockedRecorded == \A d \in Candidate : Locked(d) => IsDocument(d)

\* Only the four steps of a deletion move it.
LEMMA DeletionChange ==
    ASSUME TypeOK, [Next]_vars, NEW d \in Candidate, deletion'[d] # deletion[d]
    PROVE  \/ DeleteLock(d) \/ DeleteObjects(d) \/ DeleteCommit(d) \/ DeleteRollback(d)
<1> USE DEF stores, runs, sweeper
<1>1. \E c \in Candidate : DeleteLock(c) \/ DeleteStep(c) \/ DeleteRollback(c)
  BY DEF Next, vars, Tick, CreateUpload, PutUpload, Notify, CommitStep, DocumentRef,
         CheckUpload, OpenUpload, DescribeUpload, InsertDocument, ReadBack,
         DiscardUpload, Retry, Fail, SweepBegin, ListStale, ExcludeDocuments,
         DeleteStale, SweepFail
<1>2. QED
  BY <1>1 DEF DeleteLock, DeleteStep, DeleteObjects, DeleteCommit, DeleteRollback, TypeOK

\* Every step keeps a locked row in place.
LEMMA StepLockedRecorded == TypeOK /\ LockedRecorded /\ [Next]_vars => LockedRecorded'
<1> SUFFICES ASSUME TypeOK, LockedRecorded, [Next]_vars,
                    NEW d \in Candidate, Locked(d)'
             PROVE  IsDocument(d)'
  BY DEF LockedRecorded
<1> USE DEF Locked, IsDocument
<1>1. CASE deletion'[d] # deletion[d]
  <2>1. DeleteLock(d) \/ DeleteObjects(d) \/ DeleteCommit(d) \/ DeleteRollback(d)
    BY <1>1, DeletionChange
  <2>2. QED
    BY <2>1
    DEF LockedRecorded, DeleteLock, DeleteObjects, DeleteCommit, DeleteRollback, TypeOK
<1>2. CASE deletion'[d] = deletion[d]
  <2>1. CASE recorded'[d] = recorded[d]
    BY <1>2, <2>1 DEF LockedRecorded
  <2>2. CASE recorded'[d] # recorded[d]
    <3>1. ~DeleteCommit(d)
      BY <1>2 DEF DeleteCommit, TypeOK
    <3>2. PICK r \in Run : InsertDocument(r) /\ cand[r] = d /\ ~IsDocument(d)
      BY <2>2, <3>1, RecordedChange
    <3>3. QED
      BY <1>2, <3>2 DEF LockedRecorded
  <2>3. QED
    BY <2>1, <2>2
<1>3. QED
  BY <1>1, <1>2

-----------------------------------------------------------------------------
(* First argument: each upload is notified once and no deletion rolls back *)
(* after it removed the bytes.  Then a committing run is the only one that *)
(* could take its candidate's bytes away or make it a document.            *)

SoleRun ==
    \A r, q \in Run : cand[r] # None /\ cand[r] = cand[q] => r = q

\* A run that passed document_ref commits a candidate that is not a document.
NotYetRecorded ==
    \A r \in Run : pc[r] \in {"check"} \cup Committing => ~IsDocument(cand[r])

\* From the hash to the insert the bytes stay what they were.
HashedBytesStay ==
    \A r \in Run :
        pc[r] \in {"describe", "insert"} =>
            hashed[r] # None /\ bytes[cand[r]] = hashed[r]

OneRunInv ==
    /\ LockedRecorded
    /\ SoleRun
    /\ NotYetRecorded
    /\ HashedBytesStay
    /\ DocumentsKeepTheirBytes

\* The invariant for one run each holds at the start.
LEMMA InitOneRunInv == Init => OneRunInv
  BY ModeAssumption
  DEF Init, OneRunInv, LockedRecorded, Locked, IsDocument, SoleRun, NotYetRecorded,
      HashedBytesStay, DocumentsKeepTheirBytes, Committing

\* How a run moves on: only by its own steps.
LEMMA RunChange ==
    ASSUME TypeOK, [Next]_vars, NEW r \in Run,
           <<pc[r], cand[r], hashed[r]>>' # <<pc[r], cand[r], hashed[r]>>
    PROVE  (\E c \in Candidate : Notify(r, c)) \/ CommitStep(r) \/ Retry(r) \/ Fail(r)
<1> USE DEF stores, runs, sweeper
<1>1. \E q \in Run : (\E c \in Candidate : Notify(q, c)) \/ CommitStep(q) \/ Retry(q) \/ Fail(q)
  BY DEF Next, vars, Tick, CreateUpload, PutUpload, DeleteLock, DeleteStep, DeleteObjects,
         DeleteCommit, DeleteRollback, SweepBegin, ListStale, ExcludeDocuments,
         DeleteStale, SweepFail
<1>2. PICK q \in Run : (\E c \in Candidate : Notify(q, c)) \/ CommitStep(q) \/ Retry(q) \/ Fail(q)
  BY <1>1
<1>3. q # r => UNCHANGED <<pc[r], cand[r], hashed[r]>>
  BY <1>2
  DEF Notify, CommitStep, DocumentRef, CheckUpload, OpenUpload, DescribeUpload,
      InsertDocument, ReadBack, DiscardUpload, Retry, Fail, Return, Go, TypeOK
<1>4. QED
  BY <1>2, <1>3

\* Without a second /notify no step gives a candidate a second run.
LEMMA StepSoleRun ==
    ASSUME ~Renotify, TypeOK, SoleRun, [Next]_vars
    PROVE  SoleRun'
<1> SUFFICES ASSUME NEW r \in Run, NEW q \in Run,
                    cand'[r] # None, cand'[r] = cand'[q], r # q
             PROVE  FALSE
  BY DEF SoleRun
<1>1. CASE \E s \in Run, c \in Candidate : Notify(s, c)
  BY <1>1, ModeAssumption DEF Notify, SoleRun, TypeOK
<1>2. CASE cand' = cand
  BY <1>2 DEF SoleRun
<1>3. cand' = cand \/ \E s \in Run, c \in Candidate : Notify(s, c)
  BY DEF Next, vars, stores, runs, sweeper, Tick, CreateUpload, PutUpload, CommitStep,
         DocumentRef, CheckUpload, OpenUpload, DescribeUpload, InsertDocument, ReadBack,
         DiscardUpload, Retry, Fail, DeleteLock, DeleteStep, DeleteObjects, DeleteCommit,
         DeleteRollback, SweepBegin, ListStale, ExcludeDocuments, DeleteStale, SweepFail
<1>4. QED
  BY <1>1, <1>2, <1>3

\* A run past document_ref keeps its candidate.
LEMMA CommittingCandidate ==
    ASSUME TypeOK, [Next]_vars, NEW r \in Run, pc'[r] \in {"check"} \cup Committing
    PROVE  /\ cand'[r] = cand[r]
           /\ cand[r] \in Candidate
           /\ \/ pc[r] \in {"check"} \cup Committing
              \/ pc[r] = "ref" /\ ~IsDocument(cand[r]) /\ UNCHANGED recorded
<1>1. CASE <<pc[r], cand[r], hashed[r]>>' = <<pc[r], cand[r], hashed[r]>>
  BY <1>1 DEF TypeOK, Committing
<1>2. CASE <<pc[r], cand[r], hashed[r]>>' # <<pc[r], cand[r], hashed[r]>>
  BY <1>2, RunChange
  DEF Notify, CommitStep, DocumentRef, CheckUpload, OpenUpload, DescribeUpload,
      InsertDocument, ReadBack, DiscardUpload, Retry, Fail, Return, Go, TypeOK,
      Committing, Running, stores
<1>3. QED
  BY <1>1, <1>2

\* Every step keeps this: a candidate on its way to the insert has no row.
LEMMA StepNotYetRecorded ==
    ASSUME TypeOK, SoleRun, NotYetRecorded, [Next]_vars
    PROVE  NotYetRecorded'
<1> SUFFICES ASSUME NEW r \in Run, pc'[r] \in {"check"} \cup Committing
             PROVE  ~IsDocument(cand[r])'
  BY DEF NotYetRecorded, Committing
<1> DEFINE c == cand[r]
<1>1. cand'[r] = c /\ c \in Candidate /\ ~IsDocument(c)
  BY CommittingCandidate DEF NotYetRecorded
<1>2. CASE recorded'[c] = recorded[c]
  BY <1>1, <1>2 DEF IsDocument
<1>3. CASE recorded'[c] # recorded[c]
  <2>1. CASE DeleteCommit(c) /\ recorded'[c] = None
    BY <1>1, <2>1 DEF IsDocument
  <2>2. ASSUME NEW q \in Run, InsertDocument(q), cand[q] = c,
               \A d \in Candidate : recorded[d] # hashed[q]
        PROVE  FALSE
    <3>1. q = r
      BY <1>1, <2>2, ModeAssumption DEF SoleRun
    <3>2. pc'[r] = "done"
      BY <2>2, <3>1 DEF InsertDocument, Return, Go, TypeOK
    <3>3. QED
      BY <3>2 DEF Committing
  <2>3. QED
    BY <1>1, <1>3, <2>1, <2>2, RecordedChange
<1>4. QED
  BY <1>2, <1>3

\* Every step keeps the bytes a run has hashed until it inserts or discards.
LEMMA StepHashedBytesStay ==
    ASSUME TypeOK, SweepInv, LockedRecorded, SoleRun, NotYetRecorded, HashedBytesStay,
           [Next]_vars
    PROVE  HashedBytesStay'
<1> SUFFICES ASSUME NEW r \in Run, pc'[r] \in {"describe", "insert"}
             PROVE  hashed'[r] # None /\ bytes'[cand'[r]] = hashed'[r]
  BY DEF HashedBytesStay
<1> DEFINE c == cand[r]
<1>1. cand'[r] = c /\ c \in Candidate
  BY CommittingCandidate DEF Committing
<1>2. CASE <<pc[r], cand[r], hashed[r]>>' # <<pc[r], cand[r], hashed[r]>>
  BY <1>1, <1>2, RunChange
  DEF Notify, CommitStep, DocumentRef, CheckUpload, OpenUpload, DescribeUpload,
      InsertDocument, ReadBack, DiscardUpload, Retry, Fail, Return, Go, TypeOK,
      HashedBytesStay, stores
<1>3. CASE <<pc[r], cand[r], hashed[r]>>' = <<pc[r], cand[r], hashed[r]>>
  <2>1. /\ hashed[r] # None /\ bytes[c] = hashed[r]
        /\ pc[r] \in Committing /\ ~IsDocument(c)
    BY <1>1, <1>3 DEF HashedBytesStay, NotYetRecorded, Committing
  <2>2. CASE bytes'[c] = bytes[c]
    BY <1>1, <1>3, <2>1, <2>2
  <2>3. CASE bytes'[c] # bytes[c]
    <3>1. bytes[c] # None
      BY <2>1
    <3>2. deletion[c] # "locked"
      BY <1>1, <2>1 DEF LockedRecorded, Locked
    <3>3. PICK q \in Run : DiscardUpload(q) /\ cand[q] = c
      BY <1>1, <2>1, <2>3, <3>1, <3>2, BytesChange
    <3>4. q = r
      BY <1>1, <3>3, ModeAssumption DEF SoleRun
    <3>5. QED
      BY <1>3, <3>3, <3>4 DEF DiscardUpload, Go, TypeOK
  <2>4. QED
    BY <2>2, <2>3
<1>4. QED
  BY <1>2, <1>3

\* No step takes the bytes of a document, its own deletion apart.
LEMMA StepKeepBytes ==
    ASSUME Deletion # "partial", TypeOK, SweepInv, NotYetRecorded, HashedBytesStay,
           DocumentsKeepTheirBytes, [Next]_vars
    PROVE  DocumentsKeepTheirBytes'
<1> SUFFICES ASSUME NEW d \in Candidate, IsDocument(d)', deletion'[d] # "emptied"
             PROVE  bytes'[d] = recorded'[d]
  BY DEF DocumentsKeepTheirBytes
<1>1. CASE recorded'[d] # recorded[d]
  <2>1. recorded'[d] # None
    BY DEF IsDocument
  <2>2. PICK r \in Run : InsertDocument(r) /\ cand[r] = d /\ recorded'[d] = hashed[r]
    BY <1>1, <2>1, RecordedChange
  <2>3. bytes' = bytes /\ pc[r] = "insert"
    BY <2>2 DEF InsertDocument
  <2>4. QED
    BY <2>2, <2>3 DEF HashedBytesStay
<1>2. CASE recorded'[d] = recorded[d]
  <2>1. IsDocument(d)
    BY <1>2 DEF IsDocument
  <2>2. deletion[d] # "emptied"
    <3> SUFFICES ASSUME deletion[d] = "emptied"
                 PROVE  FALSE
      OBVIOUS
    <3>1. DeleteLock(d) \/ DeleteObjects(d) \/ DeleteCommit(d) \/ DeleteRollback(d)
      BY DeletionChange
    <3>2. DeleteCommit(d)
      BY <3>1 DEF DeleteLock, DeleteObjects, DeleteRollback, Locked
    <3>3. QED
      BY <1>2, <2>1, <3>2 DEF DeleteCommit, IsDocument, TypeOK
  <2>3. bytes[d] = recorded[d]
    BY <2>1, <2>2 DEF DocumentsKeepTheirBytes
  <2>4. bytes'[d] = bytes[d]
    <3> SUFFICES ASSUME bytes'[d] # bytes[d]
                 PROVE  FALSE
      OBVIOUS
    <3>1. bytes[d] # None
      BY <2>1, <2>3 DEF IsDocument
    <3>2. ~(deletion[d] = "locked" /\ deletion' = [deletion EXCEPT ![d] = "emptied"])
      BY DEF TypeOK
    <3>3. PICK r \in Run : DiscardUpload(r) /\ cand[r] = d
      BY <2>1, <3>1, <3>2, BytesChange
    <3>4. QED
      BY <2>1, <3>3 DEF DiscardUpload, NotYetRecorded, Committing
  <2>5. QED
    BY <1>2, <2>3, <2>4
<1>3. QED
  BY <1>1, <1>2

\* The inductive invariant behind BytesAreKept: a candidate notified once has no
\* row, and the bytes its run hashed, for as long as the run is committing it.
THEOREM OneRunInvariant ==
    ASSUME ~Renotify, Deletion # "partial"
    PROVE  Spec => []OneRunInv
<1>1. TypeOK /\ SweepInv /\ OneRunInv /\ [Next]_vars => OneRunInv'
  BY StepLockedRecorded, StepSoleRun, StepNotYetRecorded, StepHashedBytesStay,
     StepKeepBytes
  DEF OneRunInv
<1>2. QED
  BY <1>1, InitOneRunInv, TypeCorrect, SweepInvariant, PTL DEF Spec

\* When each upload is notified once and no deletion rolls back after it has
\* removed the bytes, a document has its bytes until it is deleted: neither the
\* sweep, nor duplicates, nor retries, nor a URL used twice take them away.
THEOREM BytesAreKept ==
    ASSUME ~Renotify, Deletion # "partial"
    PROVE  Spec => []DocumentsKeepTheirBytes
<1>1. OneRunInv => DocumentsKeepTheirBytes
  BY DEF OneRunInv
<1>2. QED
  BY <1>1, OneRunInvariant, PTL

-----------------------------------------------------------------------------
(* Under the same conditions Uploads implements DocumentRegistry: each step   *)
(* maps to a step of the registry or to none.                                 *)

\* The initial states map to initial states.
LEMMA InitRegistry == Init => Registry!Init
  BY DEF Init, Registry!Init, Documents

\* Steps that touch neither rows nor bytes are stuttering steps.
LEMMA StutterRegistry ==
    UNCHANGED <<bytes, recorded, deletion>> => UNCHANGED Registry!vars
  BY DEF Registry!vars, Documents

\* A PUT is a Write: a candidate whose key is free is not a document.
LEMMA WriteRegistry ==
    ASSUME TypeOK, OneRunInv, NEW c \in Candidate, NEW k \in Content, PutUpload(c, k)
    PROVE  Registry!Write(c, k)
<1>1. Documents[c] = None
  BY DEF OneRunInv, DocumentsKeepTheirBytes, Documents, IsDocument, PutUpload
<1>2. Documents' = Documents
  BY DEF PutUpload, Documents
<1>3. QED
  BY <1>1, <1>2 DEF PutUpload, Registry!Write

\* An insert that wins is a Record, and one that loses is no step.
LEMMA RecordRegistry ==
    ASSUME TypeOK, OneRunInv, NEW r \in Run, InsertDocument(r)
    PROVE  Registry!Record(cand[r]) \/ UNCHANGED <<bytes, recorded, deletion>>
<1> DEFINE c == cand[r]
<1>1. CASE recorded' = recorded
  BY <1>1 DEF InsertDocument
<1>2. CASE recorded' # recorded
  <2>1. /\ c \in Candidate /\ ~IsDocument(c) /\ deletion[c] = "none"
        /\ \A d \in Candidate : recorded[d] # hashed[r]
        /\ recorded' = [recorded EXCEPT ![c] = hashed[r]]
        /\ UNCHANGED <<bytes, deletion>>
    BY <1>2 DEF InsertDocument, Locked, TypeOK
  <2>2. bytes[c] = hashed[r] /\ bytes[c] # None
    BY DEF OneRunInv, HashedBytesStay, InsertDocument
  <2>3. Documents[c] = None /\ \A d \in Candidate : Documents[d] # bytes[c]
    BY <2>1, <2>2 DEF Documents, IsDocument
  <2>4. Documents' = [Documents EXCEPT ![c] = bytes[c]]
    BY <2>1, <2>2 DEF Documents, TypeOK
  <2>5. QED
    BY <2>1, <2>2, <2>3, <2>4 DEF Registry!Record
<1>3. QED
  BY <1>1, <1>2

\* What a duplicate discards is not a document.
LEMMA DiscardRegistry ==
    ASSUME TypeOK, OneRunInv, NEW r \in Run, DiscardUpload(r)
    PROVE  Registry!Discard({cand[r]}) \/ UNCHANGED <<bytes, recorded, deletion>>
<1> DEFINE c == cand[r]
<1>1. CASE bytes' = [bytes EXCEPT ![c] = None]
  <2>1. c \in Candidate /\ ~IsDocument(c)
    BY DEF DiscardUpload, OneRunInv, NotYetRecorded, Committing, TypeOK
  <2>2. Documents[c] = None /\ Documents' = Documents
    BY <2>1 DEF Documents, IsDocument, DiscardUpload
  <2>3. bytes' = [d \in Candidate |-> IF d \in {c} THEN None ELSE bytes[d]]
    BY <1>1, <2>1 DEF TypeOK
  <2>4. QED
    BY <2>2, <2>3 DEF Registry!Discard
<1>2. CASE UNCHANGED bytes
  BY <1>2 DEF DiscardUpload
<1>3. QED
  BY <1>1, <1>2 DEF DiscardUpload

\* A document is deleted, for its readers, when its bytes are.
LEMMA DeleteRegistry ==
    ASSUME TypeOK, OneRunInv, NEW d \in Candidate, DeleteObjects(d)
    PROVE  Registry!Delete(d)
<1>1. Documents[d] # None
  BY DEF DeleteObjects, OneRunInv, LockedRecorded, Locked, IsDocument, Documents
<1>2. Documents' = [Documents EXCEPT ![d] = None]
  BY DEF DeleteObjects, Documents, TypeOK
<1>3. QED
  BY <1>1, <1>2 DEF DeleteObjects, Registry!Delete

\* What the sweep removes, all of it or some, is not a document.
LEMMA SweepRegistry ==
    ASSUME TypeOK, SweepInv, DeleteStale \/ SweepFail
    PROVE  \E gone \in SUBSET Candidate : Registry!Discard(gone)
<1>1. PICK gone \in SUBSET stale : /\ gone # {} => sweep = "delete"
                                   /\ bytes' = Removed(gone)
  BY DEF DeleteStale, SweepFail
<1>2. \A c \in gone : Documents[c] = None
  BY <1>1 DEF SweepInv, StaleUnrecorded, IsDocument, Documents, TypeOK
<1>3. Documents' = Documents
  BY DEF DeleteStale, SweepFail, Documents
<1>4. Registry!Discard(gone) /\ gone \in SUBSET Candidate
  BY <1>1, <1>2, <1>3 DEF Registry!Discard, Removed, TypeOK
<1>5. QED
  BY <1>4

\* Every step maps to a step of the registry, or to none.
LEMMA StepRegistry ==
    ASSUME Deletion # "partial", TypeOK, SweepInv, OneRunInv, [Next]_vars
    PROVE  [Registry!Next]_(Registry!vars)
<1>1. ASSUME NEW c \in Candidate, NEW k \in Content, PutUpload(c, k)
      PROVE  Registry!Next
  BY <1>1, WriteRegistry DEF Registry!Next
<1>2. ASSUME NEW r \in Run, InsertDocument(r)
      PROVE  [Registry!Next]_(Registry!vars)
  <2>1. cand[r] \in Candidate
    BY <1>2 DEF InsertDocument, TypeOK
  <2>2. QED
    BY <1>2, <2>1, RecordRegistry, StutterRegistry DEF Registry!Next
<1>3. ASSUME NEW r \in Run, DiscardUpload(r)
      PROVE  [Registry!Next]_(Registry!vars)
  <2>1. {cand[r]} \in SUBSET Candidate
    BY <1>3 DEF DiscardUpload, TypeOK
  <2>2. QED
    BY <1>3, <2>1, DiscardRegistry, StutterRegistry DEF Registry!Next
<1>4. ASSUME NEW d \in Candidate, DeleteObjects(d)
      PROVE  Registry!Next
  BY <1>4, DeleteRegistry DEF Registry!Next
<1>5. CASE DeleteStale \/ SweepFail
  BY <1>5, SweepRegistry DEF Registry!Next
<1>6. ASSUME NEW d \in Candidate, DeleteLock(d) \/ DeleteCommit(d) \/ DeleteRollback(d)
      PROVE  UNCHANGED Registry!vars
  <2>1. Documents' = Documents /\ bytes' = bytes
    BY <1>6 DEF DeleteLock, DeleteCommit, DeleteRollback, Documents, Locked, TypeOK
  <2>2. QED
    BY <2>1 DEF Registry!vars
<1>7. \/ \E c \in Candidate, k \in Content : PutUpload(c, k)
      \/ \E r \in Run : InsertDocument(r) \/ DiscardUpload(r)
      \/ \E d \in Candidate : \/ DeleteObjects(d)
                              \/ DeleteLock(d) \/ DeleteCommit(d) \/ DeleteRollback(d)
      \/ DeleteStale \/ SweepFail
      \/ UNCHANGED <<bytes, recorded, deletion>>
  BY DEF Next, vars, stores, Tick, CreateUpload, Notify, CommitStep, DocumentRef,
         CheckUpload, OpenUpload, DescribeUpload, ReadBack, Retry, Fail, DeleteStep,
         SweepBegin, ListStale, ExcludeDocuments
<1>8. QED
  BY <1>1, <1>2, <1>3, <1>4, <1>5, <1>6, <1>7, StutterRegistry

\* The store of source bytes keeps the registry's promise: one document for
\* each content, its bytes there from its recording to its deletion.
THEOREM UploadsImplementRegistry ==
    ASSUME ~Renotify, Deletion # "partial"
    PROVE  Spec => ImplementsRegistry
<1>1. TypeOK /\ SweepInv /\ OneRunInv /\ [Next]_vars => [Registry!Next]_(Registry!vars)
  BY StepRegistry
<1>2. QED
  BY <1>1, InitRegistry, TypeCorrect, SweepInvariant, OneRunInvariant, PTL
  DEF Spec, ImplementsRegistry, Registry!Spec
=============================================================================
