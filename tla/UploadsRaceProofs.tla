-------------------------- MODULE UploadsRaceProofs --------------------------
(***************************************************************************)
(* Second argument about Uploads: nothing is deleted and no URL is used    *)
(* again, but each upload may be notified, and so committed, any number of *)
(* times at once.  Then the bytes of a key never change once written, and  *)
(* a run that finds them gone finds their content recorded.                *)
(***************************************************************************)
EXTENDS UploadsProofs

NothingDeleted == \A d \in Candidate : deletion[d] = "none"

\* The content a run hashed is another document's.
RecordedElsewhere(r) ==
    \E d \in Candidate : d # cand[r] /\ recorded[d] = hashed[r]

\* A run that hashed bytes holds their content: the key has it still or nothing.
HashedOnce ==
    \A r \in Run :
        pc[r] \in {"describe", "insert", "readback", "discard"} =>
            hashed[r] # None /\ bytes[cand[r]] \in {hashed[r], None}

\* What a run knows of the documents table at each step.
InsertKnows ==
    \A r \in Run :
        pc[r] = "insert" => bytes[cand[r]] = hashed[r] \/ RecordedElsewhere(r)
ReadBackKnows ==
    \A r \in Run :
        pc[r] = "readback" => \E d \in Candidate : recorded[d] = hashed[r]
DiscardKnows ==
    \A r \in Run :
        pc[r] = "discard" =>
            /\ RecordedElsewhere(r)
            /\ resolved[r] \in Candidate
            /\ recorded[resolved[r]] = hashed[r]
NothingHashedYet ==
    \A r \in Run : pc[r] \in {"idle", "ref", "check", "open"} => hashed[r] = None

RaceInv ==
    /\ NothingDeleted
    /\ HashedOnce
    /\ InsertKnows
    /\ ReadBackKnows
    /\ DiscardKnows
    /\ NothingHashedYet
    /\ DocumentsKeepTheirBytes
    /\ CommitReturnsContent

\* The invariant for racing runs holds at the start.
LEMMA InitRaceInv == Init => RaceInv
  BY ModeAssumption
  DEF Init, RaceInv, NothingDeleted, HashedOnce, InsertKnows, ReadBackKnows, DiscardKnows,
      NothingHashedYet, DocumentsKeepTheirBytes, CommitReturnsContent, IsDocument

\* Without deletions no transaction ever holds a row.
LEMMA StepNothingDeleted ==
    ASSUME Deletion = "never", TypeOK, NothingDeleted, [Next]_vars
    PROVE  NothingDeleted'
<1> SUFFICES ASSUME NEW d \in Candidate, deletion'[d] # deletion[d]
             PROVE  FALSE
  BY DEF NothingDeleted
<1>1. DeleteLock(d) \/ DeleteObjects(d) \/ DeleteCommit(d) \/ DeleteRollback(d)
  BY DeletionChange
<1>2. QED
  BY <1>1
  DEF DeleteLock, DeleteObjects, DeleteCommit, DeleteRollback, NothingDeleted

\* Rows stay.
LEMMA RecordedStays ==
    ASSUME TypeOK, NothingDeleted, [Next]_vars, NEW d \in Candidate, IsDocument(d)
    PROVE  recorded'[d] = recorded[d]
<1> SUFFICES ASSUME recorded'[d] # recorded[d]
             PROVE  FALSE
  OBVIOUS
<1>1. CASE DeleteCommit(d)
  BY <1>1 DEF DeleteCommit, NothingDeleted
<1>2. QED
  BY <1>1, RecordedChange

\* Bytes once written only go: to the sweep, which spares what is committed, or
\* to a run that found their content in another document.
LEMMA BytesStayOrGo ==
    ASSUME ~Rewrite, TypeOK, SweepInv, NothingDeleted, [Next]_vars,
           NEW c \in Candidate, written[c] # -1, bytes'[c] # bytes[c]
    PROVE  /\ bytes'[c] = None
           /\ \/ \E r \in Run : DiscardUpload(r) /\ cand[r] = c
              \/ /\ ~IsDocument(c)
                 /\ c \in stale
                 /\ \A r \in Run : cand[r] = c => pc[r] \notin Committing
                 /\ UNCHANGED <<recorded, deletion, runs>>
<1>1. deletion[c] # "locked"
  BY DEF NothingDeleted
<1>2. QED
  BY <1>1, BytesChange

\* Every step keeps this: a run hashed what its candidate has, or had.
LEMMA StepHashedOnce ==
    ASSUME ~Rewrite, TypeOK, SweepInv, NothingDeleted, HashedOnce, [Next]_vars
    PROVE  HashedOnce'
<1> SUFFICES ASSUME NEW r \in Run, pc'[r] \in {"describe", "insert", "readback", "discard"}
             PROVE  hashed'[r] # None /\ bytes'[cand'[r]] \in {hashed'[r], None}
  BY DEF HashedOnce
<1> DEFINE c == cand[r]
<1>1. cand'[r] = c /\ c \in Candidate /\ pc'[r] \in {"check"} \cup Committing
  BY CommittingCandidate DEF Committing
<1>2. CASE <<pc[r], cand[r], hashed[r]>>' # <<pc[r], cand[r], hashed[r]>>
  BY <1>1, <1>2, RunChange
  DEF Notify, CommitStep, DocumentRef, CheckUpload, OpenUpload, DescribeUpload,
      InsertDocument, ReadBack, DiscardUpload, Retry, Fail, Return, Go, TypeOK,
      HashedOnce, stores
<1>3. CASE <<pc[r], cand[r], hashed[r]>>' = <<pc[r], cand[r], hashed[r]>>
  <2>1. hashed[r] # None /\ bytes[c] \in {hashed[r], None}
    BY <1>3 DEF HashedOnce
  <2>2. written[c] # -1
    BY <1>1, <1>3 DEF SweepInv, CommitTimes, Committing
  <2>3. bytes'[c] = bytes[c] \/ bytes'[c] = None
    BY <1>1, <2>2, BytesStayOrGo
  <2>4. QED
    BY <1>1, <1>3, <2>1, <2>3
<1>4. QED
  BY <1>2, <1>3

\* A content that is a document of another candidate stays one.
LEMMA RecordedElsewhereStays ==
    ASSUME TypeOK, NothingDeleted, [Next]_vars, NEW r \in Run, RecordedElsewhere(r),
           hashed[r] # None, cand'[r] = cand[r], hashed'[r] = hashed[r]
    PROVE  RecordedElsewhere(r)'
<1>1. PICK d \in Candidate : d # cand[r] /\ recorded[d] = hashed[r]
  BY DEF RecordedElsewhere
<1>2. recorded'[d] = recorded[d]
  BY <1>1, RecordedStays DEF IsDocument
<1>3. QED
  BY <1>1, <1>2 DEF RecordedElsewhere

\* Every step keeps what a run about to insert knows.
LEMMA StepInsertKnows ==
    ASSUME ~Rewrite, TypeOK, SweepInv, NothingDeleted, HashedOnce, InsertKnows,
           DiscardKnows, [Next]_vars
    PROVE  InsertKnows'
<1> SUFFICES ASSUME NEW r \in Run, pc'[r] = "insert"
             PROVE  bytes'[cand'[r]] = hashed'[r] \/ RecordedElsewhere(r)'
  BY DEF InsertKnows
<1> DEFINE c == cand[r]
<1>1. cand'[r] = c /\ c \in Candidate
  BY CommittingCandidate DEF Committing
<1>2. CASE <<pc[r], cand[r], hashed[r]>>' # <<pc[r], cand[r], hashed[r]>>
  <2>1. DescribeUpload(r)
    BY <1>2, RunChange
    DEF Notify, CommitStep, DocumentRef, CheckUpload, OpenUpload, InsertDocument,
        ReadBack, DiscardUpload, Retry, Fail, Return, Go, TypeOK
  <2>2. bytes' = bytes /\ bytes[c] # None /\ pc[r] = "describe" /\ hashed' = hashed
    BY <2>1 DEF DescribeUpload, stores
  <2>3. QED
    BY <1>1, <2>2 DEF HashedOnce
<1>3. CASE <<pc[r], cand[r], hashed[r]>>' = <<pc[r], cand[r], hashed[r]>>
  <2>1. hashed[r] # None /\ bytes[c] \in {hashed[r], None}
    BY <1>3 DEF HashedOnce
  <2>2. CASE RecordedElsewhere(r)
    BY <1>3, <2>1, <2>2, RecordedElsewhereStays
  <2>3. CASE ~RecordedElsewhere(r)
    <3>1. bytes[c] = hashed[r]
      BY <1>3, <2>3 DEF InsertKnows
    <3>2. CASE bytes'[c] = bytes[c]
      BY <1>1, <1>3, <3>1, <3>2
    <3>3. CASE bytes'[c] # bytes[c]
      <4>1. written[c] # -1 /\ pc[r] \in Committing
        BY <1>1, <1>3 DEF SweepInv, CommitTimes, Committing
      <4>2. PICK q \in Run : DiscardUpload(q) /\ cand[q] = c
        BY <1>1, <3>3, <4>1, BytesStayOrGo
      <4>3. pc[q] = "discard" /\ bytes[c] = hashed[q]
        BY <2>1, <3>1, <4>2 DEF DiscardUpload, HashedOnce
      <4>4. \E d \in Candidate : d # c /\ recorded[d] = hashed[q]
        BY <4>2, <4>3 DEF DiscardKnows, RecordedElsewhere
      <4>5. QED
        BY <2>3, <3>1, <4>3, <4>4 DEF RecordedElsewhere
    <3>4. QED
      BY <3>2, <3>3
  <2>4. QED
    BY <2>2, <2>3
<1>4. QED
  BY <1>2, <1>3

\* Every step keeps what a run about to read back knows: its content has a row.
LEMMA StepReadBackKnows ==
    ASSUME TypeOK, NothingDeleted, HashedOnce, ReadBackKnows, [Next]_vars
    PROVE  ReadBackKnows'
<1> SUFFICES ASSUME NEW r \in Run, pc'[r] = "readback"
             PROVE  \E d \in Candidate : recorded'[d] = hashed'[r]
  BY DEF ReadBackKnows
<1>1. CASE <<pc[r], cand[r], hashed[r]>>' # <<pc[r], cand[r], hashed[r]>>
  BY <1>1, RunChange
  DEF Notify, CommitStep, DocumentRef, CheckUpload, OpenUpload, DescribeUpload,
      InsertDocument, ReadBack, DiscardUpload, Retry, Fail, Return, Go, TypeOK
<1>2. CASE <<pc[r], cand[r], hashed[r]>>' = <<pc[r], cand[r], hashed[r]>>
  <2>1. PICK d \in Candidate : recorded[d] = hashed[r]
    BY <1>2 DEF ReadBackKnows
  <2>2. recorded'[d] = recorded[d]
    BY <1>2, <2>1, RecordedStays DEF IsDocument, HashedOnce
  <2>3. QED
    BY <1>2, <2>1, <2>2
<1>3. QED
  BY <1>1, <1>2

\* A run's resolved document changes only when it returns or reads back.
LEMMA ResolvedChange ==
    ASSUME TypeOK, [Next]_vars, NEW r \in Run, resolved'[r] # resolved[r]
    PROVE  DocumentRef(r) \/ InsertDocument(r) \/ ReadBack(r)
<1> USE DEF stores, runs, sweeper
<1>1. \E q \in Run : DocumentRef(q) \/ InsertDocument(q) \/ ReadBack(q)
  BY DEF Next, vars, Tick, CreateUpload, PutUpload, Notify, CommitStep, CheckUpload,
         OpenUpload, DescribeUpload, DiscardUpload, Retry, Fail, DeleteLock, DeleteStep,
         DeleteObjects, DeleteCommit, DeleteRollback, SweepBegin, ListStale,
         ExcludeDocuments, DeleteStale, SweepFail
<1>2. QED
  BY <1>1 DEF DocumentRef, InsertDocument, ReadBack, Return, Go, TypeOK

\* Every step keeps what a run about to discard knows: another candidate has it.
LEMMA StepDiscardKnows ==
    ASSUME TypeOK, NothingDeleted, HashedOnce, DiscardKnows, [Next]_vars
    PROVE  DiscardKnows'
<1> SUFFICES ASSUME NEW r \in Run, pc'[r] = "discard"
             PROVE  /\ RecordedElsewhere(r)'
                    /\ resolved'[r] \in Candidate
                    /\ recorded'[resolved'[r]] = hashed'[r]
  BY DEF DiscardKnows
<1>1. CASE <<pc[r], cand[r], hashed[r]>>' # <<pc[r], cand[r], hashed[r]>>
  <2>1. ReadBack(r)
    BY <1>1, RunChange
    DEF Notify, CommitStep, DocumentRef, CheckUpload, OpenUpload, InsertDocument,
        DescribeUpload, DiscardUpload, Retry, Fail, Return, Go, TypeOK
  <2>2. PICK d \in Candidate : /\ recorded[d] = hashed[r] /\ d # cand[r]
                               /\ resolved'[r] = d
                               /\ UNCHANGED <<recorded, cand, hashed>>
    BY <2>1 DEF ReadBack, Go, TypeOK, stores
  <2>3. QED
    BY <2>2 DEF RecordedElsewhere
<1>2. CASE <<pc[r], cand[r], hashed[r]>>' = <<pc[r], cand[r], hashed[r]>>
  <2>1. hashed[r] # None /\ RecordedElsewhere(r) /\ resolved[r] \in Candidate
        /\ recorded[resolved[r]] = hashed[r]
    BY <1>2 DEF HashedOnce, DiscardKnows
  <2>2. RecordedElsewhere(r)'
    BY <1>2, <2>1, RecordedElsewhereStays
  <2>3. resolved'[r] = resolved[r]
    BY <1>2, ResolvedChange DEF DocumentRef, InsertDocument, ReadBack
  <2>4. recorded'[resolved[r]] = recorded[resolved[r]]
    BY <2>1, RecordedStays DEF IsDocument
  <2>5. QED
    BY <1>2, <2>1, <2>2, <2>3, <2>4
<1>3. QED
  BY <1>1, <1>2

\* Every step keeps this: a run that has not opened its upload has hashed nothing.
LEMMA StepNothingHashedYet ==
    ASSUME TypeOK, NothingHashedYet, [Next]_vars
    PROVE  NothingHashedYet'
<1> SUFFICES ASSUME NEW r \in Run, pc'[r] \in {"idle", "ref", "check", "open"}
             PROVE  hashed'[r] = None
  BY DEF NothingHashedYet
<1>1. CASE <<pc[r], cand[r], hashed[r]>>' # <<pc[r], cand[r], hashed[r]>>
  BY <1>1, RunChange
  DEF Notify, CommitStep, DocumentRef, CheckUpload, OpenUpload, DescribeUpload,
      InsertDocument, ReadBack, DiscardUpload, Retry, Fail, Return, Go, TypeOK,
      NothingHashedYet
<1>2. CASE <<pc[r], cand[r], hashed[r]>>' = <<pc[r], cand[r], hashed[r]>>
  BY <1>2 DEF NothingHashedYet
<1>3. QED
  BY <1>1, <1>2

\* A run about to discard its candidate's bytes does not hold a document's:
\* that document would have the content of another.
LEMMA DiscardedNotDocument ==
    ASSUME OneDocumentPerContent, HashedOnce, DiscardKnows, DocumentsKeepTheirBytes,
           NothingDeleted, NEW r \in Run, pc[r] = "discard", cand[r] \in Candidate
    PROVE  ~IsDocument(cand[r])
<1> SUFFICES ASSUME IsDocument(cand[r])
             PROVE  FALSE
  OBVIOUS
<1>1. recorded[cand[r]] = bytes[cand[r]] /\ bytes[cand[r]] # None
  BY DEF DocumentsKeepTheirBytes, NothingDeleted, IsDocument
<1>2. recorded[cand[r]] = hashed[r]
  BY <1>1 DEF HashedOnce
<1>3. PICK d \in Candidate : d # cand[r] /\ recorded[d] = hashed[r]
  BY DEF DiscardKnows, RecordedElsewhere
<1>4. QED
  BY <1>2, <1>3 DEF OneDocumentPerContent

\* No step takes the bytes of a document, however many runs commit it.
LEMMA StepRaceKeepsBytes ==
    ASSUME ~Rewrite, TypeOK, SweepInv, OneDocumentPerContent, NothingDeleted, HashedOnce,
           InsertKnows, DiscardKnows, DocumentsKeepTheirBytes, [Next]_vars
    PROVE  DocumentsKeepTheirBytes'
<1> SUFFICES ASSUME NEW d \in Candidate, IsDocument(d)'
             PROVE  bytes'[d] = recorded'[d]
  BY DEF DocumentsKeepTheirBytes
<1>1. CASE recorded'[d] # recorded[d]
  <2>1. PICK r \in Run : /\ InsertDocument(r) /\ cand[r] = d /\ recorded'[d] = hashed[r]
                         /\ \A c \in Candidate : recorded[c] # hashed[r]
    BY <1>1, RecordedChange DEF IsDocument
  <2>2. bytes' = bytes /\ pc[r] = "insert"
    BY <2>1 DEF InsertDocument
  <2>3. QED
    BY <2>1, <2>2 DEF InsertKnows, RecordedElsewhere
<1>2. CASE recorded'[d] = recorded[d]
  <2>1. IsDocument(d) /\ bytes[d] = recorded[d] /\ bytes[d] # None
    BY <1>2 DEF IsDocument, DocumentsKeepTheirBytes, NothingDeleted
  <2>2. written[d] # -1
    BY <2>1 DEF SweepInv, UrlTimes
  <2>3. bytes'[d] = bytes[d]
    <3> SUFFICES ASSUME bytes'[d] # bytes[d]
                 PROVE  FALSE
      OBVIOUS
    <3>1. PICK r \in Run : DiscardUpload(r) /\ cand[r] = d
      BY <2>1, <2>2, BytesStayOrGo
    <3>2. QED
      BY <2>1, <3>1, DiscardedNotDocument DEF DiscardUpload
  <2>4. QED
    BY <1>2, <2>1, <2>3
<1>3. QED
  BY <1>1, <1>2

\* Every step keeps this: what a run has returned is a document of what it hashed.
LEMMA StepCommitReturnsContent ==
    ASSUME TypeOK, NothingDeleted, NothingHashedYet, HashedOnce, DiscardKnows,
           CommitReturnsContent, [Next]_vars
    PROVE  CommitReturnsContent'
<1> SUFFICES ASSUME NEW r \in Run, pc'[r] = "done"
             PROVE  /\ resolved'[r] \in Candidate
                    /\ IsDocument(resolved[r])'
                    /\ hashed'[r] # None => recorded'[resolved'[r]] = hashed'[r]
  BY DEF CommitReturnsContent
<1>1. CASE <<pc[r], cand[r], hashed[r]>>' # <<pc[r], cand[r], hashed[r]>>
  <2>1. DocumentRef(r) \/ InsertDocument(r) \/ ReadBack(r) \/ DiscardUpload(r)
    BY <1>1, RunChange
    DEF Notify, CommitStep, CheckUpload, OpenUpload, DescribeUpload, Retry, Fail, Go,
        TypeOK
  <2>2. CASE DocumentRef(r)
    BY <2>2 DEF DocumentRef, Return, Go, TypeOK, NothingHashedYet, IsDocument, stores
  <2>3. CASE InsertDocument(r)
    BY <2>3 DEF InsertDocument, Return, Go, TypeOK, HashedOnce, IsDocument
  <2>4. CASE ReadBack(r)
    BY <2>4 DEF ReadBack, Go, TypeOK, HashedOnce, IsDocument, stores
  <2>5. CASE DiscardUpload(r)
    BY <2>5 DEF DiscardUpload, DiscardKnows, HashedOnce, IsDocument
  <2>6. QED
    BY <2>1, <2>2, <2>3, <2>4, <2>5
<1>2. CASE <<pc[r], cand[r], hashed[r]>>' = <<pc[r], cand[r], hashed[r]>>
  <2>1. /\ resolved[r] \in Candidate /\ IsDocument(resolved[r])
        /\ (hashed[r] # None => recorded[resolved[r]] = hashed[r])
    BY <1>2 DEF CommitReturnsContent
  <2>2. resolved'[r] = resolved[r]
    BY <1>2, ResolvedChange DEF DocumentRef, InsertDocument, ReadBack
  <2>3. recorded'[resolved[r]] = recorded[resolved[r]]
    BY <2>1, RecordedStays
  <2>4. QED
    BY <1>2, <2>1, <2>2, <2>3 DEF IsDocument
<1>3. QED
  BY <1>1, <1>2

\* The inductive invariant behind the three theorems below: what each racing
\* commit knows at each of its steps (add_document, _discard_upload).
THEOREM RaceInvariant ==
    ASSUME Deletion = "never", ~Rewrite
    PROVE  Spec => []RaceInv
<1>1. TypeOK /\ SweepInv /\ OneDocumentPerContent /\ RaceInv /\ [Next]_vars => RaceInv'
  BY StepNothingDeleted, StepHashedOnce, StepInsertKnows, StepReadBackKnows,
     StepDiscardKnows, StepNothingHashedYet, StepRaceKeepsBytes, StepCommitReturnsContent
  DEF RaceInv
<1>2. QED
  BY <1>1, InitRaceInv, TypeCorrect, SweepInvariant, ContentIsUnique, PTL DEF Spec

\* As long as nothing is deleted and no URL is used again, a document has its
\* bytes however often its upload is notified and committed at the same time.
THEOREM BytesSurviveRaces ==
    ASSUME Deletion = "never", ~Rewrite
    PROVE  Spec => []DocumentsKeepTheirBytes
<1>1. RaceInv => DocumentsKeepTheirBytes
  BY DEF RaceInv
<1>2. QED
  BY <1>1, RaceInvariant, PTL

\* Then commit_upload always returns the document with the content it hashed,
\* so racing uploads of the same bytes agree.
THEOREM RacingCommitsAgree ==
    ASSUME Deletion = "never", ~Rewrite
    PROVE  Spec => []CommitReturnsContent
<1>1. RaceInv => CommitReturnsContent
  BY DEF RaceInv
<1>2. QED
  BY <1>1, RaceInvariant, PTL

\* And bytes are only removed once their content is a document, or once they
\* are old enough to be abandoned.
THEOREM NoUploadIsLost ==
    ASSUME Deletion = "never", ~Rewrite
    PROVE  Spec => UploadsNotLost
<1>1. ASSUME TypeOK, SweepInv, RaceInv, [Next]_vars,
             NEW c \in Candidate, bytes[c] # None, bytes'[c] = None
      PROVE  \/ \E d \in Candidate : recorded[d] = bytes[c]
             \/ now - written[c] > AbandonedAfter
  <2>1. written[c] # -1 /\ bytes'[c] # bytes[c]
    BY <1>1 DEF SweepInv, UrlTimes
  <2>2. CASE \E r \in Run : DiscardUpload(r) /\ cand[r] = c
    <3>1. PICK r \in Run : DiscardUpload(r) /\ cand[r] = c
      BY <2>2
    <3>2. pc[r] = "discard" /\ bytes[c] = hashed[r]
      BY <1>1, <3>1 DEF DiscardUpload, RaceInv, HashedOnce
    <3>3. QED
      BY <1>1, <3>2 DEF RaceInv, DiscardKnows, RecordedElsewhere
  <2>3. CASE c \in stale
    <3>1. sweepStart <= now /\ sweepStart - written[c] > AbandonedAfter
      BY <1>1, <2>3 DEF SweepInv, StaleTimes
    <3>2. now \in Int /\ sweepStart \in Int /\ written[c] \in Int /\ AbandonedAfter \in Int
      BY <1>1, TimeAssumption DEF TypeOK
    <3>3. QED
      BY <3>1, <3>2
  <2>4. QED
    BY <1>1, <2>1, <2>2, <2>3, BytesStayOrGo DEF RaceInv
<1>2. TypeOK /\ SweepInv /\ RaceInv /\ [Next]_vars =>
        [\A c \in Candidate :
             bytes[c] # None /\ bytes'[c] = None =>
                 \/ \E d \in Candidate : recorded[d] = bytes[c]
                 \/ now - written[c] > AbandonedAfter]_vars
  BY <1>1
<1>3. QED
  BY <1>2, TypeCorrect, SweepInvariant, RaceInvariant, PTL DEF Spec, UploadsNotLost
=============================================================================
