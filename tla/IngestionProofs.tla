-------------------------- MODULE IngestionProofs --------------------------
(***************************************************************************)
(* Proofs about one document's pipeline: types, that racing runs go on     *)
(* with the extraction that is recorded, and that a recorded extraction    *)
(* has its text.                                                           *)
(***************************************************************************)
EXTENDS Ingestion, TLAPS

-----------------------------------------------------------------------------
(* Types.  A run that writes chunks does so for an extraction, never for   *)
(* none, and that takes remembering that it holds one.                     *)

\* A run that has got past find_extraction and store-extraction holds an id.
HoldsText ==
    \A e \in Event :
        step[e] \in {"insert", "discard", "route", "split", "chunk", "stage"}
            => text[e] # None

TypeInv == TypeOK /\ HoldsText

\* The initial state has the types.
LEMMA InitTypeOK == Init => TypeOK
<1> SUFFICES ASSUME Init PROVE TypeOK
  OBVIOUS
<1>1. /\ kind \in {"text", "blank", "sheet"}
      /\ {row, source, published} \subseteq BOOLEAN
      /\ deletion \in {"none", "locked", "emptied"}
      /\ status \in Status
      /\ extracted \in [AllExtractors -> TextId \cup {None}]
      /\ texts \subseteq TextId
      /\ chunked \subseteq TextId \X {Chunker[w] : w \in Release}
      /\ embedded \subseteq Triples
      /\ artifacts \subseteq Event /\ manifests \subseteq Event /\ committed \subseteq Event
  BY DEF Init, Status
<1>2. /\ step \in [Event -> RunStep]
      /\ release \in [Event -> IngestReleases]
      /\ text \in [Event -> TextId \cup {None}]
      /\ spare \in [Event -> TextId \cup {None}]
      /\ outcome \in [Event -> {"ok", "needs_intervention", "failed"}]
      /\ retries \in [Event -> 0..MaxRetries]
  BY IngestionAssumption DEF Init, RunStep, Unguarded
<1>3. /\ estep \in [EmbedRun -> EmbedStep]
      /\ erelease \in [EmbedRun -> EmbedReleases]
      /\ todo \in [EmbedRun -> SUBSET UNION {Embedders[w] : w \in Release}]
      /\ pending \in [EmbedRun -> Triples \cup {NoTriple}]
      /\ eretries \in [EmbedRun -> 0..MaxRetries]
  BY IngestionAssumption DEF Init, EmbedStep
<1>4. QED
  BY <1>1, <1>2, <1>3 DEF TypeOK

\* The release of a run names its extractor and its chunker.
LEMMA RunOperators ==
  ASSUME TypeOK, NEW e \in Event
  PROVE  /\ release[e] \in Release
         /\ ExtractorOf(e) \in AllExtractors
         /\ Chunker[release[e]] \in {Chunker[w] : w \in Release}
  BY IngestionAssumption DEF TypeOK, ExtractorOf, AllExtractors

\* What set_status and mark_published write has the types.
LEMMA ShownTypes ==
  ASSUME TypeOK, NEW s \in Status, SetStatus(s) \/ MarkPublished \/ UNCHANGED shown
  PROVE  status' \in Status /\ published' \in BOOLEAN
  BY DEF TypeOK, SetStatus, MarkPublished, shown, Status

\* A raised run keeps the types of its own state.
LEMMA RaiseTypes ==
  ASSUME TypeOK, NEW e \in Event, Raise(e)
  PROVE  /\ step' \in [Event -> RunStep]
         /\ retries' \in [Event -> 0..MaxRetries]
         /\ UNCHANGED <<committed, release, text, spare, outcome>>
  BY IngestionAssumption DEF TypeOK, Raise, Go, RunStep, Unguarded

\* And so does a raised embedding run.
LEMMA ERaiseTypes ==
  ASSUME TypeOK, NEW g \in EmbedRun, ERaise(g)
  PROVE  /\ estep' \in [EmbedRun -> EmbedStep]
         /\ eretries' \in [EmbedRun -> 0..MaxRetries]
         /\ UNCHANGED <<erelease, todo, pending>>
  BY IngestionAssumption DEF TypeOK, ERaise, EGo, EmbedStep

\* The steps of a run keep the types.
LEMMA RunTypes ==
  ASSUME TypeInv, NEW e \in Event,
         RunAct(e) \/ RetryTask(e) \/ Uncaught(e) \/ Crash(e)
  PROVE  TypeOK'
<1> USE DEF TypeInv, TypeOK, RunStep, Guarded, Unguarded, Go, rows, objects, shown, run, embed
<1>1. CASE Commit(e)
  BY <1>1 DEF Commit
<1>2. CASE Begin(e)
  <2>1. status' \in Status /\ published' \in BOOLEAN
    BY <1>2, ShownTypes DEF Begin, Status
  <2>2. /\ step' \in [Event -> RunStep]
        /\ retries' \in [Event -> 0..MaxRetries]
        /\ UNCHANGED <<committed, release, text, spare, outcome>>
    BY <1>2, RaiseTypes DEF Begin
  <2>3. QED
    BY <1>2, <2>1, <2>2 DEF Begin
<1>3. CASE FindExtraction(e)
  BY <1>3, RunOperators DEF FindExtraction
<1>4. CASE StoreText(e)
  BY <1>4 DEF StoreText, FreshTexts
<1>5. CASE InsertExtraction(e)
  BY <1>5, RunOperators DEF InsertExtraction
<1>6. CASE DiscardText(e)
  BY <1>6 DEF DiscardText
<1>7. CASE Route(e)
  BY <1>7 DEF Route
<1>8. CASE Split(e)
  BY <1>8 DEF Split
<1>9. CASE StoreChunks(e)
  BY <1>9, RunOperators DEF StoreChunks, HoldsText, Cut
<1>10. CASE Stage(e)
  BY <1>10 DEF Stage
<1>11. CASE UploadArtifacts(e)
  BY <1>11 DEF UploadArtifacts
<1>12. CASE PutManifest(e)
  BY <1>12 DEF PutManifest
<1>13. CASE RecordOutcome(e)
  <2>1. status' \in Status /\ published' \in BOOLEAN
    BY <1>13, ShownTypes DEF RecordOutcome, Status
  <2>2. QED
    BY <1>13, <2>1 DEF RecordOutcome
<1>14. CASE Submit(e)
  BY <1>14 DEF Submit, EmbedStep
<1>15. CASE Caught(e)
  <2>1. status' \in Status /\ published' \in BOOLEAN
    BY <1>15, ShownTypes DEF Caught, Status
  <2>2. QED
    BY <1>15, <2>1, RaiseTypes DEF Caught
<1>16. CASE RetryTask(e)
  BY <1>16, IngestionAssumption DEF RetryTask
<1>17. CASE Uncaught(e)
  BY <1>17, RaiseTypes DEF Uncaught
<1>18. CASE Crash(e)
  <2>1. status' \in Status /\ published' \in BOOLEAN
    BY <1>18, ShownTypes DEF Crash, Status
  <2>2. QED
    BY <1>18, <2>1 DEF Crash
<1>19. QED
  BY <1>1, <1>2, <1>3, <1>4, <1>5, <1>6, <1>7, <1>8, <1>9, <1>10, <1>11, <1>12, <1>13,
     <1>14, <1>15, <1>16, <1>17, <1>18 DEF RunAct

\* The steps of an embedding run keep the types.
LEMMA EmbedTypes ==
  ASSUME TypeOK, NEW g \in EmbedRun, EmbedAct(g) \/ EUncaught(g) \/ ECrash(g)
  PROVE  TypeOK'
<1> USE DEF TypeOK, EmbedStep, EGo, rows, objects, shown, run, embed
<1>0. erelease[g] \in Release
  BY IngestionAssumption
<1>1. CASE EmbedStart(g)
  <2>1. status' \in Status /\ published' \in BOOLEAN
    BY <1>1, ShownTypes DEF EmbedStart, Status
  <2>2. QED
    BY <1>0, <1>1, <2>1 DEF EmbedStart
<1>2. CASE FindPending(g)
  <2> DEFINE x == extracted[Extractor[erelease[g]]]
             c == Chunker[erelease[g]]
             M == UNION {Embedders[w] : w \in Release}
  <2>1. PICK m \in todo[g] :
            /\ todo' = [todo EXCEPT ![g] = @ \ {m}]
            /\ \/ /\ <<x, c>> \in chunked
                  /\ EGo(g, "write")
                  /\ pending' = [pending EXCEPT ![g] = <<x, c, m>>]
               \/ UNCHANGED <<estep, pending>>
    BY <1>2 DEF FindPending
  <2>2. todo[g] \subseteq M /\ m \in M
    BY <2>1
  <2>3. todo' \in [EmbedRun -> SUBSET M]
    BY <2>1, <2>2
  <2>4. /\ estep' \in [EmbedRun -> EmbedStep]
        /\ pending' \in [EmbedRun -> Triples \cup {NoTriple}]
    <3>1. CASE UNCHANGED <<estep, pending>>
      BY <3>1
    <3>2. CASE /\ <<x, c>> \in chunked
               /\ EGo(g, "write")
               /\ pending' = [pending EXCEPT ![g] = <<x, c, m>>]
      <4>1. x \in TextId /\ c \in {Chunker[w] : w \in Release}
        BY <3>2
      <4>2. <<x, c, m>> \in Triples
        BY <4>1, <2>2 DEF Triples
      <4>3. QED
        BY <3>2, <4>2
    <3>3. QED
      BY <2>1, <3>1, <3>2
  <2>5. QED
    BY <1>2, <2>3, <2>4 DEF FindPending
<1>3. CASE StoreEmbeddings(g)
  <2>1. pending[g] \in Triples
    BY <1>3, IngestionAssumption DEF StoreEmbeddings, NoTriple
  <2>2. QED
    BY <1>3, <2>1 DEF StoreEmbeddings
<1>4. CASE Publish(g)
  <2>1. status' \in Status /\ published' \in BOOLEAN
    BY <1>4, ShownTypes DEF Publish, Status
  <2>2. QED
    BY <1>4, <2>1 DEF Publish
<1>5. CASE ECaught(g)
  <2>1. status' \in Status /\ published' \in BOOLEAN
    BY <1>5, ShownTypes DEF ECaught, Status
  <2>2. QED
    BY <1>5, <2>1, ERaiseTypes DEF ECaught
<1>6. CASE EUncaught(g)
  BY <1>6, ERaiseTypes DEF EUncaught
<1>7. CASE ECrash(g)
  <2>1. status' \in Status /\ published' \in BOOLEAN
    BY <1>7, ShownTypes DEF ECrash, Status
  <2>2. QED
    BY <1>7, <2>1 DEF ECrash
<1>8. QED
  BY <1>1, <1>2, <1>3, <1>4, <1>5, <1>6, <1>7 DEF EmbedAct

\* The steps of a deletion keep the types.
LEMMA DeletionTypes ==
  ASSUME TypeOK, DeleteLock \/ DeleteAct \/ DeleteRollback
  PROVE  TypeOK'
  BY DEF TypeOK, DeleteLock, DeleteAct, DeleteObjects, DeleteCommit, DeleteRollback,
         rows, objects, shown, run, embed

\* The steps of a run keep it holding an id: it takes a new one from the
\* extractions row or from FreshTexts before it goes on.
LEMMA RunHolds ==
  ASSUME TypeInv, NEW e \in Event,
         RunAct(e) \/ RetryTask(e) \/ Uncaught(e) \/ Crash(e)
  PROVE  HoldsText'
<1> SUFFICES ASSUME NEW f \in Event,
                    step'[f] \in {"insert", "discard", "route", "split", "chunk", "stage"}
             PROVE  text'[f] # None
  BY DEF HoldsText
<1> USE DEF TypeInv, TypeOK, HoldsText, Go
<1>1. CASE FindExtraction(e)
  BY <1>1 DEF FindExtraction
<1>2. CASE StoreText(e)
  BY <1>2, IngestionAssumption DEF StoreText, FreshTexts
<1>3. CASE InsertExtraction(e)
  BY <1>3 DEF InsertExtraction
<1>4. CASE DiscardText(e) \/ Route(e) \/ Split(e) \/ StoreChunks(e) \/ Stage(e)
  BY <1>4 DEF DiscardText, Route, Split, StoreChunks, Stage
<1>5. CASE Commit(e) \/ Begin(e) \/ UploadArtifacts(e) \/ PutManifest(e)
           \/ RecordOutcome(e) \/ Submit(e) \/ Caught(e)
  BY <1>5 DEF Commit, Begin, UploadArtifacts, PutManifest, RecordOutcome, Submit, Caught,
              Raise
<1>6. CASE RetryTask(e) \/ Uncaught(e) \/ Crash(e)
  BY <1>6 DEF RetryTask, Uncaught, Crash, Raise
<1>7. QED
  BY <1>1, <1>2, <1>3, <1>4, <1>5, <1>6 DEF RunAct

\* An embedding run and a deletion leave the runs of process_upload alone.
LEMMA OthersLeaveRuns ==
  ASSUME \/ \E g \in EmbedRun : EmbedAct(g) \/ EUncaught(g) \/ ECrash(g)
         \/ DeleteLock \/ DeleteAct \/ DeleteRollback
  PROVE  UNCHANGED run
  BY DEF EmbedAct, EmbedStart, FindPending, StoreEmbeddings, Publish, ECaught, EUncaught,
         ECrash, DeleteLock, DeleteAct, DeleteObjects, DeleteCommit, DeleteRollback

\* TypeInv holds at the start, and every step keeps it.
LEMMA InitTypeInv == Init => TypeInv
  BY InitTypeOK DEF TypeInv, HoldsText, Init

LEMMA StepTypeInv == TypeInv /\ [Next]_vars => TypeInv'
<1> SUFFICES ASSUME TypeInv, [Next]_vars PROVE TypeInv'
  OBVIOUS
<1>1. CASE UNCHANGED vars
  BY <1>1 DEF TypeInv, HoldsText, TypeOK, vars, rows, objects, shown, run, embed
<1>2. CASE \E e \in Event : RunAct(e) \/ RetryTask(e) \/ Uncaught(e) \/ Crash(e)
  BY <1>2, RunTypes, RunHolds DEF TypeInv
<1>3. CASE \/ \E g \in EmbedRun : EmbedAct(g) \/ EUncaught(g) \/ ECrash(g)
           \/ DeleteLock \/ DeleteAct \/ DeleteRollback
  <2>1. TypeOK'
    BY <1>3, EmbedTypes, DeletionTypes DEF TypeInv
  <2>2. HoldsText'
    BY <1>3, OthersLeaveRuns DEF TypeInv, HoldsText, run
  <2>3. QED
    BY <2>1, <2>2 DEF TypeInv
<1>4. QED
  BY <1>1, <1>2, <1>3 DEF Next

\* Every variable of Ingestion keeps its type, whatever fails.
THEOREM TypeCorrect == Spec => []TypeOK
<1>1. TypeInv => TypeOK
  BY DEF TypeInv
<1>2. QED
  BY InitTypeInv, StepTypeInv, <1>1, PTL DEF Spec

-----------------------------------------------------------------------------
(* Racing runs converge.  What keeps a run's text the row's is that the row   *)
(* changes once, from nothing, and never while anybody holds it: HoldsText.   *)

ConvergeInv == TypeInv /\ RunsConverge

\* The steps of a run: only an insert that won writes the row, and it writes the
\* text the run holds; an insert that lost takes the row's.
LEMMA RunConverges ==
  ASSUME ConvergeInv, NEW e \in Event,
         RunAct(e) \/ RetryTask(e) \/ Uncaught(e) \/ Crash(e)
  PROVE  RunsConverge'
<1> SUFFICES ASSUME NEW f \in Event, row',
                    step'[f] \in {"discard", "route", "split", "chunk", "stage"}
             PROVE  HasRow(f)'
  BY DEF RunsConverge
<1> USE DEF ConvergeInv, TypeInv, TypeOK, HoldsText, RunsConverge, HasRow, ExtractorOf, Go
<1>1. CASE FindExtraction(e)
  BY <1>1 DEF FindExtraction, rows
<1>2. CASE InsertExtraction(e)
  BY <1>2, RunOperators DEF InsertExtraction
<1>3. CASE DiscardText(e) \/ Route(e) \/ Split(e) \/ StoreChunks(e) \/ Stage(e)
  BY <1>3 DEF DiscardText, Route, Split, StoreChunks, Stage, rows
<1>4. CASE Commit(e) \/ Begin(e) \/ StoreText(e) \/ UploadArtifacts(e) \/ PutManifest(e)
           \/ RecordOutcome(e) \/ Submit(e) \/ Caught(e)
  BY <1>4 DEF Commit, Begin, StoreText, UploadArtifacts, PutManifest, RecordOutcome,
              Submit, Caught, Raise, rows
<1>5. CASE RetryTask(e) \/ Uncaught(e) \/ Crash(e)
  BY <1>5 DEF RetryTask, Uncaught, Crash, Raise, rows
<1>6. QED
  BY <1>1, <1>2, <1>3, <1>4, <1>5 DEF RunAct

\* An embedding run writes no extraction, and a deletion takes the row with them.
LEMMA OthersLeaveExtractions ==
  ASSUME \/ \E g \in EmbedRun : EmbedAct(g) \/ EUncaught(g) \/ ECrash(g)
         \/ DeleteLock \/ DeleteAct \/ DeleteRollback
  PROVE  row' => row /\ UNCHANGED extracted
  BY DEF EmbedAct, EmbedStart, FindPending, StoreEmbeddings, Publish, ECaught, EUncaught,
         ECrash, DeleteLock, DeleteAct, DeleteObjects, DeleteCommit, DeleteRollback, rows

LEMMA StepConverges == ConvergeInv /\ [Next]_vars => ConvergeInv'
<1> SUFFICES ASSUME ConvergeInv, [Next]_vars PROVE ConvergeInv'
  OBVIOUS
<1>1. TypeInv'
  BY StepTypeInv DEF ConvergeInv
<1>2. CASE UNCHANGED vars
  BY <1>1, <1>2 DEF ConvergeInv, RunsConverge, HasRow, ExtractorOf, vars, rows, run
<1>3. CASE \E e \in Event : RunAct(e) \/ RetryTask(e) \/ Uncaught(e) \/ Crash(e)
  BY <1>1, <1>3, RunConverges DEF ConvergeInv
<1>4. CASE \/ \E g \in EmbedRun : EmbedAct(g) \/ EUncaught(g) \/ ECrash(g)
           \/ DeleteLock \/ DeleteAct \/ DeleteRollback
  <2>1. RunsConverge'
    BY <1>4, OthersLeaveRuns, OthersLeaveExtractions
    DEF ConvergeInv, RunsConverge, HasRow, ExtractorOf, run
  <2>2. QED
    BY <1>1, <2>1 DEF ConvergeInv
<1>5. QED
  BY <1>2, <1>3, <1>4 DEF Next

\* Racing runs with the same extractor go on with one extraction, the row's,
\* for any number of runs, releases and retries (InsertExtraction).
THEOREM RacersConverge == Spec => []RunsConverge
<1>1. Init => ConvergeInv
  BY InitTypeInv DEF ConvergeInv, RunsConverge, Init
<1>2. ConvergeInv => RunsConverge
  BY DEF ConvergeInv
<1>3. QED
  BY <1>1, <1>2, StepConverges, PTL DEF Spec

-----------------------------------------------------------------------------
(* A row is only there once its text is.  The danger is _discard_extraction_  *)
(* text: the loser of a race deletes a text, and it must be nobody else's.    *)

\* What a run is about to insert is stored, and nobody else's: no row names it,
\* no other run is inserting it and none is discarding it.
StoredApart ==
    \A e \in Event :
        row /\ step[e] = "insert" =>
            /\ deletion # "emptied" => text[e] \in texts
            /\ \A x \in AllExtractors : extracted[x] # text[e]
            /\ \A f \in Event \ {e} : step[f] = "insert" => text[f] # text[e]
            /\ \A f \in Event : step[f] = "discard" => spare[f] # text[e]

\* What a run is about to discard is nobody's extraction.
SpareIsNobodys ==
    \A e \in Event :
        row /\ step[e] = "discard" => \A x \in AllExtractors : extracted[x] # spare[e]

TextInv == TypeInv /\ ExtractionHasText /\ StoredApart /\ SpareIsNobodys

\* The two steps of a run that write what TextInv speaks of, insert and discard,
\* each keep every part of it.
LEMMA InsertKeepsText ==
  ASSUME TextInv, NEW e \in Event, InsertExtraction(e)
  PROVE  ExtractionHasText' /\ StoredApart' /\ SpareIsNobodys'
<1> USE RunOperators
    DEF TextInv, TypeInv, TypeOK, InsertExtraction, Go, objects, Locked
<1>1. row /\ deletion = "none" /\ step[e] = "insert" /\ text[e] # None /\ text[e] \in texts
  BY DEF HoldsText, StoredApart
<1>2. ExtractionHasText'
  BY <1>1 DEF ExtractionHasText
<1>3. StoredApart'
  <2> SUFFICES ASSUME NEW f \in Event, step'[f] = "insert"
               PROVE  /\ text'[f] \in texts
                      /\ \A x \in AllExtractors : extracted'[x] # text'[f]
                      /\ \A h \in Event \ {f} : step'[h] = "insert" => text'[h] # text'[f]
                      /\ \A h \in Event : step'[h] = "discard" => spare'[h] # text'[f]
    BY DEF StoredApart
  <2>1. f # e /\ step[f] = "insert" /\ text'[f] = text[f] /\ text[e] # text[f]
    BY <1>1 DEF StoredApart
  <2>2. /\ text[f] \in texts
        /\ \A x \in AllExtractors : extracted[x] # text[f]
        /\ \A h \in Event \ {f} : step[h] = "insert" => text[h] # text[f]
        /\ \A h \in Event : step[h] = "discard" => spare[h] # text[f]
    BY <1>1, <2>1 DEF StoredApart
  <2>3. QED
    BY <1>1, <2>1, <2>2
<1>4. SpareIsNobodys'
  <2> SUFFICES ASSUME NEW f \in Event, step'[f] = "discard", NEW x \in AllExtractors
               PROVE  extracted'[x] # spare'[f]
    BY DEF SpareIsNobodys
  <2>1. CASE f = e
    BY <1>1, <2>1 DEF StoredApart
  <2>2. CASE f # e
    BY <1>1, <2>2 DEF StoredApart, SpareIsNobodys
  <2>3. QED
    BY <2>1, <2>2
<1>5. QED
  BY <1>2, <1>3, <1>4

LEMMA DiscardKeepsText ==
  ASSUME TextInv, NEW e \in Event, DiscardText(e)
  PROVE  ExtractionHasText' /\ StoredApart' /\ SpareIsNobodys'
<1> USE DEF TextInv, TypeInv, TypeOK, DiscardText, Go, rows
<1>1. ExtractionHasText'
  BY DEF ExtractionHasText, SpareIsNobodys
<1>2. StoredApart'
  BY DEF StoredApart
<1>3. SpareIsNobodys'
  BY DEF SpareIsNobodys
<1>4. QED
  BY <1>1, <1>2, <1>3

\* A text is stored under an id nobody has.
LEMMA StoreKeepsText ==
  ASSUME TextInv, NEW e \in Event, StoreText(e)
  PROVE  ExtractionHasText' /\ StoredApart' /\ SpareIsNobodys'
<1> USE DEF TextInv, TypeInv, TypeOK, StoreText, Go, rows
<1>1. PICK i \in FreshTexts : texts' = texts \cup {i} /\ text' = [text EXCEPT ![e] = i]
  OBVIOUS
<1>2. ExtractionHasText'
  BY DEF ExtractionHasText
<1>3. StoredApart'
  BY <1>1 DEF StoredApart, FreshTexts
<1>4. SpareIsNobodys'
  BY DEF SpareIsNobodys
<1>5. QED
  BY <1>2, <1>3, <1>4

\* The other steps of a run write no extraction and no text, and bring it to
\* neither of the two.
LEMMA OtherStepsKeepText ==
  ASSUME TextInv, NEW e \in Event,
         \/ Commit(e) \/ Begin(e) \/ FindExtraction(e) \/ Route(e) \/ Split(e)
         \/ StoreChunks(e) \/ Stage(e) \/ UploadArtifacts(e) \/ PutManifest(e)
         \/ RecordOutcome(e) \/ Submit(e) \/ Caught(e) \/ RetryTask(e) \/ Uncaught(e)
         \/ Crash(e)
  PROVE  ExtractionHasText' /\ StoredApart' /\ SpareIsNobodys'
<1>1. /\ UNCHANGED <<row, deletion, extracted, texts, spare>>
      /\ \A f \in Event : step'[f] = "insert" => step[f] = "insert" /\ text'[f] = text[f]
      /\ \A f \in Event : step'[f] = "discard" => step[f] = "discard"
  <2> USE DEF TextInv, TypeInv, TypeOK, Go, rows, objects
  <2>1. CASE Commit(e) \/ Begin(e) \/ FindExtraction(e) \/ Route(e) \/ Split(e)
    BY <2>1 DEF Commit, Begin, FindExtraction, Route, Split, Raise
  <2>2. CASE StoreChunks(e) \/ Stage(e) \/ UploadArtifacts(e) \/ PutManifest(e)
    BY <2>2 DEF StoreChunks, Stage, UploadArtifacts, PutManifest
  <2>3. CASE RecordOutcome(e) \/ Submit(e) \/ Caught(e) \/ RetryTask(e)
             \/ Uncaught(e) \/ Crash(e)
    BY <2>3 DEF RecordOutcome, Submit, Caught, RetryTask, Uncaught, Crash, Raise
  <2>4. QED
    BY <2>1, <2>2, <2>3
<1>2. QED
  BY <1>1 DEF TextInv, ExtractionHasText, StoredApart, SpareIsNobodys

\* A deletion empties the document's prefixes only when it is about to remove
\* the row: nothing rolls back after it, unless Deletion is "partial".
LEMMA DeletionKeepsText ==
  ASSUME TextInv, Deletion # "partial", DeleteLock \/ DeleteAct \/ DeleteRollback
  PROVE  ExtractionHasText' /\ StoredApart' /\ SpareIsNobodys'
<1> USE DEF TextInv, ExtractionHasText, StoredApart, SpareIsNobodys
<1>1. CASE DeleteLock
  BY <1>1 DEF DeleteLock, rows, objects, run, Locked
<1>2. CASE DeleteObjects
  BY <1>2 DEF DeleteObjects, rows, run
<1>3. CASE DeleteCommit
  BY <1>3 DEF DeleteCommit
<1>4. CASE DeleteRollback
  BY <1>4 DEF DeleteRollback, rows, objects, run
<1>5. QED
  BY <1>1, <1>2, <1>3, <1>4 DEF DeleteAct

\* An embedding run touches no extraction and no text.
LEMMA EmbedKeepsText ==
  ASSUME TextInv, NEW g \in EmbedRun, EmbedAct(g) \/ EUncaught(g) \/ ECrash(g)
  PROVE  ExtractionHasText' /\ StoredApart' /\ SpareIsNobodys'
<1>1. UNCHANGED <<row, deletion, extracted, texts, step, text, spare>>
  BY DEF EmbedAct, EmbedStart, FindPending, StoreEmbeddings, Publish, ECaught, EUncaught,
         ECrash, rows, objects, run
<1>2. QED
  BY <1>1 DEF TextInv, ExtractionHasText, StoredApart, SpareIsNobodys

LEMMA StepTextInv ==
  ASSUME Deletion # "partial"
  PROVE  TextInv /\ [Next]_vars => TextInv'
<1> SUFFICES ASSUME TextInv, [Next]_vars PROVE TextInv'
  OBVIOUS
<1>1. TypeInv'
  BY StepTypeInv DEF TextInv
<1>2. CASE UNCHANGED vars
  BY <1>1, <1>2
  DEF TextInv, ExtractionHasText, StoredApart, SpareIsNobodys, vars, rows, objects, run
<1>3. CASE \E e \in Event : RunAct(e) \/ RetryTask(e) \/ Uncaught(e) \/ Crash(e)
  BY <1>1, <1>3, InsertKeepsText, DiscardKeepsText, StoreKeepsText, OtherStepsKeepText
  DEF RunAct, TextInv
<1>4. CASE \/ \E g \in EmbedRun : EmbedAct(g) \/ EUncaught(g) \/ ECrash(g)
           \/ DeleteLock \/ DeleteAct \/ DeleteRollback
  BY <1>1, <1>4, DeletionKeepsText, EmbedKeepsText DEF TextInv
<1>5. QED
  BY <1>2, <1>3, <1>4 DEF Next

\* "A row is only there once its text is", as long as no deletion removes objects
\* and then rolls back (remove_objects inside delete_document's transaction).
THEOREM ExtractionsHaveTexts ==
  ASSUME Deletion # "partial"
  PROVE  Spec => []ExtractionHasText
<1>1. Init => TextInv
  BY InitTypeInv DEF TextInv, ExtractionHasText, StoredApart, SpareIsNobodys, Init
<1>2. TextInv => ExtractionHasText
  BY DEF TextInv
<1>3. TextInv /\ [Next]_vars => TextInv'
  BY StepTextInv
<1>4. QED
  BY <1>1, <1>2, <1>3, PTL DEF Spec
=============================================================================
