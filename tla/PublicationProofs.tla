-------------------------- MODULE PublicationProofs --------------------------
(***************************************************************************)
(* Proofs about what a document's status and `published` say: a published  *)
(* document is complete, what is done is published, and at rest no status  *)
(* is left at a stage nobody is working on.                                *)
(***************************************************************************)
EXTENDS IngestionProofs

-----------------------------------------------------------------------------
(* Published means complete.  The claim is handed from process to process: a  *)
(* run knows what it has stored, an embedding run knows what the run that     *)
(* submitted it knew, and what is known stays so until the document goes.     *)

\* Ingest and embedding workers agree how a document is cut, though they may
\* not agree on the embedders.
OneChunking ==
    \A v \in IngestReleases, w \in EmbedReleases :
        Extractor[v] = Extractor[w] /\ Chunker[v] = Chunker[w]

\* The document is there, with its objects.
Alive == row /\ deletion # "emptied"

HasBundle == \E e \in Event : e \in artifacts /\ e \in manifests
ChunksOf(w) == <<extracted[Extractor[w]], Chunker[w]>>
Embedding(w, m) == <<extracted[Extractor[w]], Chunker[w], m>>

\* From upload-bundle on, a run's bundle is there as far as the run has got.
RunsBuildBundles ==
    Alive => \A e \in Event :
        /\ step[e] \in {"manifest", "outcome", "submit"} => e \in artifacts
        /\ step[e] \in {"outcome", "submit"} => e \in manifests

\* A run that has got past chunking has chunks, or had no text.
RunsHaveChunks ==
    Alive /\ kind = "text" => \A e \in Event :
        step[e] \in {"stage", "upload", "manifest", "outcome", "submit"}
            => ChunksOf(release[e]) \in chunked

\* A submitted embedding run finds a bundle, and chunks to embed.
SubmittedHaveWork ==
    Alive => \A g \in EmbedRun : estep[g] # "idle" =>
        /\ HasBundle
        /\ kind = "text" => ChunksOf(erelease[g]) \in chunked

\* What an embedding run has ticked off is embedded, or is what it is writing.
TickedIsEmbedded ==
    Alive /\ kind = "text" => \A g \in EmbedRun : estep[g] \in {"embed", "write"} =>
        \A m \in Embedders[erelease[g]] \ todo[g] :
            \/ Embedding(erelease[g], m) \in embedded
            \/ estep[g] = "write" /\ pending[g] = Embedding(erelease[g], m)

Handed == RunsBuildBundles /\ RunsHaveChunks /\ SubmittedHaveWork /\ TickedIsEmbedded

PublishedInv == ConvergeInv /\ Handed /\ PublishedIsComplete

\* The document never changes its kind, and nobody gets another release.
LEMMA FixedFromTheStart ==
  ASSUME [Next]_vars
  PROVE  UNCHANGED <<kind, release, erelease>>
<1>1. CASE UNCHANGED vars
  BY <1>1 DEF vars, run, embed
<1>2. CASE \E e \in Event : RunAct(e)
  BY <1>2 DEF RunAct, Commit, Begin, FindExtraction, StoreText, InsertExtraction, DiscardText,
     Route, Split, StoreChunks, Stage, UploadArtifacts, PutManifest, RecordOutcome, Submit,
     Caught, Raise, embed
<1>3. CASE \E e \in Event : RetryTask(e) \/ Uncaught(e) \/ Crash(e)
  BY <1>3 DEF RetryTask, Uncaught, Crash, Raise, embed
<1>4. CASE \E g \in EmbedRun : EmbedAct(g) \/ EUncaught(g) \/ ECrash(g)
  BY <1>4 DEF EmbedAct, EmbedStart, FindPending, StoreEmbeddings, Publish, ECaught, EUncaught,
     ECrash, ERaise, run
<1>5. CASE DeleteLock \/ DeleteAct \/ DeleteRollback
  BY <1>5 DEF DeleteLock, DeleteAct, DeleteObjects, DeleteCommit, DeleteRollback, run, embed
<1>6. QED
  BY <1>1, <1>2, <1>3, <1>4, <1>5 DEF Next

\* While the document lives, nothing of it is taken back: the bundle, the chunks
\* and the embeddings only grow, and an extraction is recorded once.
LEMMA WhatIsThereStays ==
  ASSUME TypeOK, [Next]_vars, Alive', Deletion # "partial"
  PROVE  /\ Alive
         /\ artifacts \subseteq artifacts' /\ manifests \subseteq manifests'
         /\ chunked \subseteq chunked' /\ embedded \subseteq embedded'
         /\ \A x \in AllExtractors : extracted[x] # None => extracted'[x] = extracted[x]
<1> USE DEF Alive, rows, objects
<1>1. CASE UNCHANGED vars
  BY <1>1 DEF vars
<1>2. CASE \E e \in Event : RunAct(e)
  <2> PICK e \in Event : RunAct(e)
    BY <1>2
  <2>1. CASE InsertExtraction(e)
    BY <2>1, RunOperators DEF InsertExtraction, TypeOK
  <2>2. CASE Commit(e) \/ Begin(e) \/ FindExtraction(e) \/ StoreText(e) \/ DiscardText(e)
             \/ Route(e) \/ Split(e)
    BY <2>2 DEF Commit, Begin, FindExtraction, StoreText, DiscardText, Route, Split
  <2>3. CASE StoreChunks(e) \/ Stage(e) \/ UploadArtifacts(e) \/ PutManifest(e)
             \/ RecordOutcome(e) \/ Submit(e) \/ Caught(e)
    BY <2>3 DEF StoreChunks, Stage, UploadArtifacts, PutManifest, RecordOutcome, Submit, Caught
  <2>4. QED
    BY <2>1, <2>2, <2>3 DEF RunAct
<1>3. CASE \E e \in Event : RetryTask(e) \/ Uncaught(e) \/ Crash(e)
  BY <1>3 DEF RetryTask, Uncaught, Crash
<1>4. CASE \E g \in EmbedRun : EmbedAct(g) \/ EUncaught(g) \/ ECrash(g)
  BY <1>4 DEF EmbedAct, EmbedStart, FindPending, StoreEmbeddings, Publish, ECaught, EUncaught,
     ECrash
<1>5. CASE DeleteLock \/ DeleteAct \/ DeleteRollback
  BY <1>5 DEF DeleteLock, DeleteAct, DeleteObjects, DeleteCommit, DeleteRollback, Locked
<1>6. QED
  BY <1>1, <1>2, <1>3, <1>4, <1>5 DEF Next

\* So chunks and embeddings that a release finds, it goes on finding, and a
\* document that is complete stays complete.
LEMMA FindingsStay ==
  ASSUME TypeOK, [Next]_vars, Alive', Deletion # "partial"
  PROVE  /\ HasBundle => HasBundle'
         /\ \A w \in Release : ChunksOf(w) \in chunked => ChunksOf(w)' \in chunked'
         /\ \A w \in Release : \A m : Embedding(w, m) \in embedded =>
                Embedding(w, m)' \in embedded' /\ Embedding(w, m)' = Embedding(w, m)
         /\ Searchable => Searchable'
<1>1. HasBundle => HasBundle'
  BY WhatIsThereStays DEF HasBundle
<1>2. ASSUME NEW w \in Release
      PROVE  Extractor[w] \in AllExtractors
  BY DEF AllExtractors
<1>3. ASSUME NEW w \in Release, ChunksOf(w) \in chunked
      PROVE  ChunksOf(w)' \in chunked'
  <2>1. extracted[Extractor[w]] # None
    BY <1>3, IngestionAssumption DEF ChunksOf, TypeOK
  <2>2. ChunksOf(w)' = ChunksOf(w)
    BY <1>2, <2>1, WhatIsThereStays DEF ChunksOf
  <2>3. QED
    BY <1>3, <2>2, WhatIsThereStays
<1>4. ASSUME NEW w \in Release, NEW m, Embedding(w, m) \in embedded
      PROVE  Embedding(w, m)' \in embedded' /\ Embedding(w, m)' = Embedding(w, m)
  <2>1. extracted[Extractor[w]] # None
    BY <1>4, IngestionAssumption DEF Embedding, TypeOK, Triples
  <2>2. Embedding(w, m)' = Embedding(w, m)
    BY <1>2, <2>1, WhatIsThereStays DEF Embedding
  <2>3. QED
    BY <1>4, <2>2, WhatIsThereStays
<1>5. Searchable => Searchable'
  BY <1>4 DEF Searchable, Embedding
<1>6. QED
  BY <1>1, <1>3, <1>4, <1>5

\* A run gets to a later step with what the earlier ones stored.
LEMMA RunsKeepBuilding ==
  ASSUME PublishedInv, [Next]_vars, Deletion # "partial", NEW e \in Event,
         RunAct(e) \/ RetryTask(e) \/ Uncaught(e) \/ Crash(e)
  PROVE  RunsBuildBundles'
<1> SUFFICES ASSUME Alive', NEW f \in Event
             PROVE  /\ step'[f] \in {"manifest", "outcome", "submit"} => f \in artifacts'
                    /\ step'[f] \in {"outcome", "submit"} => f \in manifests'
  BY DEF RunsBuildBundles
<1>1. Alive /\ artifacts \subseteq artifacts' /\ manifests \subseteq manifests'
  BY WhatIsThereStays DEF PublishedInv, ConvergeInv, TypeInv
<1> USE DEF Go
<1>2. step \in [Event -> RunStep] /\ RunsBuildBundles
  BY DEF PublishedInv, ConvergeInv, TypeInv, TypeOK, Handed
<1>3. CASE UploadArtifacts(e)
  BY <1>1, <1>2, <1>3 DEF UploadArtifacts, RunsBuildBundles
<1>4. CASE PutManifest(e)
  BY <1>1, <1>2, <1>4 DEF PutManifest, RunsBuildBundles
<1>5. CASE RecordOutcome(e)
  BY <1>1, <1>2, <1>5 DEF RecordOutcome, RunsBuildBundles
<1>6. CASE Commit(e) \/ Begin(e) \/ FindExtraction(e) \/ StoreText(e) \/ InsertExtraction(e)
           \/ DiscardText(e) \/ Route(e)
  BY <1>1, <1>2, <1>6 DEF Commit, Begin, FindExtraction, StoreText, InsertExtraction,
     DiscardText, Route, Raise, RunsBuildBundles
<1>7. CASE Split(e) \/ StoreChunks(e) \/ Stage(e) \/ Submit(e) \/ Caught(e)
           \/ RetryTask(e) \/ Uncaught(e) \/ Crash(e)
  BY <1>1, <1>2, <1>7 DEF Split, StoreChunks, Stage, Submit, Caught, RetryTask, Uncaught,
     Crash, Raise, RunsBuildBundles
<1>8. QED
  BY <1>3, <1>4, <1>5, <1>6, <1>7 DEF RunAct

\* It has chunks when it leaves chunking, its own or those that were there: the
\* extraction it holds is the row's (RunsConverge).
LEMMA RunsKeepChunks ==
  ASSUME PublishedInv, [Next]_vars, Deletion # "partial", NEW e \in Event,
         RunAct(e) \/ RetryTask(e) \/ Uncaught(e) \/ Crash(e)
  PROVE  RunsHaveChunks'
<1> DEFINE Past == {"stage", "upload", "manifest", "outcome", "submit"}
<1> SUFFICES ASSUME Alive', kind = "text", NEW f \in Event, step'[f] \in Past
             PROVE  ChunksOf(release[f])' \in chunked'
  BY FixedFromTheStart DEF RunsHaveChunks
<1>1. TypeOK /\ Alive /\ release' = release /\ release[f] \in Release
  BY WhatIsThereStays, FixedFromTheStart, RunOperators DEF PublishedInv, ConvergeInv, TypeInv
<1>2. ChunksOf(release[f]) \in chunked => ChunksOf(release[f])' \in chunked'
  BY <1>1, FindingsStay DEF ChunksOf
<1>3. step[f] \in Past => ChunksOf(release[f]) \in chunked
  BY <1>1 DEF PublishedInv, Handed, RunsHaveChunks
<1>4. CASE step[f] \in Past
  BY <1>1, <1>2, <1>3, <1>4
<1>5. CASE step[f] \notin Past
  <2>1. step \in [Event -> RunStep]
    BY <1>1 DEF TypeOK
  <2>2. f = e /\ (Route(e) \/ StoreChunks(e))
    <3>1. CASE Route(e) \/ StoreChunks(e)
      BY <1>5, <2>1, <3>1 DEF Route, StoreChunks, Go
    <3>2. CASE Commit(e) \/ Begin(e) \/ FindExtraction(e) \/ StoreText(e)
               \/ InsertExtraction(e) \/ DiscardText(e) \/ Split(e)
      BY <1>5, <2>1, <3>2 DEF Commit, Begin, FindExtraction, StoreText, InsertExtraction,
         DiscardText, Split, Raise, Go
    <3>3. CASE Stage(e) \/ UploadArtifacts(e) \/ PutManifest(e) \/ RecordOutcome(e)
               \/ Submit(e) \/ Caught(e) \/ RetryTask(e) \/ Uncaught(e) \/ Crash(e)
      BY <1>5, <2>1, <3>3 DEF Stage, UploadArtifacts, PutManifest, RecordOutcome, Submit,
         Caught, RetryTask, Uncaught, Crash, Raise, Go
    <3>4. QED
      BY <3>1, <3>2, <3>3 DEF RunAct
  <2>3. HasRow(e)
    BY <1>1, <2>2 DEF Route, StoreChunks, PublishedInv, ConvergeInv, RunsConverge, Alive
  <2>4. ChunksOf(release[e]) = Cut(e)
    BY <2>3 DEF HasRow, ExtractorOf, ChunksOf, Cut
  <2>5. CASE Route(e)
    BY <1>1, <1>2, <2>1, <2>2, <2>4, <2>5 DEF Route, Go
  <2>6. CASE StoreChunks(e)
    BY <1>1, <2>2, <2>4, <2>6 DEF StoreChunks, ChunksOf
  <2>7. QED
    BY <2>2, <2>5, <2>6
<1>6. QED
  BY <1>4, <1>5

\* It hands both on with embed_release.delay.
LEMMA RunsHandOver ==
  ASSUME PublishedInv, [Next]_vars, Deletion # "partial", OneChunking, NEW e \in Event,
         RunAct(e) \/ RetryTask(e) \/ Uncaught(e) \/ Crash(e)
  PROVE  SubmittedHaveWork'
<1> SUFFICES ASSUME Alive', NEW g \in EmbedRun, estep'[g] # "idle"
             PROVE  /\ HasBundle'
                    /\ kind = "text" => ChunksOf(erelease[g])' \in chunked'
  BY FixedFromTheStart DEF SubmittedHaveWork
<1>1. TypeOK /\ Alive /\ erelease' = erelease
  BY WhatIsThereStays, FixedFromTheStart DEF PublishedInv, ConvergeInv, TypeInv
<1>2. /\ erelease[g] \in EmbedReleases /\ erelease[g] \in Release
      /\ release[e] \in IngestReleases /\ release[e] \in Release
  BY <1>1, IngestionAssumption DEF TypeOK
<1>3. HasBundle /\ (kind = "text" => ChunksOf(erelease[g]) \in chunked)
  <2>1. CASE estep[g] # "idle"
    BY <1>1, <2>1 DEF PublishedInv, Handed, SubmittedHaveWork
  <2>2. CASE estep[g] = "idle"
    <3>1. Submit(e)
      BY <2>2 DEF RunAct, RetryTask, Uncaught, Crash, Commit, Begin, FindExtraction,
         StoreText, InsertExtraction, DiscardText, Route, Split, StoreChunks, Stage,
         UploadArtifacts, PutManifest, RecordOutcome, Caught, embed
    <3>2. HasBundle
      BY <1>1, <3>1 DEF Submit, PublishedInv, Handed, RunsBuildBundles, HasBundle
    <3>3. kind = "text" => ChunksOf(release[e]) \in chunked
      BY <1>1, <3>1 DEF Submit, PublishedInv, Handed, RunsHaveChunks
    <3>4. ChunksOf(erelease[g]) = ChunksOf(release[e])
      BY <1>2 DEF OneChunking, ChunksOf
    <3>5. QED
      BY <3>2, <3>3, <3>4
  <2>3. QED
    BY <2>1, <2>2
<1>4. QED
  BY <1>1, <1>2, <1>3, FindingsStay DEF ChunksOf

\* An embedder that is ticked off or being written stays so while its run does
\* nothing but tick off more.
LEMMA TickStays ==
  ASSUME PublishedInv, [Next]_vars, Deletion # "partial", Alive', kind = "text",
         NEW g \in EmbedRun, estep[g] \in {"embed", "write"},
         NEW m \in Embedders[erelease[g]] \ todo[g],
         pending'[g] = pending[g], estep'[g] = estep[g]
  PROVE  \/ Embedding(erelease[g], m)' \in embedded'
         \/ estep'[g] = "write" /\ pending'[g] = Embedding(erelease[g], m)'
<1>1. TypeOK /\ Alive /\ erelease' = erelease /\ erelease[g] \in Release
  BY WhatIsThereStays, FixedFromTheStart, IngestionAssumption
  DEF PublishedInv, ConvergeInv, TypeInv, TypeOK
<1>2. \/ Embedding(erelease[g], m) \in embedded
      \/ estep[g] = "write" /\ pending[g] = Embedding(erelease[g], m)
  BY <1>1 DEF PublishedInv, Handed, TickedIsEmbedded
<1>3. CASE Embedding(erelease[g], m) \in embedded
  BY <1>1, <1>3, FindingsStay DEF Embedding
<1>4. CASE estep[g] = "write" /\ pending[g] = Embedding(erelease[g], m)
  <2>1. ChunksOf(erelease[g]) \in chunked
    BY <1>1, <1>4 DEF PublishedInv, Handed, SubmittedHaveWork
  <2>2. extracted[Extractor[erelease[g]]] # None /\ Extractor[erelease[g]] \in AllExtractors
    BY <1>1, <2>1, IngestionAssumption DEF ChunksOf, TypeOK, AllExtractors
  <2>3. Embedding(erelease[g], m)' = Embedding(erelease[g], m)
    BY <1>1, <2>2, WhatIsThereStays DEF Embedding
  <2>4. QED
    BY <1>4, <2>3
<1>5. QED
  BY <1>2, <1>3, <1>4
\* No run of process_upload embeds.
LEMMA RunsTickNothing ==
  ASSUME PublishedInv, [Next]_vars, Deletion # "partial", NEW e \in Event,
         RunAct(e) \/ RetryTask(e) \/ Uncaught(e) \/ Crash(e)
  PROVE  TickedIsEmbedded'
<1> SUFFICES ASSUME Alive', kind = "text", NEW g \in EmbedRun, estep'[g] \in {"embed", "write"},
                    NEW m \in Embedders[erelease[g]] \ todo'[g]
             PROVE  \/ Embedding(erelease[g], m)' \in embedded'
                    \/ estep'[g] = "write" /\ pending'[g] = Embedding(erelease[g], m)'
  BY FixedFromTheStart DEF TickedIsEmbedded
<1>1. UNCHANGED <<todo, pending>> /\ estep'[g] = estep[g]
  <2>1. CASE Submit(e)
    BY <2>1 DEF Submit, PublishedInv, ConvergeInv, TypeInv, TypeOK
  <2>2. CASE ~Submit(e)
    BY <2>2 DEF RunAct, RetryTask, Uncaught, Crash, Commit, Begin, FindExtraction,
       StoreText, InsertExtraction, DiscardText, Route, Split, StoreChunks, Stage,
       UploadArtifacts, PutManifest, RecordOutcome, Caught, embed
  <2>3. QED
    BY <2>1, <2>2
<1>2. QED
  BY <1>1, TickStays

\* Who leaves the runs of process_upload alone leaves what they know alone.
LEMMA RunsUndisturbed ==
  ASSUME PublishedInv, [Next]_vars, Deletion # "partial", UNCHANGED step
  PROVE  RunsBuildBundles' /\ RunsHaveChunks'
<1>1. TypeOK /\ Handed /\ UNCHANGED <<kind, release>>
  BY FixedFromTheStart DEF PublishedInv, ConvergeInv, TypeInv
<1>2. RunsBuildBundles'
  BY <1>1, WhatIsThereStays DEF Handed, RunsBuildBundles
<1>3. RunsHaveChunks'
  <2> SUFFICES ASSUME Alive', kind = "text", NEW e \in Event,
                      step[e] \in {"stage", "upload", "manifest", "outcome", "submit"}
               PROVE  ChunksOf(release[e])' \in chunked'
    BY <1>1 DEF RunsHaveChunks
  <2>1. Alive /\ release[e] \in Release
    BY <1>1, WhatIsThereStays, RunOperators
  <2>2. ChunksOf(release[e]) \in chunked
    BY <1>1, <2>1 DEF Handed, RunsHaveChunks
  <2>3. QED
    BY <1>1, <2>1, <2>2, FindingsStay DEF ChunksOf
<1>4. QED
  BY <1>2, <1>3

\* And who starts no embedding run leaves the others with their work.
LEMMA WorkUndisturbed ==
  ASSUME PublishedInv, [Next]_vars, Deletion # "partial",
         \A g \in EmbedRun : estep'[g] # "idle" => estep[g] # "idle"
  PROVE  SubmittedHaveWork'
<1> SUFFICES ASSUME Alive', NEW g \in EmbedRun, estep[g] # "idle"
             PROVE  /\ HasBundle'
                    /\ kind = "text" => ChunksOf(erelease[g])' \in chunked'
  BY FixedFromTheStart DEF SubmittedHaveWork
<1>1. TypeOK /\ Alive /\ UNCHANGED <<kind, erelease>>
  BY WhatIsThereStays, FixedFromTheStart DEF PublishedInv, ConvergeInv, TypeInv
<1>2. erelease[g] \in Release
  BY <1>1, IngestionAssumption DEF TypeOK
<1>3. HasBundle /\ (kind = "text" => ChunksOf(erelease[g]) \in chunked)
  BY <1>1 DEF PublishedInv, Handed, SubmittedHaveWork
<1>4. QED
  BY <1>1, <1>2, <1>3, FindingsStay DEF ChunksOf


\* An embedding run ticks an embedder off when its embeddings are there, or when it
\* sets out to write them: with chunks to find, it never ticks one off for nothing.
LEMMA EmbedKeepsTicks ==
  ASSUME PublishedInv, [Next]_vars, Deletion # "partial", NEW g \in EmbedRun,
         EmbedAct(g) \/ EUncaught(g) \/ ECrash(g)
  PROVE  TickedIsEmbedded'
<1> SUFFICES ASSUME Alive', kind = "text", NEW h \in EmbedRun, estep'[h] \in {"embed", "write"},
                    NEW m \in Embedders[erelease[h]] \ todo'[h]
             PROVE  \/ Embedding(erelease[h], m)' \in embedded'
                    \/ estep'[h] = "write" /\ pending'[h] = Embedding(erelease[h], m)'
  BY FixedFromTheStart DEF TickedIsEmbedded
<1>1. TypeOK /\ Alive /\ UNCHANGED <<kind, erelease>> /\ erelease[g] \in Release
  BY WhatIsThereStays, FixedFromTheStart, IngestionAssumption
  DEF PublishedInv, ConvergeInv, TypeInv, TypeOK
<1>2. /\ estep \in [EmbedRun -> EmbedStep]
      /\ todo \in [EmbedRun -> SUBSET UNION {Embedders[w] : w \in Release}]
      /\ pending \in [EmbedRun -> Triples \cup {NoTriple}]
  BY <1>1 DEF TypeOK
<1>3. CASE h # g
  <2>1. todo'[h] = todo[h] /\ pending'[h] = pending[h] /\ estep'[h] = estep[h]
    BY <1>2, <1>3 DEF EmbedAct, EmbedStart, FindPending, StoreEmbeddings, Publish, ECaught,
       EUncaught, ECrash, ERaise, EGo
  <2>2. QED
    BY <2>1, TickStays
<1>4. CASE h = g /\ EmbedStart(g)
  BY <1>1, <1>2, <1>4 DEF EmbedStart
<1>5. CASE h = g /\ FindPending(g)
  <2> DEFINE w == erelease[g]
  <2>1. PICK n \in todo[g] :
            /\ todo' = [todo EXCEPT ![g] = @ \ {n}]
            /\ IF ChunksOf(w) \in chunked /\ Embedding(w, n) \notin embedded
               THEN EGo(g, "write") /\ pending' = [pending EXCEPT ![g] = Embedding(w, n)]
               ELSE UNCHANGED <<estep, pending>>
    BY <1>5 DEF FindPending, ChunksOf, Embedding
  <2>2. estep[g] = "embed" /\ UNCHANGED <<extracted, embedded>>
    BY <1>5 DEF FindPending, rows
  <2>3. ChunksOf(w) \in chunked
    BY <1>1, <2>2 DEF PublishedInv, Handed, SubmittedHaveWork
  <2>4. CASE m = n
    <3>1. CASE Embedding(w, n) \in embedded
      BY <1>1, <1>5, <2>2, <2>4, <3>1 DEF Embedding
    <3>2. CASE Embedding(w, n) \notin embedded
      BY <1>1, <1>2, <1>5, <2>1, <2>2, <2>3, <2>4, <3>2 DEF Embedding, EGo
    <3>3. QED
      BY <3>1, <3>2
  <2>5. CASE m # n
    <3>1. m \in Embedders[w] \ todo[g]
      BY <1>1, <1>2, <1>5, <2>1, <2>5
    <3>2. Embedding(w, m) \in embedded
      BY <1>1, <2>2, <3>1 DEF PublishedInv, Handed, TickedIsEmbedded
    <3>3. QED
      BY <1>1, <1>5, <2>2, <3>2 DEF Embedding
  <2>6. QED
    BY <2>4, <2>5
<1>6. CASE h = g /\ StoreEmbeddings(g)
  <2>1. /\ estep[g] = "write" /\ UNCHANGED <<extracted, todo>>
        /\ embedded' = embedded \cup {pending[g]}
    BY <1>6 DEF StoreEmbeddings
  <2>2. Embedding(erelease[g], m) \in embedded \/ pending[g] = Embedding(erelease[g], m)
    BY <1>1, <1>6, <2>1 DEF PublishedInv, Handed, TickedIsEmbedded
  <2>3. QED
    BY <1>1, <1>6, <2>1, <2>2 DEF Embedding
<1>7. CASE h = g /\ (Publish(g) \/ ECaught(g) \/ EUncaught(g) \/ ECrash(g))
  BY <1>2, <1>7 DEF Publish, ECaught, EUncaught, ECrash, ERaise, EGo
<1>8. QED
  BY <1>3, <1>4, <1>5, <1>6, <1>7 DEF EmbedAct

\* What is handed on survives every step.
LEMMA StepHanded ==
  ASSUME PublishedInv, [Next]_vars, Deletion # "partial", OneChunking
  PROVE  Handed'
<1>1. CASE \E e \in Event : RunAct(e) \/ RetryTask(e) \/ Uncaught(e) \/ Crash(e)
  BY <1>1, RunsKeepBuilding, RunsKeepChunks, RunsHandOver, RunsTickNothing DEF Handed
<1>2. CASE \E g \in EmbedRun : EmbedAct(g) \/ EUncaught(g) \/ ECrash(g)
  <2> PICK g \in EmbedRun : EmbedAct(g) \/ EUncaught(g) \/ ECrash(g)
    BY <1>2
  <2>1. UNCHANGED step
    BY OthersLeaveRuns DEF run
  <2>2. \A h \in EmbedRun : estep'[h] # "idle" => estep[h] # "idle"
    BY DEF EmbedAct, EmbedStart, FindPending, StoreEmbeddings, Publish, ECaught, EUncaught,
       ECrash, ERaise, EGo, PublishedInv, ConvergeInv, TypeInv, TypeOK
  <2>3. QED
    BY <2>1, <2>2, RunsUndisturbed, WorkUndisturbed, EmbedKeepsTicks DEF Handed
<1>3. CASE DeleteLock \/ DeleteAct \/ DeleteRollback \/ UNCHANGED vars
  <2>1. UNCHANGED <<step, estep, todo, pending, erelease>>
    BY <1>3 DEF DeleteLock, DeleteAct, DeleteObjects, DeleteCommit, DeleteRollback, vars,
       run, embed
  <2>2. TickedIsEmbedded'
    BY <2>1, TickStays, FixedFromTheStart DEF TickedIsEmbedded
  <2>3. QED
    BY <2>1, <2>2, RunsUndisturbed, WorkUndisturbed DEF Handed
<1>4. QED
  BY <1>1, <1>2, <1>3 DEF Next

\* A step that publishes does so with the bundle there, and for a text once every
\* embedder was ticked off.
LEMMA StepPublishes ==
  ASSUME PublishedInv, [Next]_vars, Deletion # "partial"
  PROVE  PublishedIsComplete'
<1> SUFFICES ASSUME published', Alive'
             PROVE  HasBundle' /\ (kind = "text" => Searchable')
  BY FixedFromTheStart DEF PublishedIsComplete, HasBundle, Alive
<1>1. TypeOK /\ Alive
  BY WhatIsThereStays DEF PublishedInv, ConvergeInv, TypeInv
<1>2. HasBundle /\ (kind = "text" => Searchable)
  <2>1. CASE published
    BY <1>1, <2>1 DEF PublishedInv, PublishedIsComplete, HasBundle, Alive
  <2>2. CASE ~published
    <3>1. \/ \E e \in Event : RecordOutcome(e) /\ ~Embeds(e) /\ outcome[e] = "ok"
          \/ \E g \in EmbedRun : Publish(g)
      <4>1. CASE \E e \in Event : RunAct(e) \/ RetryTask(e) \/ Uncaught(e) \/ Crash(e)
        BY <2>2, <4>1 DEF RunAct, RetryTask, Uncaught, Crash, Commit, Begin, FindExtraction,
           StoreText, InsertExtraction, DiscardText, Route, Split, StoreChunks, Stage,
           UploadArtifacts, PutManifest, RecordOutcome, Submit, Caught, SetStatus, shown
      <4>2. CASE \E g \in EmbedRun : EmbedAct(g) \/ EUncaught(g) \/ ECrash(g)
        BY <2>2, <4>2 DEF EmbedAct, EmbedStart, FindPending, StoreEmbeddings, ECaught,
           EUncaught, ECrash, SetStatus, shown
      <4>3. CASE DeleteLock \/ DeleteAct \/ DeleteRollback \/ UNCHANGED vars
        BY <2>2, <4>3 DEF DeleteLock, DeleteAct, DeleteObjects, DeleteCommit, DeleteRollback,
           vars, shown
      <4>4. QED
        BY <4>1, <4>2, <4>3 DEF Next
    <3>2. CASE \E e \in Event : RecordOutcome(e) /\ ~Embeds(e) /\ outcome[e] = "ok"
      <4>1. kind # "text"
        BY <3>2 DEF Embeds
      <4>2. HasBundle
        BY <1>1, <3>2 DEF RecordOutcome, PublishedInv, Handed, RunsBuildBundles, HasBundle
      <4>3. QED
        BY <4>1, <4>2
    <3>3. CASE \E g \in EmbedRun : Publish(g)
      <4>1. PICK g \in EmbedRun : Publish(g)
        BY <3>3
      <4>2. estep[g] = "embed" /\ todo[g] = {}
        BY <4>1 DEF Publish
      <4>3. HasBundle
        BY <1>1, <4>2 DEF PublishedInv, Handed, SubmittedHaveWork
      <4>4. kind = "text" =>
                \A m \in Embedders[erelease[g]] : Embedding(erelease[g], m) \in embedded
        BY <1>1, <4>2 DEF PublishedInv, Handed, TickedIsEmbedded
      <4>5. erelease[g] \in Release
        BY <1>1, IngestionAssumption DEF TypeOK
      <4>6. QED
        BY <4>3, <4>4, <4>5 DEF Searchable, Embedding
    <3>4. QED
      BY <3>1, <3>2, <3>3
  <2>3. QED
    BY <2>1, <2>2
<1>3. QED
  BY <1>1, <1>2, FindingsStay

\* "true once the document is completely ingested and searchable" (README.md:350),
\* for any number of runs, retries and failures, as long as the workers cut documents
\* alike and no deletion removes objects and then rolls back.
THEOREM PublishedDocumentsAreComplete ==
  ASSUME Deletion # "partial", OneChunking
  PROVE  Spec => []PublishedIsComplete
<1>1. Init => PublishedInv
  <2> SUFFICES ASSUME Init PROVE PublishedInv
    OBVIOUS
  <2>1. ConvergeInv
    BY InitTypeInv DEF ConvergeInv, RunsConverge, Init
  <2>2. Handed /\ PublishedIsComplete
    BY DEF Init, Handed, RunsBuildBundles, RunsHaveChunks, SubmittedHaveWork, TickedIsEmbedded,
       PublishedIsComplete
  <2>3. QED
    BY <2>1, <2>2 DEF PublishedInv
<1>2. PublishedInv /\ [Next]_vars => PublishedInv'
  <2> SUFFICES ASSUME PublishedInv, [Next]_vars PROVE PublishedInv'
    OBVIOUS
  <2>1. ConvergeInv'
    BY StepConverges DEF PublishedInv
  <2>2. QED
    BY <2>1, StepHanded, StepPublishes DEF PublishedInv
<1>3. PublishedInv => PublishedIsComplete
  BY DEF PublishedInv
<1>4. QED
  BY <1>1, <1>2, <1>3, PTL DEF Spec

-----------------------------------------------------------------------------
(* What is done is published.  The two ends of the pipeline meet in estep: a   *)
(* run that hands over leaves an embedding run that has not ended well, until  *)
(* that one publishes.  Nothing that fails or crashes comes into it.           *)

\* A run that ended with an ok bundle left a published document, or an embedding
\* run that is to publish it or has failed.
DoneWasHandedOver ==
    row => \A e \in Event : step[e] = "done" /\ outcome[e] = "ok" =>
               published \/ \E g \in EmbedRun : estep[g] \notin {"idle", "done"}

DoneInv == TypeInv /\ DoneWasHandedOver

\* The steps of a run: it gets to its end by publishing or by submitting.
LEMMA RunsEndHandedOver ==
  ASSUME DoneInv, NEW e \in Event,
         RunAct(e) \/ RetryTask(e) \/ Uncaught(e) \/ Crash(e)
  PROVE  DoneWasHandedOver'
<1> SUFFICES ASSUME row', NEW f \in Event, step'[f] = "done", outcome'[f] = "ok"
             PROVE  published' \/ \E g \in EmbedRun : estep'[g] \notin {"idle", "done"}
  BY DEF DoneWasHandedOver
<1> DEFINE Owed == \E g \in EmbedRun : estep[g] \notin {"idle", "done"}
<1>1. /\ step \in [Event -> RunStep] /\ estep \in [EmbedRun -> EmbedStep]
      /\ outcome \in [Event -> {"ok", "needs_intervention", "failed"}]
  BY DEF DoneInv, TypeInv, TypeOK
<1>2. row /\ step[f] = "done" /\ outcome[f] = "ok" => published \/ Owed
  BY DEF DoneInv, DoneWasHandedOver
<1>3. CASE RecordOutcome(e)
  BY <1>1, <1>2, <1>3 DEF RecordOutcome, SetStatus, MarkPublished, Go, rows, embed
<1>4. CASE Submit(e)
  <2>1. PICK g \in EmbedRun : estep' = [estep EXCEPT ![g] = "start"]
    BY <1>4 DEF Submit
  <2>2. estep'[g] = "start"
    BY <1>1, <2>1
  <2>3. QED
    BY <2>2
<1>5. CASE Commit(e) \/ Begin(e) \/ FindExtraction(e) \/ StoreText(e) \/ InsertExtraction(e)
           \/ DiscardText(e) \/ Route(e) \/ Split(e)
  BY <1>1, <1>2, <1>5 DEF Commit, Begin, FindExtraction, StoreText, InsertExtraction,
     DiscardText, Route, Split, SetStatus, Raise, Go, rows, shown, embed
<1>6. CASE StoreChunks(e) \/ Stage(e) \/ UploadArtifacts(e) \/ PutManifest(e)
  BY <1>1, <1>2, <1>6 DEF StoreChunks, Stage, UploadArtifacts, PutManifest, Go, rows, shown, embed
<1>7. CASE Caught(e) \/ RetryTask(e) \/ Uncaught(e) \/ Crash(e)
  <2>1. /\ UNCHANGED <<row, published, outcome, estep>>
        /\ step'[e] # "done" /\ \A h \in Event \ {e} : step'[h] = step[h]
    <3>1. CASE Caught(e) \/ Uncaught(e)
      BY <1>1, <3>1 DEF Caught, Uncaught, SetStatus, Raise, Go, rows, shown, embed
    <3>2. CASE RetryTask(e) \/ Crash(e)
      BY <1>1, <3>2 DEF RetryTask, Crash, SetStatus, Go, rows, shown, embed
    <3>3. QED
      BY <1>7, <3>1, <3>2
  <2>2. QED
    BY <1>2, <2>1
<1>8. QED
  BY <1>3, <1>4, <1>5, <1>6, <1>7 DEF RunAct

\* The steps of an embedding run: it ends well only by publishing.
LEMMA EmbedRunsEndPublished ==
  ASSUME DoneInv, NEW g \in EmbedRun, EmbedAct(g) \/ EUncaught(g) \/ ECrash(g)
  PROVE  DoneWasHandedOver'
<1>1. /\ estep \in [EmbedRun -> EmbedStep] /\ UNCHANGED <<row, step, outcome>>
      /\ estep[g] \notin {"idle", "done"}
  BY DEF DoneInv, TypeInv, TypeOK, EmbedAct, EmbedStart, FindPending, StoreEmbeddings, Publish,
     ECaught, EUncaught, ECrash, rows, run
<1>2. CASE Publish(g)
  BY <1>1, <1>2 DEF Publish, MarkPublished, DoneWasHandedOver
<1>3. CASE ~Publish(g)
  <2>1. estep'[g] \notin {"idle", "done"}
    BY <1>1, <1>3 DEF EmbedAct, EmbedStart, FindPending, StoreEmbeddings, ECaught, EUncaught,
       ECrash, ERaise, EGo
  <2>2. QED
    BY <2>1 DEF DoneWasHandedOver
<1>4. QED
  BY <1>2, <1>3

\* Nothing is lost between the stages (embed_release.delay, mark_published), whatever
\* fails, crashes or is deleted, and however the work is divided among runs.
THEOREM DoneGetsPublished == Spec => []DoneIsPublished
<1>1. Init => DoneInv
  BY InitTypeInv DEF Init, DoneInv, DoneWasHandedOver
<1>2. DoneInv /\ [Next]_vars => DoneInv'
  <2> SUFFICES ASSUME DoneInv, [Next]_vars PROVE DoneInv'
    OBVIOUS
  <2>1. TypeInv'
    BY StepTypeInv DEF DoneInv
  <2>2. CASE \E e \in Event : RunAct(e) \/ RetryTask(e) \/ Uncaught(e) \/ Crash(e)
    BY <2>1, <2>2, RunsEndHandedOver DEF DoneInv
  <2>3. CASE \E g \in EmbedRun : EmbedAct(g) \/ EUncaught(g) \/ ECrash(g)
    BY <2>1, <2>3, EmbedRunsEndPublished DEF DoneInv
  <2>4. CASE DeleteLock \/ DeleteAct \/ DeleteRollback \/ UNCHANGED vars
    <3>1. UNCHANGED <<published, step, outcome, estep>> /\ (row' => row)
      BY <2>4 DEF DeleteLock, DeleteAct, DeleteObjects, DeleteCommit, DeleteRollback, vars,
         rows, shown, run, embed
    <3>2. QED
      BY <2>1, <3>1 DEF DoneInv, DoneWasHandedOver
  <2>5. QED
    BY <2>2, <2>3, <2>4 DEF Next
<1>3. DoneInv => DoneIsPublished
  BY DEF DoneInv, DoneWasHandedOver, DoneIsPublished
<1>4. QED
  BY <1>1, <1>2, <1>3, PTL DEF Spec

-----------------------------------------------------------------------------
(* The status settles.  Every status that names a stage is written by somebody *)
(* who is then at that stage, and who writes another one when leaving it.      *)

\* A status that names a stage has somebody working on it.
StageHasAWorker ==
    row =>
        /\ status = "uploaded" /\ committed # {} => \E e \in Event : step[e] = "begin"
        /\ status = "ingesting" => \E e \in Event : step[e] \in Guarded
        /\ status = "embedding" =>
               \/ \E e \in Event : step[e] = "submit"
               \/ \E g \in EmbedRun : estep[g] \in {"start", "embed", "write"}

SettleInv == TypeInv /\ StageHasAWorker

\* A run leaves "begin", its try and "submit" only with a new status or a new worker,
\* unless it fails where nothing is recorded.
LEMMA RunsLeaveAStatus ==
  ASSUME SettleInv, "outside" \notin Faults, "crash" \notin Faults, NEW e \in Event,
         RunAct(e) \/ RetryTask(e) \/ Uncaught(e) \/ Crash(e)
  PROVE  StageHasAWorker'
<1> SUFFICES ASSUME row' PROVE StageHasAWorker'
  BY DEF StageHasAWorker
<1>1. /\ step \in [Event -> RunStep] /\ estep \in [EmbedRun -> EmbedStep]
      /\ outcome \in [Event -> {"ok", "needs_intervention", "failed"}]
      /\ StageHasAWorker /\ row
  BY DEF SettleInv, TypeInv, TypeOK, RunAct, RetryTask, Uncaught, Crash, Commit, Begin,
     FindExtraction, StoreText, InsertExtraction, DiscardText, Route, Split, StoreChunks,
     Stage, UploadArtifacts, PutManifest, RecordOutcome, Submit, Caught, rows
<1> USE DEF Go, Guarded, StageHasAWorker
<1>2. CASE Commit(e)
  BY <1>1, <1>2 DEF Commit, shown, embed
<1>3. CASE Begin(e)
  <2>1. status' = "ingesting" /\ step'[e] = "find"
    BY <1>1, <1>3 DEF Begin, SetStatus
  <2>2. QED
    BY <2>1
<1>4. CASE RecordOutcome(e)
  <2>1. \/ status' \in {"ok", "needs_intervention", "failed"}
        \/ status' = "embedding" /\ step'[e] = "submit"
    BY <1>1, <1>4 DEF RecordOutcome, SetStatus, MarkPublished
  <2>2. QED
    BY <2>1
<1>5. CASE Submit(e)
  <2>1. PICK g \in EmbedRun : estep' = [estep EXCEPT ![g] = "start"]
    BY <1>5 DEF Submit
  <2>2. /\ estep'[g] = "start" /\ UNCHANGED <<status, committed>>
        /\ step[e] = "submit" /\ step' = [step EXCEPT ![e] = "done"]
    BY <1>1, <1>5, <2>1 DEF Submit, shown
  <2>3. QED
    BY <1>1, <2>2
<1>6. CASE Caught(e)
  BY <1>1, <1>6 DEF Caught, SetStatus
<1>7. CASE RetryTask(e)
  BY <1>1, <1>7 DEF RetryTask, shown, embed
<1>8. CASE Uncaught(e) \/ Crash(e)
  BY <1>8 DEF Uncaught, Crash
<1>9. CASE \/ FindExtraction(e) \/ StoreText(e) \/ InsertExtraction(e) \/ DiscardText(e)
           \/ Route(e) \/ Split(e) \/ StoreChunks(e) \/ Stage(e) \/ UploadArtifacts(e)
           \/ PutManifest(e)
  <2>1. /\ UNCHANGED <<status, committed, estep>>
        /\ step[e] \in Guarded /\ step'[e] \in Guarded
        /\ \A f \in Event \ {e} : step'[f] = step[f]
    <3>1. CASE \/ FindExtraction(e) \/ StoreText(e) \/ InsertExtraction(e) \/ DiscardText(e)
               \/ Route(e)
      BY <1>1, <3>1 DEF FindExtraction, StoreText, InsertExtraction, DiscardText, Route, shown,
         embed
    <3>2. CASE \/ Split(e) \/ StoreChunks(e) \/ Stage(e) \/ UploadArtifacts(e)
               \/ PutManifest(e)
      BY <1>1, <3>2 DEF Split, StoreChunks, Stage, UploadArtifacts, PutManifest, shown, embed
    <3>3. QED
      BY <1>9, <3>1, <3>2
  <2>2. QED
    BY <1>1, <2>1
<1>10. QED
  BY <1>2, <1>3, <1>4, <1>5, <1>6, <1>7, <1>8, <1>9 DEF RunAct

\* An embedding run that stops working writes how it ended.
LEMMA EmbedRunsLeaveAStatus ==
  ASSUME SettleInv, "outside" \notin Faults, "crash" \notin Faults, NEW g \in EmbedRun,
         EmbedAct(g) \/ EUncaught(g) \/ ECrash(g)
  PROVE  StageHasAWorker'
<1>1. /\ estep \in [EmbedRun -> EmbedStep] /\ UNCHANGED <<row, step, committed>>
      /\ StageHasAWorker
  BY DEF SettleInv, TypeInv, TypeOK, EmbedAct, EmbedStart, FindPending, StoreEmbeddings,
     Publish, ECaught, EUncaught, ECrash, rows, run
<1> USE DEF EGo, StageHasAWorker
<1>2. CASE EmbedStart(g) \/ FindPending(g) \/ StoreEmbeddings(g)
  <2>1. estep'[g] \in {"start", "embed", "write"} /\ status' \in {status, "embedding"}
    BY <1>1, <1>2 DEF EmbedStart, FindPending, StoreEmbeddings, SetStatus, shown
  <2>2. QED
    BY <1>1, <2>1
<1>3. CASE Publish(g) \/ ECaught(g)
  BY <1>1, <1>3 DEF Publish, ECaught, SetStatus, MarkPublished
<1>4. QED
  BY <1>2, <1>3 DEF EmbedAct, EUncaught, ECrash

\* "If an exception escapes the flow after the commit, it records status='failed'"
\* (docs/ingestion-flow.md:150): as long as nothing fails outside the try and no worker
\* crashes, the status is never left at a stage nobody is working on.
THEOREM StatusesSettle ==
  ASSUME "outside" \notin Faults, "crash" \notin Faults
  PROVE  Spec => []StatusSettles
<1>1. Init => SettleInv
  BY InitTypeInv DEF Init, SettleInv, StageHasAWorker
<1>2. SettleInv /\ [Next]_vars => SettleInv'
  <2> SUFFICES ASSUME SettleInv, [Next]_vars PROVE SettleInv'
    OBVIOUS
  <2>1. TypeInv'
    BY StepTypeInv DEF SettleInv
  <2>2. CASE \E e \in Event : RunAct(e) \/ RetryTask(e) \/ Uncaught(e) \/ Crash(e)
    BY <2>1, <2>2, RunsLeaveAStatus DEF SettleInv
  <2>3. CASE \E g \in EmbedRun : EmbedAct(g) \/ EUncaught(g) \/ ECrash(g)
    BY <2>1, <2>3, EmbedRunsLeaveAStatus DEF SettleInv
  <2>4. CASE DeleteLock \/ DeleteAct \/ DeleteRollback \/ UNCHANGED vars
    <3>1. UNCHANGED <<status, committed, step, estep>> /\ (row' => row)
      BY <2>4 DEF DeleteLock, DeleteAct, DeleteObjects, DeleteCommit, DeleteRollback, vars,
         rows, shown, run, embed
    <3>2. QED
      BY <2>1, <3>1 DEF SettleInv, StageHasAWorker
  <2>5. QED
    BY <2>2, <2>3, <2>4 DEF Next
<1>3. SettleInv => StatusSettles
  BY DEF SettleInv, TypeInv, TypeOK, StageHasAWorker, StatusSettles, AtRest, RunOver, EmbedOver,
     Status, Guarded
<1>4. QED
  BY <1>1, <1>2, <1>3, PTL DEF Spec
=============================================================================
