---------------------------- MODULE BundlesProofs ----------------------------
(* What Bundles promises, for any files, any directories the runs may build,  *)
(* any number of retries and any deletions, committed or rolled back.         *)
EXTENDS Bundles, TLAPS

BundleSpec == BundleInit /\ [][BundleNext]_bundleVars

\* The run at work built one of its directories, none of whose files is the manifest.
StagedIsBuilt == attempt \in 1..MaxAttempts /\ Marker \notin DOMAIN staged

\* A file this try has sent is what the run built, unless a deletion took it.
SentIsStored ==
    \A f \in sent :
        /\ f \in DOMAIN staged
        /\ f \in lost \/ f \in DOMAIN stored
        /\ f \in DOMAIN stored => stored[f] = staged[f]

\* Once the manifest is in place all files were sent.
PublishedIsSent == at \in {"refused", "published", "completed"} => DOMAIN staged \subseteq sent

\* A manifest of the run at work names the files that run built.
ManifestIsOfARun ==
    manifest # <<>> =>
        /\ manifest.by \in Nat /\ manifest.by <= attempt
        /\ manifest.by = attempt => at # "staging" /\ manifest.files = staged

PublishedHasManifest ==
    at \in {"published", "completed"} =>
        Marker \in lost \/ manifest = [by |-> attempt, files |-> staged]

\* A manifest found once process-upload has completed is that of its last run.
CompletedManifest ==
    (at \in {"published", "completed"} /\ manifest # <<>>) => manifest.by = attempt

\* What a reader that began after the end has, while nothing is written any more.
DownloadIsStaged ==
    download.settled =>
        /\ at = "completed"
        /\ download.names = staged
        /\ \A f \in DOMAIN download.got : f \in DOMAIN staged /\ download.got[f] = staged[f]
        /\ download.ended = "with an error" => DOMAIN staged \cap lost # {}

DownloadFields == DOMAIN download = {"names", "got", "settled", "ended"}

BInv ==
    /\ StagedIsBuilt
    /\ DownloadFields
    /\ SentIsStored
    /\ PublishedIsSent
    /\ ManifestIsOfARun
    /\ PublishedHasManifest
    /\ CompletedManifest
    /\ ManifestNamesWhatIsThere
    /\ DownloadIsStaged

-----------------------------------------------------------------------------

\* The bundle is empty at first.
LEMMA BundleInitially == BundleInit => BInv
  <1> SUFFICES ASSUME BundleInit PROVE BInv
    OBVIOUS
  <1>1. /\ attempt = 1 /\ at = "staging" /\ sent = {} /\ manifest = <<>>
        /\ download.settled = FALSE
    BY DEF BundleInit, NoDownload
  <1>2. StagedIsBuilt
    BY BundlesAssumption DEF StagedIsBuilt, BundleInit
  <1>3. SentIsStored /\ PublishedIsSent /\ PublishedHasManifest /\ CompletedManifest
    BY <1>1 DEF SentIsStored, PublishedIsSent, PublishedHasManifest, CompletedManifest
  <1>4. ManifestIsOfARun /\ ManifestNamesWhatIsThere
    BY <1>1 DEF ManifestIsOfARun, ManifestNamesWhatIsThere
  <1>5. DownloadIsStaged /\ DownloadFields
    BY <1>1 DEF DownloadIsStaged, DownloadFields, BundleInit, NoDownload
  <1> QED BY <1>3, <1>4, <1>5, <1>2 DEF BInv

\* Uploading a file leaves the manifest of this run true, and those of earlier runs behind.
LEMMA UploadKeeps == BInv /\ UploadFile => BInv'
  <1> SUFFICES ASSUME BInv, UploadFile PROVE BInv'
    OBVIOUS
  <1> USE DEF BInv
  <1>1. PICK f \in Foremost(ToUpload) :
            stored' = Put(stored, f, staged[f]) /\ sent' = sent \cup {f} /\ lost' = lost \ {f}
    BY DEF UploadFile
  <1>2. /\ at = "uploading" /\ f \in DOMAIN staged
        /\ UNCHANGED <<attempt, at, staged, try, manifest, download>>
    BY DEF UploadFile, Foremost, ToUpload
  <1>3. /\ DOMAIN stored' = DOMAIN stored \cup {f}
        /\ \A g \in DOMAIN stored' : stored'[g] = IF g = f THEN staged[f] ELSE stored[g]
    BY <1>1 DEF Put
  <1>4. SentIsStored'
    BY <1>1, <1>2, <1>3 DEF SentIsStored
  <1>5. ManifestIsOfARun' /\ PublishedIsSent' /\ PublishedHasManifest' /\ CompletedManifest'
    BY <1>2 DEF ManifestIsOfARun, PublishedIsSent, PublishedHasManifest, CompletedManifest
  <1>6. ManifestNamesWhatIsThere'
    <2> SUFFICES ASSUME manifest # <<>>, NEW g \in DOMAIN manifest.files
                 PROVE  \/ g \in lost'
                        \/ /\ g \in DOMAIN stored'
                           /\ stored'[g] # manifest.files[g] => manifest.by < attempt
      BY <1>2 DEF ManifestNamesWhatIsThere
    <2>1. \/ g \in lost
          \/ g \in DOMAIN stored /\ (stored[g] # manifest.files[g] => manifest.by < attempt)
      BY DEF ManifestNamesWhatIsThere
    <2>2. CASE g # f
      BY <1>1, <1>3, <2>1, <2>2
    <2>3. CASE g = f
      BY <1>2, <1>3, <2>3 DEF ManifestIsOfARun, StagedIsBuilt
    <2> QED BY <2>2, <2>3
  <1>7. DownloadIsStaged' /\ DownloadFields' /\ StagedIsBuilt'
    BY <1>2 DEF DownloadIsStaged, DownloadFields, StagedIsBuilt
  <1> QED BY <1>4, <1>5, <1>6, <1>7

\* The manifest is put when every file was sent, so it is true.
LEMMA ManifestKeeps == BInv /\ PutBundleManifest => BInv'
  <1> SUFFICES ASSUME BInv, PutBundleManifest PROVE BInv'
    OBVIOUS
  <1> USE DEF BInv
  <1>1. /\ at = "uploading" /\ DOMAIN staged \subseteq sent
        /\ manifest' = [by |-> attempt, files |-> staged]
        /\ at' \in {"published", "refused"}
        /\ lost' = lost \ {Marker}
        /\ UNCHANGED <<attempt, staged, try, sent, stored, download>>
    BY DEF PutBundleManifest, AllUploaded, ToUpload, NewManifest
  <1>2. manifest'.by = attempt /\ manifest'.files = staged
    BY <1>1
  <1>3. SentIsStored' /\ PublishedIsSent' /\ PublishedHasManifest' /\ StagedIsBuilt'
    BY <1>1 DEF SentIsStored, PublishedIsSent, PublishedHasManifest, StagedIsBuilt
  <1>4. ManifestIsOfARun' /\ CompletedManifest'
    BY <1>1, <1>2 DEF ManifestIsOfARun, CompletedManifest, StagedIsBuilt
  <1>5. ManifestNamesWhatIsThere'
    BY <1>1, <1>2 DEF ManifestNamesWhatIsThere, SentIsStored, StagedIsBuilt
  <1>6. DownloadIsStaged' /\ DownloadFields'
    BY <1>1 DEF DownloadIsStaged, DownloadFields
  <1> QED BY <1>1, <1>3, <1>4, <1>5, <1>6

\* A step of process-upload that writes nothing; a new run has a larger number.
LEMMA RunKeeps ==
    BInv /\ (StageFiles \/ PublishFails \/ RunFails \/ RunCompletes \/ RetryProcessUpload) => BInv'
  <1> SUFFICES ASSUME BInv,
                      StageFiles \/ PublishFails \/ RunFails \/ RunCompletes \/ RetryProcessUpload
               PROVE  BInv'
    OBVIOUS
  <1> USE DEF BInv
  <1>1. UNCHANGED <<stored, manifest, lost, download>>
    BY DEF StageFiles, PublishFails, RunFails, RunCompletes, RetryProcessUpload
  <1>2. /\ DownloadFields' /\ attempt' >= attempt /\ attempt \in 1..MaxAttempts
        /\ attempt' \in 1..MaxAttempts
    BY <1>1, BundlesAssumption
       DEF DownloadFields, StagedIsBuilt, StageFiles, PublishFails, RunFails, RunCompletes,
           RetryProcessUpload
  <1>3. StagedIsBuilt'
    BY <1>2, BundlesAssumption
       DEF StagedIsBuilt, StageFiles, PublishFails, RunFails, RunCompletes, RetryProcessUpload
  <1>4. ManifestNamesWhatIsThere'
    BY <1>1, <1>2 DEF ManifestNamesWhatIsThere, ManifestIsOfARun
  <1>5. CASE StageFiles \/ RetryProcessUpload
    <2>1. sent' = {} /\ at' \in {"uploading", "staging"} /\ at # "completed"
      BY <1>5 DEF StageFiles, RetryProcessUpload, MayRetry
    <2>2. SentIsStored' /\ PublishedIsSent' /\ PublishedHasManifest' /\ CompletedManifest'
      BY <2>1 DEF SentIsStored, PublishedIsSent, PublishedHasManifest, CompletedManifest
    <2>3. ManifestIsOfARun'
      BY <1>1, <1>2, <1>5 DEF ManifestIsOfARun, StageFiles, RetryProcessUpload
    <2>4. DownloadIsStaged'
      BY <1>1, <2>1 DEF DownloadIsStaged
    <2> QED BY <1>2, <1>4, <1>3, <2>2, <2>3, <2>4
  <1>6. CASE PublishFails \/ RunFails \/ RunCompletes
    <2>1. /\ UNCHANGED <<attempt, staged>> /\ (sent' = {} \/ sent' = sent)
          /\ at # "completed" /\ at' # "staging" /\ at' # "published" /\ at' # "refused"
          /\ at' = "completed" => at = "published" /\ sent' = sent
      BY <1>6 DEF PublishFails, RunFails, RunCompletes
    <2>2. SentIsStored' /\ PublishedIsSent'
      BY <1>1, <2>1 DEF SentIsStored, PublishedIsSent
    <2>3. PublishedHasManifest' /\ CompletedManifest'
      BY <1>1, <2>1 DEF PublishedHasManifest, CompletedManifest
    <2>4. ManifestIsOfARun'
      BY <1>1, <2>1 DEF ManifestIsOfARun
    <2>5. DownloadIsStaged'
      BY <1>1, <2>1 DEF DownloadIsStaged
    <2> QED BY <1>2, <1>4, <1>3, <2>2, <2>3, <2>4, <2>5
  <1> QED BY <1>5, <1>6

\* A reader changes only what it has: a file it adds is the one the manifest names.
LEMMA DownloadKeeps == BInv /\ (ReadManifest \/ DownloadFile) => BInv'
  <1> SUFFICES ASSUME BInv, ReadManifest \/ DownloadFile PROVE BInv'
    OBVIOUS
  <1> USE DEF BInv
  <1>1. UNCHANGED <<attempt, at, staged, try, sent, stored, manifest, lost>>
    BY DEF ReadManifest, DownloadFile
  <1>2. /\ SentIsStored' /\ PublishedIsSent' /\ ManifestIsOfARun' /\ PublishedHasManifest'
        /\ CompletedManifest' /\ ManifestNamesWhatIsThere' /\ StagedIsBuilt'
    BY <1>1 DEF SentIsStored, PublishedIsSent, ManifestIsOfARun, PublishedHasManifest,
                CompletedManifest, ManifestNamesWhatIsThere, StagedIsBuilt
  <1>3. CASE ReadManifest
    <2>1. /\ manifest # <<>>
          /\ download' = [names |-> manifest.files, got |-> <<>>, settled |-> at = "completed",
                          ended |-> "no"]
      BY <1>3 DEF ReadManifest
    <2>2. at = "completed" => manifest.files = staged
      BY <2>1 DEF CompletedManifest, ManifestIsOfARun
    <2>3. \A f : f \notin DOMAIN <<>>
      OBVIOUS
    <2>4. /\ download'.names = manifest.files /\ download'.got = <<>>
          /\ download'.settled = (at = "completed") /\ download'.ended = "no"
          /\ DownloadFields'
      BY <2>1 DEF DownloadFields
    <2>5. DownloadIsStaged'
      BY <1>1, <2>2, <2>3, <2>4 DEF DownloadIsStaged
    <2> QED BY <1>2, <2>4, <2>5
  <1>4. CASE DownloadFile
    <2> DEFINE left == DOMAIN download.names \ DOMAIN download.got
    <2>1. CASE download' = [download EXCEPT !.ended = "with all"]
      <3>1. /\ download'.names = download.names /\ download'.got = download.got
            /\ download'.settled = download.settled /\ download'.ended = "with all"
            /\ DownloadFields'
        BY <2>1 DEF DownloadFields
      <3>2. DownloadIsStaged'
        BY <1>1, <3>1 DEF DownloadIsStaged
      <3> QED BY <1>2, <3>1, <3>2
    <2>2. CASE \E f \in Foremost(left) :
                    IF f \in DOMAIN stored
                    THEN download' = [download EXCEPT !.got = Put(@, f, stored[f])]
                    ELSE download' = [download EXCEPT !.ended = "with an error"]
      <3>1. PICK f \in left :
                    IF f \in DOMAIN stored
                    THEN download' = [download EXCEPT !.got = Put(@, f, stored[f])]
                    ELSE download' = [download EXCEPT !.ended = "with an error"]
        BY <2>2 DEF Foremost
      <3>2. /\ download'.names = download.names
            /\ download'.settled = download.settled
            /\ DownloadFields'
        BY <3>1 DEF DownloadFields
      <3>3. download.settled => /\ f \in DOMAIN staged
                                /\ f \in lost \/ f \in DOMAIN stored
                                /\ f \in DOMAIN stored => stored[f] = staged[f]
        BY <3>1 DEF DownloadIsStaged, PublishedIsSent, SentIsStored
      <3>4. CASE f \in DOMAIN stored
        <4>1. download'.got = Put(download.got, f, stored[f]) /\ download'.ended = download.ended
          BY <3>1, <3>4 DEF DownloadFields
        <4>2. /\ DOMAIN download'.got = DOMAIN download.got \cup {f}
              /\ \A g \in DOMAIN download'.got :
                    download'.got[g] = IF g = f THEN stored[f] ELSE download.got[g]
          BY <4>1 DEF Put
        <4>3. DownloadIsStaged'
          BY <1>1, <3>2, <3>3, <3>4, <4>1, <4>2 DEF DownloadIsStaged
        <4> QED BY <1>2, <3>2, <4>3
      <3>5. CASE f \notin DOMAIN stored
        <4>1. download'.got = download.got
          BY <3>1, <3>5 DEF DownloadFields
        <4>2. DownloadIsStaged'
          BY <1>1, <3>2, <3>3, <3>5, <4>1 DEF DownloadIsStaged
        <4> QED BY <1>2, <3>2, <4>2
      <3> QED BY <3>4, <3>5
    <2> QED BY <1>4, <2>1, <2>2 DEF DownloadFile
  <1> QED BY <1>3, <1>4

\* What a deletion removes is on the list of what is lost; a manifest it leaves is the same.
LEMMA RemovalKeeps == BInv /\ RemoveObjects => BInv'
  <1> SUFFICES ASSUME BInv, RemoveObjects PROVE BInv'
    OBVIOUS
  <1> USE DEF BInv
  <1>1. PICK keys \in SUBSET listed :
            /\ stored' = [f \in DOMAIN stored \ keys |-> stored[f]]
            /\ manifest' = IF Marker \in keys THEN <<>> ELSE manifest
            /\ lost' = lost \cup keys
    BY DEF RemoveObjects
  <1>2. UNCHANGED <<attempt, at, staged, try, sent, download>>
    BY DEF RemoveObjects
  <1>3. /\ DOMAIN stored' = DOMAIN stored \ keys
        /\ \A f \in DOMAIN stored' : stored'[f] = stored[f]
        /\ manifest' # <<>> => manifest' = manifest /\ Marker \notin keys
        /\ Marker \notin lost' => manifest' = manifest
    BY <1>1
  <1>4. SentIsStored'
    BY <1>1, <1>2, <1>3 DEF SentIsStored
  <1>5. PublishedIsSent' /\ StagedIsBuilt'
    BY <1>2 DEF PublishedIsSent, StagedIsBuilt
  <1>6. PublishedHasManifest' /\ CompletedManifest'
    BY <1>1, <1>2, <1>3 DEF PublishedHasManifest, CompletedManifest
  <1>7. ManifestIsOfARun'
    BY <1>2, <1>3 DEF ManifestIsOfARun
  <1>8. ManifestNamesWhatIsThere'
    BY <1>1, <1>2, <1>3 DEF ManifestNamesWhatIsThere
  <1>9. DownloadIsStaged' /\ DownloadFields'
    BY <1>1, <1>2 DEF DownloadIsStaged, DownloadFields
  <1> QED BY <1>4, <1>5, <1>6, <1>7, <1>8, <1>9

\* To list the objects, to commit and to roll back touch none of them.
LEMMA TransactionKeeps == BInv /\ (ListObjects \/ CommitDeletion \/ RollBackDeletion) => BInv'
  <1> SUFFICES ASSUME BInv, ListObjects \/ CommitDeletion \/ RollBackDeletion PROVE BInv'
    OBVIOUS
  <1>1. UNCHANGED <<attempt, at, staged, try, sent, stored, manifest, lost, download>>
    BY DEF ListObjects, CommitDeletion, RollBackDeletion
  <1> QED
    BY <1>1 DEF BInv, StagedIsBuilt, DownloadFields, SentIsStored, PublishedIsSent,
                ManifestIsOfARun, PublishedHasManifest, CompletedManifest,
                ManifestNamesWhatIsThere, DownloadIsStaged

LEMMA BInvKept == BInv /\ [BundleNext]_bundleVars => BInv'
  <1> SUFFICES ASSUME BInv, [BundleNext]_bundleVars PROVE BInv'
    OBVIOUS
  <1>1. CASE BundleNext
    BY <1>1, UploadKeeps, ManifestKeeps, RunKeeps, DownloadKeeps, RemovalKeeps,
       TransactionKeeps DEF BundleNext
  <1>2. CASE UNCHANGED bundleVars
    BY <1>2 DEF bundleVars, BInv, StagedIsBuilt, DownloadFields, SentIsStored, PublishedIsSent, ManifestIsOfARun,
                PublishedHasManifest, CompletedManifest, ManifestNamesWhatIsThere, DownloadIsStaged
  <1> QED BY <1>1, <1>2

\* The bundle of a completed process-upload follows from the invariant.
LEMMA WholeFollows == BInv => CompletedBundleIsWhole
  BY DEF BInv, CompletedBundleIsWhole, PublishedHasManifest, PublishedIsSent, SentIsStored

LEMMA DownloadFollows == BInv => DownloadIsOneBundle
  BY DEF BInv, DownloadIsOneBundle, DownloadIsStaged

\* A manifest never names a file that is missing, but for one that a deletion of the
\* document removed, nor, unless a later run of process-upload has begun, a content that
\* is not there (publish_bundle, _delete_keys).
THEOREM ManifestsAreTrue == BundleSpec => []ManifestNamesWhatIsThere
  <1>1. BInv => ManifestNamesWhatIsThere
    BY DEF BInv
  <1> QED BY <1>1, BundleInitially, BInvKept, PTL DEF BundleSpec

\* When process-upload completes the bundle is the one its last run built, but for the
\* objects that a deletion, committed or not, has removed.
THEOREM CompletionIsWhole == BundleSpec => []CompletedBundleIsWhole
  BY BundleInitially, BInvKept, WholeFollows, PTL DEF BundleSpec

\* Who downloads a bundle after process-upload completed gets the files of one run;
\* one that ends with an error asked for a file that a deletion has removed.
THEOREM DownloadsAreWhole == BundleSpec => []DownloadIsOneBundle
  BY BundleInitially, BInvKept, DownloadFollows, PTL DEF BundleSpec
=============================================================================
