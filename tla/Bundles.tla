------------------------------- MODULE Bundles -------------------------------
(* The ingestion bundle of one upload event (ingestion/publish.py): its files *)
(* and the manifest that completes it, under a prefix named by the event. The *)
(* publish-bundle task retries with the files it has; process-upload retries  *)
(* with files built again, of which some differ (a DuckDB file is never built *)
(* twice alike, and the work may end otherwise). A reader of the bundle reads *)
(* the manifest and then each file it names; deleting the document removes    *)
(* what it finds under the prefix in batches, of which one may fail: then the *)
(* document stays, with what is left. A manifest names each file with the     *)
(* hash of its content, so it is modelled as the files themselves. A request  *)
(* may take effect and still fail for the one who sent it.                    *)
EXTENDS Naturals, Sequences

CONSTANTS
    Place,          \* Place[f]: where the name f comes in the order of sorted()
    Stagings,       \* Stagings[n]: the directories the n-th run may build, file by file
    MaxTries        \* Tries of publish-bundle within a run

Marker == "manifest.json"
MaxAttempts == Len(Stagings)

\* process-upload runs at least once, and no file it builds is called like the manifest.
ASSUME BundlesAssumption ==
    /\ MaxAttempts \in Nat \ {0}
    /\ \A n \in 1..MaxAttempts : \A files \in Stagings[n] : Marker \notin DOMAIN files

VARIABLES
    attempt,        \* The run of process-upload at work, from 1
    at,             \* What it is at
    staged,         \* The directory it built
    try,            \* The try of publish-bundle
    sent,           \* The files this try uploaded
    stored,         \* The files under the prefix
    manifest,       \* <<>>, or the manifest: the run that put it and its files
    deletion,       \* Of the document: "none", "removing" (its row is locked) or "committed"
    listed,         \* The keys it has listed and not removed yet
    lost,           \* History: the keys deletions removed that were not put again
    download        \* A reader: the files its manifest names, those it has, how it goes

deletionVars == <<deletion, listed>>
bundleVars == <<attempt, at, staged, try, sent, stored, manifest, deletionVars, lost, download>>

NoDownload == [names |-> <<>>, got |-> <<>>, settled |-> FALSE, ended |-> "not begun"]

BundleInit ==
    /\ attempt = 1 /\ at = "staging" /\ staged = <<>> /\ try = 1 /\ sent = {}
    /\ stored = <<>> /\ manifest = <<>> /\ deletion = "none" /\ listed = {} /\ lost = {}
    /\ download = NoDownload

-----------------------------------------------------------------------------
(* process-upload.                                                            *)

\* The next of the files in the order both loops go by, and a file put among others.
Foremost(S) == {f \in S : \A g \in S : Place[f] <= Place[g]}
Put(files, f, content) == [g \in DOMAIN files \cup {f} |-> IF g = f THEN content ELSE files[g]]

ToUpload == DOMAIN staged \ sent

\* xlsx_ingest_flow or stage_bundle, in a directory of the run's own.
StageFiles ==
    /\ at = "staging"
    /\ staged' \in Stagings[attempt]
    /\ at' = "uploading" /\ try' = 1 /\ sent' = {}
    /\ UNCHANGED <<attempt, stored, manifest, deletionVars, lost, download>>

UploadFile ==
    /\ at = "uploading"
    /\ \E f \in Foremost(ToUpload) :
        /\ stored' = Put(stored, f, staged[f])
        /\ sent' = sent \cup {f}
        /\ lost' = lost \ {f}
    /\ UNCHANGED <<attempt, at, staged, try, manifest, deletionVars, download>>

\* Mutant: the manifest may go before the files.
ManifestAtOnce == at = "uploading"
AllUploaded == at = "uploading" /\ ToUpload = {}

\* Mutant: the manifest of an immutable bundle is put once.
FirstManifest == IF manifest = <<>> THEN [by |-> attempt, files |-> staged] ELSE manifest
NewManifest == [by |-> attempt, files |-> staged]

\* put_object of the manifest; its answer may be lost.
PutBundleManifest ==
    /\ AllUploaded
    /\ manifest' = NewManifest
    /\ lost' = lost \ {Marker}
    /\ at' \in {"published", "refused"}
    /\ UNCHANGED <<attempt, staged, try, sent, stored, deletionVars, download>>

\* A request of publish-bundle fails, and the task runs again from the first file;
\* after its last try the run fails.
PublishFails ==
    /\ at \in {"uploading", "refused"}
    /\ IF try < MaxTries THEN at' = "uploading" /\ try' = try + 1 /\ sent' = {}
       ELSE at' = "failed" /\ UNCHANGED <<try, sent>>
    /\ UNCHANGED <<attempt, staged, stored, manifest, deletionVars, lost, download>>

\* What comes before and after publish-bundle in the run may fail too (staging the files,
\* record_outcome, submitting the embedding), and the worker may die anywhere.
RunFails ==
    /\ at \in {"staging", "uploading", "refused", "published"}
    /\ at' = "failed"
    /\ UNCHANGED <<attempt, staged, try, sent, stored, manifest, deletionVars, lost, download>>

RunCompletes ==
    /\ at = "published"
    /\ at' = "completed"
    /\ UNCHANGED <<attempt, staged, try, sent, stored, manifest, deletionVars, lost, download>>

\* Mutant: a run that completed is taken up again, as if its end had been lost.
MayRunAgain == at \in {"failed", "completed"}
MayRetry == at = "failed"

\* Prefect runs process-upload again, with the same event and so the same prefix.
RetryProcessUpload ==
    /\ MayRetry /\ attempt < MaxAttempts
    /\ attempt' = attempt + 1 /\ at' = "staging" /\ staged' = <<>> /\ sent' = {}
    /\ UNCHANGED <<try, stored, manifest, deletionVars, lost, download>>

-----------------------------------------------------------------------------
(* A reader, and the deletion of the document.                                *)

ReadManifest ==
    /\ manifest # <<>> /\ download.ended = "not begun"
    /\ download' = [names |-> manifest.files, got |-> <<>>, settled |-> at = "completed",
                    ended |-> "no"]
    /\ UNCHANGED <<attempt, at, staged, try, sent, stored, manifest, deletionVars, lost>>

\* download_bundle goes through the artifacts in the order the manifest has them.
DownloadFile ==
    /\ download.ended = "no"
    /\ LET left == DOMAIN download.names \ DOMAIN download.got
       IN  \/ /\ left = {}
              /\ download' = [download EXCEPT !.ended = "with all"]
           \/ \E f \in Foremost(left) :
                IF f \in DOMAIN stored
                THEN download' = [download EXCEPT !.got = Put(@, f, stored[f])]
                ELSE download' = [download EXCEPT !.ended = "with an error"]
    /\ UNCHANGED <<attempt, at, staged, try, sent, stored, manifest, deletionVars, lost>>

\* delete_document locks the row, so one deletion at a time, and lists what is there.
ListObjects ==
    /\ deletion = "none"
    /\ deletion' = "removing"
    /\ listed' = DOMAIN stored \cup (IF manifest = <<>> THEN {} ELSE {Marker})
    /\ UNCHANGED <<attempt, at, staged, try, sent, stored, manifest, lost, download>>

\* A request of _delete_keys, or as much of it as succeeds.
RemoveObjects ==
    /\ deletion = "removing"
    /\ \E keys \in SUBSET listed \ {{}} :
        /\ listed' = listed \ keys
        /\ stored' = [f \in DOMAIN stored \ keys |-> stored[f]]
        /\ manifest' = IF Marker \in keys THEN <<>> ELSE manifest
        /\ lost' = lost \cup keys
    /\ UNCHANGED <<attempt, at, staged, try, sent, deletion, download>>

CommitDeletion ==
    /\ deletion = "removing" /\ listed = {}
    /\ deletion' = "committed"
    /\ UNCHANGED <<attempt, at, staged, try, sent, stored, manifest, listed, lost, download>>

\* A batch, the listing or the commit fails: the row is back and can be deleted again,
\* the objects removed so far are not.
RollBackDeletion ==
    /\ deletion = "removing"
    /\ deletion' = "none" /\ listed' = {}
    /\ UNCHANGED <<attempt, at, staged, try, sent, stored, manifest, lost, download>>

BundleNext ==
    \/ StageFiles \/ UploadFile \/ PutBundleManifest \/ PublishFails \/ RunFails
    \/ RunCompletes \/ RetryProcessUpload
    \/ ReadManifest \/ DownloadFile
    \/ ListObjects \/ RemoveObjects \/ CommitDeletion \/ RollBackDeletion

-----------------------------------------------------------------------------
(* Properties.                                                                *)

\* A manifest marks a complete bundle (publish_bundle: "then upload the manifest as the
\* completion marker"): every file it names is there, with the content it names unless a
\* later run of process-upload has begun to write over it. The retries of publish-bundle
\* never tear it; only a file that a deletion removed, committed or rolled back, and that
\* was not put again, may be missing.
ManifestNamesWhatIsThere ==
    manifest # <<>> =>
        \A f \in DOMAIN manifest.files :
            \/ f \in lost
            \/ /\ f \in DOMAIN stored
               /\ stored[f] # manifest.files[f] => manifest.by < attempt

\* When process-upload completes, the bundle is the one its last run built, whatever
\* earlier runs and tries left under the prefix, but for what deletions have removed;
\* files only earlier runs built may remain.
CompletedBundleIsWhole ==
    at = "completed" =>
        /\ Marker \in lost \/ manifest = [by |-> attempt, files |-> staged]
        /\ \A f \in DOMAIN staged :
            f \in lost \/ (f \in DOMAIN stored /\ stored[f] = staged[f])

\* A reader that begins after process-upload completed gets the files of one run, all
\* of them unless a deletion has removed one it asks for (download_bundle reads them one
\* by one, without comparing any hash).
DownloadIsOneBundle ==
    download.settled =>
        /\ \A f \in DOMAIN download.got : download.got[f] = download.names[f]
        /\ download.ended = "with an error" => DOMAIN download.names \cap lost # {}
=============================================================================
