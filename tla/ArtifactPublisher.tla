------------------------- MODULE ArtifactPublisher -------------------------
(***************************************************************************)
(* publish_artifacts and publish_csv_artifacts: the objects runs write     *)
(* under one prefix of the bucket.                                         *)
(*                                                                         *)
(* A run uploads its files one by one under runs/<id>, its manifest after  *)
(* them, then the same under latest/ if the connector has an alias, and    *)
(* state/latest_success.json last.  Runs of one prefix may publish side by *)
(* side, and each may stop after any upload.  An object's content is told  *)
(* apart by the run that wrote it.  An object is replaced as a whole, as   *)
(* Google Cloud Storage does; a file of a local bucket may be cut short.   *)
(***************************************************************************)
EXTENDS Naturals, Sequences, FiniteSets

CONSTANTS
    Publishers,  \* run ids
    Nobody       \* no object

ASSUME PublisherAssumption == Nobody \notin Publishers

VARIABLES
    csv,       \* output.format is csv
    alias,     \* output.publish_latest_alias
    store,     \* the bucket: who wrote each object
    uploaded,  \* local: how many objects each run has uploaded
    phase,     \* where each run is: before, in or after publish_artifacts
    imported,  \* observation: whose file the import of each run read
    mixed      \* observation: two runs have written latest/ or state side by side, or
               \* one stopped between them

publishVars == <<csv, alias, store, uploaded, phase, imported, mixed>>

Parts == {"upserts", "discovery", "deletes", "rows", "manifest"}
RunObject(r, part) == <<"runs", r, part>>
LatestObject(part) == <<"latest", part>>
State              == <<"state">>
Objects == {RunObject(r, part) : r \in Publishers, part \in Parts}
           \cup {LatestObject(part) : part \in Parts} \cup {State}

PublisherTypeOK ==
    /\ {csv, alias, mixed} \subseteq BOOLEAN
    /\ store \in [Objects -> Publishers \cup {Nobody}]
    /\ uploaded \in [Publishers -> Nat]
    /\ phase \in [Publishers -> {"pulling", "publishing", "published", "ended"}]
    /\ imported \in [Publishers -> Publishers \cup {Nobody}]

PublisherInit(isCsv, hasAlias) ==
    /\ csv = isCsv /\ alias = hasAlias
    /\ store = [o \in Objects |-> Nobody]
    /\ uploaded = [r \in Publishers |-> 0]
    /\ phase = [r \in Publishers |-> "pulling"]
    /\ imported = [r \in Publishers |-> Nobody]
    /\ mixed = FALSE

-----------------------------------------------------------------------------
\* Mutant: the manifest before the files it lists.
PartsInOrderLate == IF csv THEN <<"manifest", "rows">>
                           ELSE <<"manifest", "upserts", "discovery", "deletes">>

\* Mutant: the alias of a run has no file of its deletes.
AliasPartsShort == IF csv THEN <<"rows", "manifest">> ELSE <<"upserts", "discovery", "manifest">>

\* The files of a run in the order they are uploaded.
PartsInOrder == IF csv THEN <<"rows", "manifest">>
                       ELSE <<"upserts", "discovery", "deletes", "manifest">>

AliasParts == PartsInOrder

\* Every upload of a run, in order.
Uploads(r) ==
    [i \in 1..Len(PartsInOrder) |-> RunObject(r, PartsInOrder[i])]
    \o (IF alias THEN [i \in 1..Len(AliasParts) |-> LatestObject(AliasParts[i])] ELSE <<>>)
    \o <<State>>

\* Of them, those to objects that runs share.
Shared(r) == {i \in 1..Len(Uploads(r)) : Uploads(r)[i][1] # "runs"}

\* A run that has written some of these.
Half(r) == /\ phase[r] = "publishing"
           /\ uploaded[r] \in Shared(r) \ {Len(Uploads(r))}

Begin(r) ==
    /\ phase[r] = "pulling"
    /\ phase' = [phase EXCEPT ![r] = "publishing"]
    /\ UNCHANGED <<csv, alias, store, uploaded, imported, mixed>>

\* upload_text.
Upload(r) ==
    LET i == uploaded[r] + 1
    IN  /\ phase[r] = "publishing"
        /\ i <= Len(Uploads(r))
        /\ store' = [store EXCEPT ![Uploads(r)[i]] = r]
        /\ uploaded' = [uploaded EXCEPT ![r] = i]
        /\ mixed' = (mixed \/ (i \in Shared(r) /\ \E s \in Publishers \ {r} : Half(s)))
        /\ UNCHANGED <<csv, alias, phase, imported>>

\* publish_artifacts returns the manifest of the run.
FinishPublishing(r) ==
    /\ phase[r] = "publishing"
    /\ uploaded[r] = Len(Uploads(r))
    /\ phase' = [phase EXCEPT ![r] = "published"]
    /\ UNCHANGED <<csv, alias, store, uploaded, imported, mixed>>

\* Mutant: the manifest returned is the one of the alias.
ManifestReturnedLatest(r) == IF alias THEN LatestObject("discovery") ELSE RunObject(r, "discovery")

\* The import_upserts_path of the manifest returned.
ManifestReturned(r) == RunObject(r, "discovery")

\* import_documents reads it from the bucket; a CSV is not imported.
ImportFile(r) ==
    /\ phase[r] = "published"
    /\ imported' = IF csv THEN imported
                   ELSE [imported EXCEPT ![r] = store[ManifestReturned(r)]]
    /\ phase' = [phase EXCEPT ![r] = "ended"]
    /\ UNCHANGED <<csv, alias, store, uploaded, mixed>>

\* An upload fails, or the process dies, or it fails later; nothing is taken back.
StopRun(r) ==
    /\ phase[r] # "ended"
    /\ phase' = [phase EXCEPT ![r] = "ended"]
    /\ mixed' = (mixed \/ Half(r))
    /\ UNCHANGED <<csv, alias, store, uploaded, imported>>

PublishStep(r) == Upload(r) \/ FinishPublishing(r) \/ ImportFile(r)

-----------------------------------------------------------------------------
(* Properties.                                                             *)

Listing == {PartsInOrder[i] : i \in 1..Len(PartsInOrder)}
Whole(r) == \A part \in Listing : store[RunObject(r, part)] = r

\* Whatever stops a run, and whichever runs publish beside it, a manifest in the
\* bucket lists files that are there and of its own run: the manifest under runs/,
\* and the run that latest_success.json or the alias name.
ManifestsAreComplete ==
    /\ \A r \in Publishers : store[RunObject(r, "manifest")] # Nobody => Whole(r)
    /\ store[State] # Nobody => Whole(store[State])
    /\ store[LatestObject("manifest")] # Nobody => Whole(store[LatestObject("manifest")])

\* A run imports its own documents, also when another run has replaced the alias
\* since.
ImportsItsOwnFile == \A r \in Publishers : imported[r] \in {Nobody, r}

\* Unless runs published side by side or one stopped half-way, the alias is the
\* files of one run, the one latest_success.json names: after each publication, and
\* before the next one has begun to write there.
AliasIsOneRun ==
    alias /\ ~mixed /\ (\A r \in Publishers : ~Half(r)) =>
        \A part \in Listing : store[LatestObject(part)] = store[State]
=============================================================================
