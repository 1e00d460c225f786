------------------------------- MODULE Studio -------------------------------
(***************************************************************************)
(* What Connector Studio reads and what it proposes to write.              *)
(*                                                                         *)
(* The API process reads connector files and the scheduleJobs of the Helm  *)
(* values from its own working tree; GitHub's base branch holds the same   *)
(* files, and the two are equal only after the tree was refreshed.  A      *)
(* proposal is computed from the working tree.                             *)
(*                                                                         *)
(* A connector file is its mode and one source field for each pull mode;   *)
(* cron expressions and further fields behave like these.  A schedule job  *)
(* is named after its connector and points to its file; a connector may    *)
(* have no job.                                                            *)
(***************************************************************************)
EXTENDS Naturals

CONSTANTS
    Connectors,  \* connector ids
    Texts,       \* values of a source field
    Absent,      \* no file, or a field that is not there
    Requests     \* the requests users may send to /v1/studio/connectors/propose

VARIABLES
    base,  \* the base branch of GITHUB_REPO
    tree   \* the working tree of the API process

treeVars == <<base, tree>>

Modes   == {"sql_pull", "rest_pull", "rest_push", "file_pull"}
Fields  == Texts \cup {Absent}
ConnectorSpec == [mode : Modes, query : Fields, url : Fields, path : Fields]
Jobs    == [Connectors -> {"none", "enabled", "disabled"}]
Trees   == [files : [Connectors -> ConnectorSpec \cup {Absent}], jobs : Jobs]
Writing == {"create", "edit", "clone"}

ASSUME StudioAssumption ==
    /\ Absent \notin Texts
    /\ Absent \notin ConnectorSpec
    /\ Requests \subseteq
         [action : Writing \cup {"delete", "pause", "resume"}, connector : Connectors,
          name : Connectors, draft : ConnectorSpec, enabled : BOOLEAN]

StudioTypeOK == base \in Trees /\ tree \in Trees

\* ConnectorSpec accepts a source that has the field its mode needs.
Valid(spec) ==
    /\ spec.mode = "sql_pull"  => spec.query # Absent
    /\ spec.mode = "rest_pull" => spec.url # Absent
    /\ spec.mode = "file_pull" => spec.path # Absent

\* _deep_merge_dict: a field of the draft replaces the one of the file.
Merged(spec, draft) ==
    [mode  |-> draft.mode,
     query |-> IF draft.query = Absent THEN spec.query ELSE draft.query,
     url   |-> IF draft.url = Absent THEN spec.url ELSE draft.url,
     path  |-> IF draft.path = Absent THEN spec.path ELSE draft.path]

\* _prune_incompatible_source_fields drops the fields of the other modes.
Pruned(spec) ==
    [mode  |-> spec.mode,
     query |-> IF spec.mode = "sql_pull" THEN spec.query ELSE Absent,
     url   |-> IF spec.mode = "rest_pull" THEN spec.url ELSE Absent,
     path  |-> IF spec.mode = "file_pull" THEN spec.path ELSE Absent]

\* _target_connector_id: the connector whose file and job the request is about.
Target(q) == IF q.action \in Writing THEN q.name ELSE q.connector

\* The file of an edit or a clone starts from the existing one.
Drafted(q, t) ==
    IF q.action = "create" THEN q.draft ELSE Pruned(Merged(t.files[q.connector], q.draft))

FilesAfter(q, t) ==
    CASE q.action \in Writing -> [t.files EXCEPT ![q.name] = Drafted(q, t)]
      [] q.action = "delete"  -> [t.files EXCEPT ![q.connector] = Absent]
      [] q.action \in {"pause", "resume"} -> t.files

\* Mutant: the job of a deleted connector stays.
JobsAfterKeepDeleted(q, t) ==
    CASE q.action \in Writing -> [t.jobs EXCEPT ![q.name] =
                                      IF q.enabled THEN "enabled" ELSE "disabled"]
      [] q.action = "pause"   -> [t.jobs EXCEPT ![q.connector] = "disabled"]
      [] q.action = "resume"  -> [t.jobs EXCEPT ![q.connector] = "enabled"]
      [] OTHER                -> t.jobs

\* Mutant: pausing and resuming do not stop at the connector's own job.
JobsAfterAll(q, t) ==
    CASE q.action \in Writing -> [t.jobs EXCEPT ![q.name] =
                                      IF q.enabled THEN "enabled" ELSE "disabled"]
      [] q.action = "delete"  -> [t.jobs EXCEPT ![q.connector] = "none"]
      [] OTHER -> [c \in Connectors |->
                      CASE t.jobs[c] = "none" -> "none"
                        [] q.action = "pause" -> "disabled"
                        [] OTHER              -> "enabled"]

JobsAfter(q, t) ==
    CASE q.action \in Writing -> [t.jobs EXCEPT ![q.name] =
                                      IF q.enabled THEN "enabled" ELSE "disabled"]
      [] q.action = "delete"  -> [t.jobs EXCEPT ![q.connector] = "none"]
      [] q.action = "pause"   -> [t.jobs EXCEPT ![q.connector] = "disabled"]
      [] q.action = "resume"  -> [t.jobs EXCEPT ![q.connector] = "enabled"]

\* The paths of build_proposed_file_changes: the connector's file, always for a
\* delete, and the Helm values where the jobs change.
Changes(q, t) ==
    {path \in {"file", "values"} :
        IF path = "file" THEN q.action = "delete" \/ FilesAfter(q, t) # t.files
                         ELSE JobsAfter(q, t) # t.jobs}

\* The connector to edit or clone, and the job to pause or resume, is in the tree.
Applicable(q, t) ==
    /\ q.action \in {"edit", "clone"} => t.files[q.connector] # Absent
    /\ q.action \in {"pause", "resume"} => t.jobs[q.connector] # "none"

\* It raises ValueError otherwise, and when nothing changes.
Rejected(q, t) == Applicable(q, t) => Changes(q, t) = {}

\* The configuration repository's head reaches the API: a rollout, or a checkout
\* that is pulled under the running process.
Refresh ==
    /\ tree # base
    /\ tree' = base
    /\ UNCHANGED base
=============================================================================
