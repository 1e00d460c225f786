------------------------------ MODULE FilePull ------------------------------
(***************************************************************************)
(* extract_file_rows: the matching files of a directory, one row for each  *)
(* record of each file, while others write to the directory.               *)
(*                                                                         *)
(* The files are listed once and read in the order of their names; each is *)
(* asked for its modification time before its content is read, and one     *)
(* that is gone by then fails the run.  The checkpoint holds the latest    *)
(* modification time but selects nothing: every run reads every file.      *)
(* Every write gives its file a new modification time.                     *)
(***************************************************************************)
EXTENDS Naturals, Sequences

CONSTANTS
    Files,    \* 1..n in the order of their names
    Docs,     \* records, by the id their documents get
    Gone,     \* no file
    MaxSaves  \* bound on the writes to the directory

ASSUME FileAssumption == Files \subseteq Nat /\ MaxSaves \in Nat

VARIABLES
    disk,      \* the directory: content and modification time of each file
    saves,     \* clock of modification times
    stage,     \* where extract_file_rows is
    unread,    \* local: listed files that are to be read
    step,      \* local: position in ReadingOrder, for the next file
    mtime,     \* local: modification time of the next file
    content,   \* local: records of the next file
    records,   \* local: rows, each with its file and the file's modification time
    latest,    \* local: latest modification time so far
    checkpoint,\* the file checkpoint: latest modification time of the last run
    still      \* observation: records in their file at all times since the listing

readVars == <<unread, step, mtime, content, records, latest, checkpoint>>
fileVars == <<disk, saves, stage, readVars, still>>

FileTypeOK ==
    /\ disk \in [Files -> {Gone} \cup [docs : SUBSET Docs, mtime : 0..MaxSaves]]
    /\ saves \in 0..MaxSaves
    /\ stage \in {"start", "reading", "rows", "gone", "duplicates"}
    /\ unread \in SUBSET Files
    /\ step \in 1..3
    /\ {mtime, latest, checkpoint} \subseteq 0..MaxSaves
    /\ content \in SUBSET Docs
    /\ records \in SUBSET [doc : Docs, file : Files, mtime : 0..MaxSaves]
    /\ still \in SUBSET (Docs \X Files)

Present(f) == disk[f] # Gone

FileInit ==
    /\ disk \in [Files -> {Gone} \cup [docs : SUBSET Docs, mtime : {0}]]
    /\ saves = 0 /\ stage = "start"
    /\ unread = {} /\ step = 1 /\ mtime = 0 /\ content = {} /\ records = {}
    /\ latest = 0 /\ checkpoint = 0
    /\ still = {}

-----------------------------------------------------------------------------
Kept(d) == {p \in still : d[p[2]] # Gone /\ p[1] \in d[p[2]].docs}
Write(d) == disk' = d /\ saves' = saves + 1 /\ still' = Kept(d)

SaveFile(f, docs) ==
    /\ saves < MaxSaves
    /\ Write([disk EXCEPT ![f] = [docs |-> docs, mtime |-> saves + 1]])
    /\ UNCHANGED <<stage, readVars>>

RemoveFile(f) ==
    /\ saves < MaxSaves /\ Present(f)
    /\ Write([disk EXCEPT ![f] = Gone])
    /\ UNCHANGED <<stage, readVars>>

-----------------------------------------------------------------------------
\* Mutant: files that are not newer than the checkpoint are left out.
ListedNewer == {f \in Files : Present(f) /\ disk[f].mtime > checkpoint}

Listed == {f \in Files : Present(f)}

ListFiles ==
    /\ stage = "start"
    /\ stage' = "reading" /\ unread' = Listed
    /\ still' = {p \in Docs \X Files : Present(p[2]) /\ p[1] \in disk[p[2]].docs}
    /\ UNCHANGED <<disk, saves, step, mtime, content, records, latest, checkpoint>>

NextFile == CHOOSE f \in unread : \A g \in unread : f <= g

\* Mutant: the modification time is asked for when the content has been read.
ReadingOrderLate == <<"read", "stat">>

ReadingOrder == <<"stat", "read">>

Doing(what) == stage = "reading" /\ unread # {} /\ step <= 2 /\ ReadingOrder[step] = what

StatFile ==
    /\ Doing("stat") /\ Present(NextFile)
    /\ mtime' = disk[NextFile].mtime /\ step' = step + 1
    /\ UNCHANGED <<disk, saves, stage, unread, content, records, latest, checkpoint, still>>

ReadFile ==
    /\ Doing("read") /\ Present(NextFile)
    /\ content' = disk[NextFile].docs /\ step' = step + 1
    /\ UNCHANGED <<disk, saves, stage, unread, mtime, records, latest, checkpoint, still>>

\* stat or read_text raises.
FileGone ==
    /\ stage = "reading" /\ unread # {} /\ step <= 2 /\ ~Present(NextFile)
    /\ stage' = "gone"
    /\ UNCHANGED <<disk, saves, readVars, still>>

\* The rows of the file, with its fields.
AddRows ==
    /\ stage = "reading" /\ step = 3
    /\ records' = records \cup [doc : content, file : {NextFile}, mtime : {mtime}]
    /\ latest' = IF mtime > latest THEN mtime ELSE latest
    /\ unread' = unread \ {NextFile}
    /\ step' = 1 /\ mtime' = 0 /\ content' = {}
    /\ UNCHANGED <<disk, saves, stage, checkpoint, still>>

\* _ensure_unique_doc_ids: a record two files have had fails the run.
FinishFiles ==
    /\ stage = "reading" /\ unread = {}
    /\ stage' = IF \E r, s \in records : r # s /\ r.doc = s.doc THEN "duplicates" ELSE "rows"
    /\ checkpoint' = IF stage' = "rows" THEN latest ELSE checkpoint
    /\ UNCHANGED <<disk, saves, unread, step, mtime, content, records, latest, still>>

DirectoryStep ==
    \/ \E f \in Files : \/ \E docs \in SUBSET Docs : SaveFile(f, docs)
                        \/ RemoveFile(f)

FileStep == ListFiles \/ StatFile \/ ReadFile \/ FileGone \/ AddRows \/ FinishFiles

FileNext == DirectoryStep \/ FileStep

-----------------------------------------------------------------------------
(* Properties.                                                             *)

\* Rows of a finished extraction miss no record that was in its file all the time,
\* whatever is written or removed around it: auto_delete_missing would
\* delete its document.  (A record that moves to a file already read may be missed.)
RecordsAtRestAreExtracted ==
    stage = "rows" =>
        \A p \in still : \E r \in records : r.doc = p[1] /\ r.file = p[2]

\* A file that still has the modification time of an extracted row holds the row: a
\* file changed while it was read looks newer than the rows taken from it, never the
\* other way round.
ChangesLookNewer ==
    \A r \in records : Present(r.file) /\ disk[r.file].mtime = r.mtime
                       => r.doc \in disk[r.file].docs
=============================================================================
