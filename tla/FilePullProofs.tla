--------------------------- MODULE FilePullProofs ---------------------------
(***************************************************************************)
(* Lemmas about the extraction of a directory, for any files, records and  *)
(* writes: nothing at rest is missed, and no row looks newer than it is.   *)
(***************************************************************************)
EXTENDS FilePull, WellFoundedInduction, TLAPS

\* Modification times come from one clock.
Times ==
    /\ saves \in Nat /\ mtime \in Nat
    /\ \A f \in Files : Present(f) => disk[f].mtime \in Nat /\ disk[f].mtime <= saves
    /\ mtime <= saves
    /\ \A r \in records : r.mtime \in Nat /\ r.mtime <= saves

FileShape ==
    /\ disk \in [Files -> {Gone} \cup [docs : SUBSET Docs, mtime : Nat]]
    /\ unread \in SUBSET Files
    /\ \A r \in records : r.file \in Files
    /\ step \in {1, 2, 3}
    /\ step = 3 => unread # {}
    /\ stage = "start" => step = 1

\* A record at rest is in its file.
AtRest ==
    \A p \in still : p[2] \in Files /\ Present(p[2]) /\ p[1] \in disk[p[2]].docs

Extracted(p) == \E r \in records : r.doc = p[1] /\ r.file = p[2]

\* It is extracted, or its file is to be read, or it is in what was read of it.
NoneForgotten ==
    /\ stage \in {"reading", "rows"} =>
          \A p \in still : Extracted(p) \/ (stage = "reading" /\ p[2] \in unread)
    /\ step = 3 => \A p \in still : p[2] = NextFile => p[1] \in content

\* What was read of the next file is the file of that time, or an older one.
ReadLooksOld ==
    step = 3 => (Present(NextFile) /\ disk[NextFile].mtime = mtime
                    => content \subseteq disk[NextFile].docs)

FileInv == FileShape /\ Times /\ AtRest /\ NoneForgotten /\ ReadLooksOld /\ ChangesLookNewer

LEMMA NextFileUnread ==
  ASSUME unread \in SUBSET Files, unread # {}
  PROVE  NextFile \in unread
<1>1. unread \subseteq Nat
    BY FileAssumption
<1>2. PICK f \in unread : \A g \in unread : ~(<<g, f>> \in OpToRel(<, Nat))
    BY <1>1, NatLessThanWellFounded, WFMin
<1>3. ASSUME NEW g \in unread PROVE f <= g
  <2>1. f \in Nat /\ g \in Nat
      BY <1>1
  <2>2. ~(g < f)
      BY <1>2, <2>1 DEF OpToRel
  <2>3. QED
      BY <2>1, <2>2
<1>4. QED
    BY <1>3 DEF NextFile

LEMMA FileInitInv == FileInit => FileInv
  BY DEF FileInit, FileInv, FileShape, Times, AtRest, NoneForgotten, ReadLooksOld,
     ChangesLookNewer, Present

\* A write: what is at rest stays in its file, and a changed file is newer than all.
LEMMA WriteStep ==
  ASSUME FileInv, DirectoryStep
  PROVE  FileInv'
<1>1. PICK f \in Files, new \in {Gone} \cup [docs : SUBSET Docs, mtime : {saves + 1}] :
         /\ disk' = [disk EXCEPT ![f] = new] /\ saves' = saves + 1
         /\ still' = Kept(disk')
         /\ UNCHANGED <<stage, unread, step, mtime, content, records, latest, checkpoint>>
    BY DEF DirectoryStep, SaveFile, RemoveFile, Write, readVars
<1>2. disk \in [Files -> {Gone} \cup [docs : SUBSET Docs, mtime : Nat]] /\ saves \in Nat
    BY DEF FileInv, FileShape, Times
<1>3. new = Gone \/ (new.docs \in SUBSET Docs /\ new.mtime = saves + 1)
    BY <1>1
<1>4. \A g \in Files : disk'[g] = IF g = f THEN new ELSE disk[g]
    BY <1>1, <1>2
<1>5. still' \subseteq still /\ AtRest'
    BY <1>1 DEF Kept, AtRest, FileInv, Present
<1>6. FileShape'
    BY <1>1, <1>2, <1>3 DEF FileInv, FileShape
<1>7. Times'
    BY <1>1, <1>2, <1>3, <1>4 DEF FileInv, Times, Present
<1>8. NoneForgotten'
    BY <1>1, <1>5 DEF FileInv, NoneForgotten, Extracted, NextFile
<1>9. ReadLooksOld'
  <2>1. NextFile' = NextFile
      BY <1>1 DEF NextFile
  <2>2. step = 3 => NextFile \in Files
      BY NextFileUnread DEF FileInv, FileShape
  <2>3. QED
      BY <1>1, <1>3, <1>4, <2>1, <2>2 DEF FileInv, ReadLooksOld, Times, Present
<1>10. ChangesLookNewer'
    BY <1>1, <1>3, <1>4 DEF FileInv, FileShape, ChangesLookNewer, Times, Present
<1>11. QED
    BY <1>5, <1>6, <1>7, <1>8, <1>9, <1>10 DEF FileInv

LEMMA ExtractionStep ==
  ASSUME FileInv, FileStep
  PROVE  FileInv'
<1> USE DEF FileInv
<1>1. CASE ListFiles
  <2>1. /\ stage = "start" /\ stage' = "reading" /\ step = 1
        /\ unread' = Listed
        /\ still' = {p \in Docs \X Files : Present(p[2]) /\ p[1] \in disk[p[2]].docs}
        /\ UNCHANGED <<disk, saves, step, mtime, content, records>>
      BY <1>1 DEF ListFiles, FileShape
  <2>2. FileShape' /\ Times' /\ ReadLooksOld' /\ ChangesLookNewer'
      BY <2>1 DEF FileShape, Times, ReadLooksOld, ChangesLookNewer, Present, Listed
  <2>3. AtRest'
      BY <2>1 DEF AtRest, Present
  <2>4. NoneForgotten'
      BY <2>1 DEF NoneForgotten, Listed
  <2>5. QED
      BY <2>2, <2>3, <2>4
<1>2. CASE StatFile
  <2>1. NextFile \in Files /\ step = 1 /\ Present(NextFile)
      BY <1>2, NextFileUnread DEF StatFile, Doing, ReadingOrder, FileShape, Present
  <2>2. /\ mtime' = disk[NextFile].mtime /\ step' = 2 /\ unread # {} /\ stage = "reading"
        /\ UNCHANGED <<disk, saves, stage, unread, content, records, still>>
      BY <1>2, <2>1 DEF StatFile, Doing
  <2>3. FileShape' /\ Times'
    <3>1. disk[NextFile].mtime \in Nat /\ disk[NextFile].mtime <= saves
        BY <2>1 DEF Times
    <3>2. QED
        BY <2>2, <3>1 DEF FileShape, Times, Present
  <2>4. AtRest' /\ ChangesLookNewer' /\ NoneForgotten' /\ ReadLooksOld'
      BY <2>2 DEF AtRest, ChangesLookNewer, NoneForgotten, Extracted, ReadLooksOld, Present
  <2>5. QED
      BY <2>3, <2>4
<1>3. CASE ReadFile
  <2>1. NextFile \in Files /\ step = 2 /\ Present(NextFile) /\ stage = "reading"
      BY <1>3, NextFileUnread DEF ReadFile, Doing, ReadingOrder, FileShape, Present
  <2>2. /\ content' = disk[NextFile].docs /\ step' = 3 /\ unread # {}
        /\ UNCHANGED <<disk, saves, stage, unread, mtime, records, still>>
        /\ NextFile' = NextFile
      BY <1>3, <2>1 DEF ReadFile, Doing, NextFile
  <2>3. FileShape' /\ Times' /\ AtRest' /\ ChangesLookNewer'
      BY <2>1, <2>2 DEF FileShape, Times, AtRest, ChangesLookNewer, Present
  <2>4. NoneForgotten' /\ ReadLooksOld'
      BY <2>1, <2>2 DEF NoneForgotten, Extracted, ReadLooksOld, AtRest, Present
  <2>5. QED
      BY <2>3, <2>4
<1>4. CASE FileGone
    BY <1>4 DEF FileGone, readVars, FileShape, Times, AtRest, NoneForgotten, Extracted,
       ReadLooksOld, ChangesLookNewer, Present, NextFile
<1>5. CASE AddRows
  <2>1. NextFile \in unread /\ NextFile \in Files /\ step = 3 /\ stage = "reading"
      BY <1>5, NextFileUnread DEF AddRows, FileShape
  <2>2. /\ records' = records \cup [doc : content, file : {NextFile}, mtime : {mtime}]
        /\ unread' = unread \ {NextFile} /\ step' = 1 /\ mtime' = 0
        /\ UNCHANGED <<disk, saves, stage, still>>
      BY <1>5 DEF AddRows
  <2>3. \A r \in records' :
          \/ r \in records
          \/ r.doc \in content /\ r.file = NextFile /\ r.mtime = mtime
      BY <2>2
  <2>4. FileShape' /\ Times' /\ AtRest' /\ ReadLooksOld'
      BY <2>1, <2>2, <2>3 DEF FileShape, Times, AtRest, ReadLooksOld, Present
  <2>5. ChangesLookNewer'
      BY <2>1, <2>2, <2>3 DEF ChangesLookNewer, ReadLooksOld, Present
  <2>6. NoneForgotten'
    <3>1. ASSUME NEW p \in still, p[2] = NextFile PROVE Extracted(p)'
      <4>1. [doc |-> p[1], file |-> NextFile, mtime |-> mtime] \in records'
          BY <2>1, <2>2, <3>1 DEF NoneForgotten
      <4>2. QED
          BY <3>1, <4>1 DEF Extracted
    <3>2. \A p \in still : Extracted(p) => Extracted(p)'
        BY <2>2 DEF Extracted
    <3>3. QED
        BY <2>1, <2>2, <3>1, <3>2 DEF NoneForgotten
  <2>7. QED
      BY <2>4, <2>5, <2>6
<1>6. CASE FinishFiles
    BY <1>6 DEF FinishFiles, FileShape, Times, AtRest, NoneForgotten, Extracted,
       ReadLooksOld, ChangesLookNewer, Present, NextFile
<1>7. QED
    BY <1>1, <1>2, <1>3, <1>4, <1>5, <1>6 DEF FileStep

LEMMA FileUnchanged == FileInv /\ UNCHANGED fileVars => FileInv'
  BY DEF fileVars, readVars, FileInv, FileShape, Times, AtRest, NoneForgotten, Extracted,
     ReadLooksOld, ChangesLookNewer, Present, NextFile

LEMMA NoneIsMissed == FileInv => RecordsAtRestAreExtracted
  BY DEF FileInv, NoneForgotten, Extracted, RecordsAtRestAreExtracted

\* Types: the next file is a file.
LEMMA FileTypeStep ==
  ASSUME FileInv, FileTypeOK, FileStep \/ DirectoryStep
  PROVE  FileTypeOK'
<1>a. MaxSaves \in Nat /\ (unread # {} => NextFile \in Files)
    BY FileAssumption, NextFileUnread DEF FileTypeOK
<1>1. CASE DirectoryStep
  <2>1. PICK f \in Files, new \in {Gone} \cup [docs : SUBSET Docs, mtime : {saves + 1}] :
           /\ disk' = [disk EXCEPT ![f] = new] /\ saves' = saves + 1 /\ saves < MaxSaves
           /\ still' = Kept(disk')
           /\ UNCHANGED <<stage, unread, step, mtime, content, records, latest, checkpoint>>
      BY <1>1 DEF DirectoryStep, SaveFile, RemoveFile, Write, readVars
  <2>2. saves' \in 0..MaxSaves
      BY <1>a, <2>1 DEF FileTypeOK
  <2>3. new \in {Gone} \cup [docs : SUBSET Docs, mtime : 0..MaxSaves]
      BY <1>a, <2>1, <2>2
  <2>4. disk' \in [Files -> {Gone} \cup [docs : SUBSET Docs, mtime : 0..MaxSaves]]
      BY <2>1, <2>3 DEF FileTypeOK
  <2>5. still' \in SUBSET (Docs \X Files)
      BY <2>1 DEF FileTypeOK, Kept
  <2>6. QED
      BY <2>1, <2>2, <2>4, <2>5 DEF FileTypeOK
<1>2. CASE ListFiles
    BY <1>2 DEF ListFiles, Listed, FileTypeOK
<1>3. CASE StatFile \/ ReadFile
  <2>1. unread # {} /\ step <= 2 /\ Present(NextFile)
      BY <1>3 DEF StatFile, ReadFile, Doing
  <2>2. disk[NextFile] \in [docs : SUBSET Docs, mtime : 0..MaxSaves]
      BY <1>a, <2>1 DEF FileTypeOK, Present
  <2>3. step' \in 1..3 /\ mtime' \in 0..MaxSaves /\ content' \in SUBSET Docs
      BY <1>3, <2>1, <2>2 DEF StatFile, ReadFile, FileTypeOK
  <2>4. UNCHANGED <<disk, saves, stage, unread, records, latest, checkpoint, still>>
      BY <1>3 DEF StatFile, ReadFile
  <2>5. QED
      BY <2>3, <2>4 DEF FileTypeOK
<1>4. CASE AddRows
  <2>1. NextFile \in Files
      BY <1>a, <1>4 DEF AddRows, FileInv, FileShape
  <2>2. [doc : content, file : {NextFile}, mtime : {mtime}]
           \subseteq [doc : Docs, file : Files, mtime : 0..MaxSaves]
      BY <2>1 DEF FileTypeOK
  <2>3. records' \in SUBSET [doc : Docs, file : Files, mtime : 0..MaxSaves]
      BY <1>4, <2>2 DEF AddRows, FileTypeOK
  <2>4. latest' \in 0..MaxSaves /\ unread' \in SUBSET Files
      BY <1>4 DEF AddRows, FileTypeOK
  <2>5. QED
      BY <1>4, <1>a, <2>3, <2>4 DEF AddRows, FileTypeOK
<1>5. CASE FileGone \/ FinishFiles
    BY <1>5 DEF FileGone, FinishFiles, FileTypeOK, readVars
<1>6. QED
    BY <1>1, <1>2, <1>3, <1>4, <1>5 DEF FileStep
=============================================================================
