---------------------------- MODULE PullToStore ----------------------------
(***************************************************************************)
(* A pull run from its source to the bucket: the extraction of its mode,   *)
(* then the publication of what it extracted, beside other runs that       *)
(* publish under the same prefix.  PullPipeline says what run_connector    *)
(* does with the database between the two and after.                       *)
(***************************************************************************)
EXTENDS RestPull, FilePull, ArtifactPublisher

CONSTANT Puller  \* the run whose extraction is followed

ASSUME PullerAssumption == Puller \in Publishers

VARIABLE mode  \* spec.mode of its connector

vars == <<secretVars, restVars, fileVars, publishVars, mode>>

PullTypeOK ==
    /\ SecretTypeOK /\ RestTypeOK /\ FileTypeOK /\ PublisherTypeOK
    /\ mode \in {"sql_pull", "rest_pull", "file_pull"}

Init ==
    /\ mode \in {"sql_pull", "rest_pull", "file_pull"}
    /\ {row, variable} \subseteq Values \cup {NoValue}
    /\ runKey \in {"same", "other", "unset"}
    /\ accepted \in Values
    /\ \E auth \in BOOLEAN : (auth => mode = "rest_pull") /\ RestInit(auth)
    /\ FileInit
    /\ \E isCsv, hasAlias \in BOOLEAN :
         /\ isCsv => mode = "sql_pull"
         /\ PublisherInit(isCsv, hasAlias)

\* Mutant: an exception ends the loop with the rows so far.
PulledPartly ==
    IF mode = "file_pull" THEN stage # "reading" ELSE at \in Reasons \cup {"rows"}

\* PullResult is there, or an exception.
Pulled ==
    IF mode = "file_pull" THEN stage = "rows" ELSE at = "rows"

PullRaised ==
    IF mode = "file_pull" THEN stage \in {"gone", "duplicates"} ELSE at \in Reasons

-----------------------------------------------------------------------------
\* extract_sql_rows: one query, with the secret as its DSN.
ExtractSql ==
    /\ at = "start"
    /\ \E v \in Resolvable :
         at' \in CASE v = NoValue  -> {"no_secret"}
                   [] v = accepted -> {"rows", "page_fault"}
                   [] OTHER        -> {"unauthorized"}
    /\ UNCHANGED <<secretVars, answerVars, now, oauth, callVars, pageCalls, tokenCalls, steady>>

Extract ==
    /\ phase[Puller] = "pulling"
    /\ \/ mode = "sql_pull" /\ ExtractSql /\ UNCHANGED fileVars
       \/ mode = "rest_pull" /\ RestStep /\ UNCHANGED fileVars
       \/ mode = "file_pull" /\ FileStep /\ UNCHANGED <<secretVars, restVars>>

\* What goes on around it.
Meanwhile ==
    /\ phase[Puller] = "pulling" /\ ~Pulled /\ ~PullRaised
    /\ \/ mode # "file_pull" /\ (Tick \/ SecretStep \/ RevokeToken) /\ UNCHANGED fileVars
       \/ mode = "file_pull" /\ DirectoryStep /\ UNCHANGED <<secretVars, restVars>>

\* The rows are published when the extraction has returned them all.
CanPublish(r) == r = Puller => Pulled

Publication(r) ==
    \/ CanPublish(r) /\ Begin(r)
    \/ PublishStep(r)
    \/ StopRun(r)

\* An exception of the extraction ends the run.
EndFailedPull == PullRaised /\ StopRun(Puller)

Next ==
    \/ Extract /\ UNCHANGED <<publishVars, mode>>
    \/ Meanwhile /\ UNCHANGED <<publishVars, mode>>
    \/ \E r \in Publishers : Publication(r) /\ UNCHANGED <<secretVars, restVars, fileVars, mode>>

Spec == Init /\ [][Next]_vars

\* The steps a live run takes by itself: each call it makes returns or times out.
RunMoves ==
    \/ Extract /\ UNCHANGED <<publishVars, mode>>
    \/ /\ (CanPublish(Puller) /\ Begin(Puller)) \/ PublishStep(Puller) \/ EndFailedPull
       /\ UNCHANGED <<secretVars, restVars, fileVars, mode>>

FairSpec == Spec /\ WF_vars(RunMoves)

-----------------------------------------------------------------------------
(* Properties.                                                             *)

\* The followed REST run has something in the bucket.
Published == mode = "rest_pull" /\ \E part \in Parts : store[RunObject(Puller, part)] # Nobody

\* What it has there are the rows of the pages the endpoint answered, in order and
\* once each, however often requests were retried, tokens renewed and pages answered
\* 401 on the way.  A page is missing only if a 200 lacked its items, or lacked the
\* cursor that leads to it; no error and no give-up of a retry leaves one out.
PublishedPagesAreAnswered ==
    Published =>
        /\ \A i, j \in 1..Len(rows) : i < j => rows[i] < rows[j]
        /\ {rows[i] : i \in 1..Len(rows)} = (1..page - 1) \ bare
        /\ page = Pages + 1 \/ cut

\* The followed run ends, whatever the token and page endpoints answer, and whatever
\* is written to the directory: no retry, refresh or re-read goes on for ever.
PullEnds == <>(phase[Puller] = "ended")
=============================================================================
