--------------------------- MODULE MCPullPipeline ---------------------------
(* Instances of PullPipeline for TLC. *)
EXTENDS PullPipeline, TLC

CONSTANT FirstRun  \* a run of Runs that has already succeeded, in Warm

\* Documents and runs are interchangeable, and so are contents: nothing orders
\* them.  Used where no liveness property is checked.
Interchangeable == Permutations(Docs) \cup Permutations(Versions)
                   \cup Permutations(Runs \ {FirstRun})

\* Which content, which run, and which order of the documents, makes no difference.
Second == CHOOSE r \in Runs \ {FirstRun} : TRUE
First  == CHOOSE v \in Versions : TRUE
Number == CHOOSE f \in [Docs -> 1..Cardinality(Docs)] : \A d, e \in Docs : f[d] = f[e] => d = e

\* FirstRun, alone, has synchronised a source that held every document; since
\* then the source has become src.
Warm(src, now) ==
    /\ source = src
    /\ clock = now
    /\ recordState = [d \in Docs |-> [sum |-> First, row |-> FirstRun, seen |-> FirstRun]]
    /\ checkpoint = [row |-> FirstRun, mark |-> Cardinality(Docs)]
    /\ committed = {FirstRun}
    /\ checksumBy = [d \in Docs |-> FirstRun]
    /\ index = [d \in Docs |-> [ver |-> First, by |-> FirstRun, late |-> FALSE]]
    /\ operations = [r \in Runs |-> [state |-> IF r = FirstRun THEN "done" ELSE "none",
                                     docs |-> NoContent]]
    /\ orphans = [r \in Runs |-> NoContent]
    /\ deletes = [r \in Runs |-> {}]
    /\ unsent = [r \in Runs |-> {}]
    /\ rowSeen = [r \in Runs |-> NoRows]
    /\ ckptSeen = [r \in Runs |-> NoCheckpoint]
    /\ purged = [r \in Runs |-> {}]

\* No run but FirstRun has begun.
Idle ==
    /\ runState = [r \in Runs |-> IF r = FirstRun THEN "SUCCESS" ELSE "NONE"]
    /\ pc = [r \in Runs |-> IF r = FirstRun THEN "succeeded" ELSE "new"]
    /\ watermark = [r \in Runs |-> 0]
    /\ pulled = [r \in Runs |-> NoContent]
    /\ upserts = [r \in Runs |-> {}]

\* Nothing has changed since.
WarmInit ==
    /\ Warm([d \in Docs |-> [ver |-> First, stamp |-> Number[d]]], Cardinality(Docs))
    /\ Idle
WarmSpec == WarmInit /\ [][Next]_vars

\* Document number i was removed, and the others changed to v.
Without(i, v) == [d \in Docs |-> IF Number[d] = i THEN Absent ELSE v]

\* The source as it is after that, the changes stamped from now on.
Changes(i, v, now) == [d \in Docs |-> [ver |-> Without(i, v)[d], stamp |-> now + Number[d]]]

\* Since FirstRun the first document was removed and the other changed, and one run
\* has extracted that; then the first was inserted again and the second removed, and
\* another run has extracted that.
CrossingInit ==
    LET n == Cardinality(Docs)
        r == Second
    IN  \E v \in Versions \ {First} : \E s \in Runs \ {FirstRun, r} :
            /\ Warm(Changes(2, v, 2 * n), 3 * n)
            /\ runState = [t \in Runs |-> CASE t = FirstRun -> "SUCCESS"
                                            [] t \in {r, s} -> "RUNNING"
                                            [] OTHER -> "NONE"]
            /\ pc = [t \in Runs |-> CASE t = FirstRun -> "succeeded"
                                      [] t \in {r, s} -> "diff"
                                      [] OTHER -> "new"]
            /\ watermark = [t \in Runs |-> CASE t = r -> 2 * n [] t = s -> 2 * n + 1
                                             [] OTHER -> 0]
            /\ pulled = [t \in Runs |-> CASE t = r -> Without(1, v) [] t = s -> Without(2, v)
                                          [] OTHER -> NoContent]
            /\ upserts = [t \in Runs |-> {}]

\* A run that began beside FirstRun has extracted the same and compared it with the
\* rows there were before FirstRun's, none.  Since then every document changed twice,
\* to v in the end, and another run has extracted that.
LaggingInit ==
    LET n == Cardinality(Docs)
        r == Second
    IN  \E v \in Versions \ {First} : \E s \in Runs \ {FirstRun, r} :
            /\ Warm(Changes(0, v, 2 * n), 3 * n)
            /\ runState = [t \in Runs |-> CASE t = FirstRun -> "SUCCESS"
                                            [] t \in {r, s} -> "RUNNING"
                                            [] OTHER -> "NONE"]
            /\ pc = [t \in Runs |-> CASE t = FirstRun -> "succeeded" [] t = r -> "import"
                                      [] t = s -> "diff"             [] OTHER -> "new"]
            /\ watermark = [t \in Runs |-> CASE t = r -> n [] t = s -> 3 * n [] OTHER -> 0]
            /\ pulled = [t \in Runs |-> CASE t = r -> [d \in Docs |-> First]
                                          [] t = s -> Without(0, v)
                                          [] OTHER -> NoContent]
            /\ upserts = [t \in Runs |-> IF t = r THEN Docs ELSE {}]

OverlapFairSpec == /\ CrossingInit \/ LaggingInit
                   /\ [][Next]_vars /\ \A r \in Runs : WF_vars(Step(r))
=============================================================================
