------------------------- MODULE PullToStoreProofs -------------------------
(***************************************************************************)
(* Theorems about PullToStore, for any number of pages, attempts, files    *)
(* and runs that share a prefix.                                           *)
(***************************************************************************)
EXTENDS PullToStore, FilePullProofs, SequenceTheorems, TLAPS

-----------------------------------------------------------------------------
(* The requests of one page.                                               *)

\* What a refresh before may have cost.
Before == IF forced THEN Attempts ELSE 0

CallCounts == tries \in Nat /\ pageCalls \in Nat /\ tokenCalls \in Nat

NoCallYet ==
    at \in {"start", "headers", "resolve"} =>
        tries = 0 /\ pageCalls <= Before /\ tokenCalls <= Before

InTokenCall ==
    at = "token" => tries < Attempts /\ pageCalls <= Before /\ tokenCalls <= Before + tries

InPageCall ==
    at = "page" => /\ tries < Attempts /\ pageCalls <= Before + tries
                   /\ tokenCalls <= Before + Attempts

\* The requests of a page so far, by the place the call is at.  A request under way
\* has failed fewer than Attempts times, and only a 401 starts it over.
PageBudget == CallCounts /\ NoCallYet /\ InTokenCall /\ InPageCall /\ RequestsAreBounded

\* A page asked for again is asked for with a token of its own.
OwnToken ==
    /\ oauth \in BOOLEAN /\ forced \in BOOLEAN
    /\ oauth => mode = "rest_pull"
    /\ at = "page" /\ oauth /\ forced => token.for = page
    /\ RefusedWithOwnToken

LEMMA BudgetStep ==
  ASSUME PageBudget, Extract \/ Meanwhile
  PROVE  PageBudget'
<1>a. Attempts \in Nat /\ Attempts >= 1 /\ Before \in Nat /\ Before <= Attempts
    BY RestAssumption DEF Before
<1>1. CASE mode = "sql_pull" /\ ExtractSql
  <2>1. at = "start" /\ at' \in {"no_secret", "rows", "page_fault", "unauthorized"}
      BY <1>1 DEF ExtractSql
  <2>2. UNCHANGED <<tries, pageCalls, tokenCalls>>
      BY <1>1 DEF ExtractSql, callVars
  <2>3. QED
      BY <2>1, <2>2, <1>a
      DEF PageBudget, CallCounts, NoCallYet, InTokenCall, InPageCall,
          RequestsAreBounded
<1>2. CASE StartPull
    BY <1>2, <1>a
    DEF StartPull, Before, PageBudget, CallCounts, NoCallYet, InTokenCall, InPageCall,
       RequestsAreBounded
<1>3. CASE RequestHeaders
    BY <1>3, <1>a
    DEF RequestHeaders, callVars, Before, PageBudget, CallCounts, NoCallYet, InTokenCall, InPageCall,
       RequestsAreBounded
<1>4. CASE ResolveSecret
    BY <1>4, <1>a
    DEF ResolveSecret, Before, PageBudget, CallCounts, NoCallYet, InTokenCall, InPageCall,
       RequestsAreBounded
<1>5. CASE TokenIssued
    BY <1>5, <1>a
    DEF TokenIssued, Counted, Before, PageBudget, CallCounts, NoCallYet, InTokenCall, InPageCall,
       RequestsAreBounded
<1>6. CASE TokenRefused
    BY <1>6, <1>a
    DEF TokenRefused, Counted, callVars, PageBudget, CallCounts, NoCallYet, InTokenCall, InPageCall,
       RequestsAreBounded
<1>7. CASE TokenFails
    BY <1>7, <1>a
    DEF TokenFails, TriesAfter, Counted, Before, PageBudget, CallCounts, NoCallYet, InTokenCall, InPageCall,
       RequestsAreBounded
<1>8. CASE PageAnswered
    BY <1>8, <1>a
    DEF PageAnswered, Before, PageBudget, CallCounts, NoCallYet, InTokenCall, InPageCall,
       RequestsAreBounded
<1>9. CASE PageRefused
  <2>1. /\ at = "page" /\ pageCalls' = Counted(pageCalls) /\ tries' = 0
        /\ tokenCalls' = tokenCalls
      BY <1>9 DEF PageRefused
  <2>2. \/ at' = "headers" /\ Before = 0 /\ Before' = Attempts
        \/ at' = "unauthorized"
      BY <1>9 DEF PageRefused, RefreshAgain, Before
  <2>3. QED
      BY <2>1, <2>2, <1>a
      DEF Counted, PageBudget, CallCounts, NoCallYet, InTokenCall, InPageCall,
          RequestsAreBounded
<1>10. CASE PageFails
    BY <1>10, <1>a
    DEF PageFails, TriesAfter, Counted, Before, PageBudget, CallCounts, NoCallYet, InTokenCall, InPageCall,
       RequestsAreBounded
<1>11. CASE AnswerUnusable
    BY <1>11, <1>a
    DEF AnswerUnusable, callVars, PageBudget, CallCounts, NoCallYet, InTokenCall, InPageCall,
       RequestsAreBounded
<1>12. CASE UNCHANGED restVars \/ Tick \/ SecretStep \/ RevokeToken
  <2>1. UNCHANGED <<at, tries, forced, pageCalls, tokenCalls>>
      BY <1>12 DEF Tick, SecretStep, RevokeToken, restVars, callVars
  <2>2. QED
      BY <2>1 DEF Before, PageBudget, CallCounts, NoCallYet, InTokenCall, InPageCall,
          RequestsAreBounded
<1>13. QED
    BY <1>1, <1>2, <1>3, <1>4, <1>5, <1>6, <1>7, <1>8, <1>9, <1>10, <1>11, <1>12
    DEF Extract, Meanwhile, RestStep

LEMMA OwnTokenStep ==
  ASSUME OwnToken, Extract \/ Meanwhile, mode' = mode
  PROVE  OwnToken'
<1>1. CASE mode = "sql_pull" /\ ExtractSql
  <2>1. at' \in {"no_secret", "rows", "page_fault", "unauthorized"}
      BY <1>1 DEF ExtractSql
  <2>2. ~oauth /\ oauth' = oauth /\ forced' = forced
      BY <1>1 DEF ExtractSql, callVars, OwnToken
  <2>3. QED
      BY <2>1, <2>2 DEF OwnToken, RefusedWithOwnToken
<1>2. CASE StartPull
    BY <1>2 DEF StartPull, OwnToken, RefusedWithOwnToken
<1>3. CASE RequestHeaders
  <2>1. oauth' = oauth /\ forced' = forced /\ at' \in {"resolve", "page"}
      BY <1>3 DEF RequestHeaders, callVars
  <2>2. oauth /\ forced => at' = "resolve"
      BY <1>3 DEF RequestHeaders, RefreshFirst
  <2>3. oauth' \in BOOLEAN /\ forced' \in BOOLEAN
      BY <2>1 DEF OwnToken
  <2>4. at' = "page" => ~(oauth' /\ forced')
      BY <2>1, <2>2 DEF OwnToken
  <2>5. QED
      BY <2>1, <2>3, <2>4 DEF OwnToken, RefusedWithOwnToken
<1>4. CASE ResolveSecret
    BY <1>4 DEF ResolveSecret, OwnToken, RefusedWithOwnToken
<1>5. CASE TokenIssued
    BY <1>5 DEF TokenIssued, OwnToken, RefusedWithOwnToken
<1>6. CASE TokenRefused
    BY <1>6 DEF TokenRefused, callVars, OwnToken, RefusedWithOwnToken
<1>7. CASE TokenFails
    BY <1>7 DEF TokenFails, OwnToken, RefusedWithOwnToken
<1>8. CASE PageAnswered
    BY <1>8 DEF PageAnswered, OwnToken, RefusedWithOwnToken
<1>9. CASE PageRefused
    BY <1>9 DEF PageRefused, RefreshAgain, OwnToken, RefusedWithOwnToken
<1>10. CASE PageFails
    BY <1>10 DEF PageFails, OwnToken, RefusedWithOwnToken
<1>11. CASE AnswerUnusable
    BY <1>11 DEF AnswerUnusable, callVars, OwnToken, RefusedWithOwnToken
<1>12. CASE UNCHANGED restVars \/ Tick \/ SecretStep
    BY <1>12 DEF Tick, SecretStep, restVars, callVars, OwnToken, RefusedWithOwnToken
<1>13. CASE RevokeToken
    BY <1>13 DEF RevokeToken, OwnToken, RefusedWithOwnToken
<1>14. QED
    BY <1>1, <1>2, <1>3, <1>4, <1>5, <1>6, <1>7, <1>8, <1>9, <1>10, <1>11, <1>12, <1>13
    DEF Extract, Meanwhile, RestStep

\* What a refresh has resolved is still what it would resolve, if that is accepted.
RefreshIsCurrent ==
    /\ at = "token" /\ steady => resolved = accepted /\ Resolvable = {accepted}
    /\ RotationIsPickedUp

LEMMA RefreshStep ==
  ASSUME RefreshIsCurrent, Extract \/ Meanwhile
  PROVE  RefreshIsCurrent'
<1>1. CASE SecretStep
  <2>1. PICK v \in Values : UpsertSecret(v) \/ RotateSecret(v)
      BY <1>1 DEF SecretStep
  <2>2. /\ at' = at /\ resolved' = resolved
        /\ steady' => steady /\ Resolvable' = {accepted'}
      BY <1>1 DEF SecretStep, callVars
  <2>3. CASE UpsertSecret(v)
    <3>1. accepted' = accepted
        BY <2>3 DEF UpsertSecret
    <3>2. QED
        BY <2>2, <3>1 DEF RefreshIsCurrent, RotationIsPickedUp
  <2>4. CASE RotateSecret(v)
    <3>1. accepted' # accepted /\ Resolvable' = Resolvable
        BY <2>4 DEF RotateSecret, Resolvable, Decrypted
    <3>2. QED
        BY <2>2, <3>1 DEF RefreshIsCurrent, RotationIsPickedUp
  <2>5. QED
      BY <2>1, <2>3, <2>4
<1>2. CASE ResolveSecret
  <2>1. /\ resolved' \in Resolvable /\ at' \in {"no_secret", "token"}
        /\ steady' <=> Resolvable = {accepted}
        /\ UNCHANGED secretVars
      BY <1>2 DEF ResolveSecret, RefreshSecrets
  <2>2. Resolvable' = Resolvable /\ accepted' = accepted
      BY <2>1 DEF secretVars, Resolvable, Decrypted
  <2>3. QED
      BY <2>1, <2>2 DEF RefreshIsCurrent, RotationIsPickedUp
<1>3. CASE UNCHANGED secretVars /\ ~ResolveSecret /\ ~SecretStep
  <2>1. Resolvable' = Resolvable /\ accepted' = accepted
      BY <1>3 DEF secretVars, Resolvable, Decrypted
  <2>2. CASE TokenRefused
    <3>1. ~steady /\ at' = "token_refused" /\ steady' = steady
        BY <2>2 DEF TokenRefused, RefreshIsCurrent
    <3>2. QED
        BY <3>1 DEF RefreshIsCurrent, RotationIsPickedUp
  <2>3. CASE TokenFails \/ AnswerUnusable \/ Tick \/ RevokeToken \/ UNCHANGED restVars
    <3>1. /\ resolved' = resolved /\ steady' = steady
          /\ at' = at \/ at' \in {"token_fault", "page_fault"}
        BY <2>3 DEF TokenFails, AnswerUnusable, Tick, RevokeToken, restVars, callVars
    <3>2. QED
        BY <2>1, <3>1 DEF RefreshIsCurrent, RotationIsPickedUp
  <2>4. CASE ExtractSql \/ StartPull \/ RequestHeaders \/ TokenIssued \/ PageAnswered
             \/ PageRefused \/ PageFails
    <3>1. at' \notin {"token", "token_refused"}
        BY <2>4 DEF ExtractSql, StartPull, RequestHeaders, TokenIssued, PageAnswered, PageRefused,
           PageFails
    <3>2. QED
        BY <3>1 DEF RefreshIsCurrent, RotationIsPickedUp
  <2>5. QED
      BY <1>3, <2>2, <2>3, <2>4 DEF Extract, Meanwhile, RestStep
<1>4. UNCHANGED secretVars \/ SecretStep
    BY DEF Extract, Meanwhile, RestStep, ExtractSql, StartPull, RequestHeaders, ResolveSecret,
       TokenIssued, TokenRefused, TokenFails, PageAnswered, PageRefused, PageFails, AnswerUnusable,
       Tick, RevokeToken
<1>5. QED
    BY <1>1, <1>2, <1>3, <1>4

-----------------------------------------------------------------------------
(* The uploads of a run.                                                   *)

\* The objects runs share.
SharedObjects == {LatestObject(part) : part \in Parts} \cup {State}

LEMMA PartsAre ==
  ASSUME csv \in BOOLEAN
  PROVE  /\ PartsInOrder \in Seq(Parts)
         /\ Len(PartsInOrder) \in {2, 4}
         /\ PartsInOrder[Len(PartsInOrder)] = "manifest"
         /\ \A i \in 1..Len(PartsInOrder) - 1 : PartsInOrder[i] # "manifest"
<1>1. CASE csv
    BY <1>1 DEF PartsInOrder, Parts
<1>2. CASE ~csv
    BY <1>2 DEF PartsInOrder, Parts
<1>3. QED
    BY <1>1, <1>2

LEMMA PartsDiffer ==
  ASSUME csv \in BOOLEAN, NEW j \in 1..Len(PartsInOrder), NEW k \in 1..Len(PartsInOrder),
         PartsInOrder[j] = PartsInOrder[k]
  PROVE  j = k
<1>1. CASE csv
    BY <1>1 DEF PartsInOrder
<1>2. CASE ~csv
    BY <1>2 DEF PartsInOrder
<1>3. QED
    BY <1>1, <1>2

\* How many objects of a run are under latest/.
AliasCount == IF alias THEN Len(PartsInOrder) ELSE 0

\* A run uploads its files under runs/ in order, the same under latest/ if there is an
\* alias, and the state last.
LEMMA UploadsInTurn ==
  ASSUME csv \in BOOLEAN, alias \in BOOLEAN, NEW r
  PROVE  /\ Uploads(r) \in Seq(UNION {{RunObject(r, part) : part \in Parts}, SharedObjects})
         /\ Len(Uploads(r)) = Len(PartsInOrder) + AliasCount + 1
         /\ \A i \in 1..Len(PartsInOrder) : Uploads(r)[i] = RunObject(r, PartsInOrder[i])
         /\ \A i \in 1..AliasCount :
               Uploads(r)[Len(PartsInOrder) + i] = LatestObject(PartsInOrder[i])
         /\ Uploads(r)[Len(PartsInOrder) + AliasCount + 1] = State
<1> DEFINE S  == UNION {{RunObject(r, part) : part \in Parts}, SharedObjects}
           s1 == [i \in 1..Len(PartsInOrder) |-> RunObject(r, PartsInOrder[i])]
           s2 == IF alias THEN [i \in 1..Len(AliasParts) |-> LatestObject(AliasParts[i])] ELSE <<>>
           s3 == <<State>>
<1>1. PICK n \in Nat : n = Len(PartsInOrder) /\ \A i \in 1..n : PartsInOrder[i] \in Parts
    BY PartsAre
<1>2. PICK m \in Nat : m = AliasCount /\ m \in {0, n} /\ (m = n <=> alias \/ n = 0)
    BY <1>1 DEF AliasCount
<1>3. s1 \in Seq(S) /\ Len(s1) = n /\ \A i \in 1..n : s1[i] = RunObject(r, PartsInOrder[i])
    BY <1>1
<1>4. /\ s2 \in Seq(SharedObjects) /\ Len(s2) = m
      /\ \A i \in 1..m : s2[i] = LatestObject(PartsInOrder[i])
  <2>1. CASE alias
      BY <1>1, <1>2, <2>1 DEF AliasParts, SharedObjects, AliasCount
  <2>2. CASE ~alias
      BY <1>1, <1>2, <2>2 DEF AliasCount
  <2>3. QED
      BY <2>1, <2>2
<1>5. s3 \in Seq(SharedObjects) /\ Len(s3) = 1 /\ s3[1] = State
    BY DEF SharedObjects
<1>6. Uploads(r) = (s1 \o s2) \o s3
    BY DEF Uploads
<1>7. s2 \in Seq(S) /\ s3 \in Seq(S)
    BY <1>4, <1>5
<1> HIDE DEF s1, s2, s3, S
<1>8. PICK u \in Seq(S) :
         /\ u = s1 \o s2 /\ Len(u) = n + m
         /\ \A i \in 1 .. n + m : u[i] = IF i <= n THEN s1[i] ELSE s2[i - n]
  <2>1. /\ s1 \o s2 \in Seq(S)
        /\ Len(s1 \o s2) = Len(s1) + Len(s2)
        /\ \A i \in 1 .. Len(s1) + Len(s2) :
              (s1 \o s2)[i] = IF i <= Len(s1) THEN s1[i] ELSE s2[i - Len(s1)]
      BY <1>3, <1>7, ConcatProperties
  <2>2. QED
      BY <1>3, <1>4, <2>1
<1>9. /\ Uploads(r) \in Seq(S) /\ Len(Uploads(r)) = n + m + 1
      /\ \A i \in 1 .. n + m : Uploads(r)[i] = u[i]
      /\ Uploads(r)[n + m + 1] = State
  <2>1. /\ u \o s3 \in Seq(S)
        /\ Len(u \o s3) = Len(u) + Len(s3)
        /\ \A i \in 1 .. Len(u) + Len(s3) :
              (u \o s3)[i] = IF i <= Len(u) THEN u[i] ELSE s3[i - Len(u)]
    <3>1. u \in Seq(S) /\ s3 \in Seq(S)
        BY <1>7
    <3>2. QED
        BY <3>1, ConcatProperties
  <2>2. Uploads(r) = u \o s3 /\ Len(u) = n + m /\ Len(s3) = 1 /\ s3[1] = State
      BY <1>5, <1>6, <1>8
  <2>3. n + m + 1 \in 1 .. n + m + 1 /\ (n + m + 1) - (n + m) = 1 /\ ~(n + m + 1 <= n + m)
      OBVIOUS
  <2>4. \A i \in 1 .. n + m : i \in 1 .. n + m + 1 /\ i <= n + m
      OBVIOUS
  <2>5. QED
      BY <2>1, <2>2, <2>3, <2>4
<1>10. ASSUME NEW i \in 1..n PROVE Uploads(r)[i] = RunObject(r, PartsInOrder[i])
  <2>1. i \in 1 .. n + m /\ i <= n
      OBVIOUS
  <2>2. QED
      BY <1>3, <1>8, <1>9, <2>1
<1>11. ASSUME NEW i \in 1..m PROVE Uploads(r)[n + i] = LatestObject(PartsInOrder[i])
  <2>1. n + i \in 1 .. n + m /\ ~(n + i <= n) /\ (n + i) - n = i
      OBVIOUS
  <2>2. QED
      BY <1>4, <1>8, <1>9, <2>1
<1>12. QED
    BY <1>1, <1>2, <1>9, <1>10, <1>11 DEF S

LEMMA UploadsAre ==
  ASSUME csv \in BOOLEAN, alias \in BOOLEAN, NEW r
  PROVE  /\ Uploads(r) \in Seq(UNION {{RunObject(r, part) : part \in Parts}, SharedObjects})
         /\ Len(Uploads(r)) > Len(PartsInOrder)
         /\ \A i \in 1..Len(Uploads(r)) :
               \/ i <= Len(PartsInOrder) /\ Uploads(r)[i] = RunObject(r, PartsInOrder[i])
               \/ i > Len(PartsInOrder) /\ Uploads(r)[i] \in SharedObjects
<1>1. PICK n \in Nat : n = Len(PartsInOrder) /\ \A i \in 1..n : PartsInOrder[i] \in Parts
    BY PartsAre
<1>2. PICK m \in Nat : m = AliasCount /\ m <= n
    BY <1>1 DEF AliasCount
<1>3. /\ Uploads(r) \in Seq(UNION {{RunObject(r, part) : part \in Parts}, SharedObjects})
      /\ Len(Uploads(r)) = n + m + 1
      /\ \A i \in 1..n : Uploads(r)[i] = RunObject(r, PartsInOrder[i])
      /\ \A i \in 1..m : Uploads(r)[n + i] = LatestObject(PartsInOrder[i])
      /\ Uploads(r)[n + m + 1] = State
    BY <1>1, <1>2, UploadsInTurn
<1>4. ASSUME NEW i \in 1 .. n + m + 1, i > n PROVE Uploads(r)[i] \in SharedObjects
  <2>1. CASE i = n + m + 1
      BY <1>3, <2>1 DEF SharedObjects
  <2>2. CASE i # n + m + 1
    <3>1. i - n \in 1..m /\ i - n \in 1..n /\ n + (i - n) = i
        BY <1>2, <1>4, <2>2
    <3>2. Uploads(r)[i] = LatestObject(PartsInOrder[i - n])
        BY <1>3, <3>1
    <3>3. QED
        BY <1>1, <3>1, <3>2 DEF SharedObjects
  <2>3. QED
      BY <2>1, <2>2
<1>5. QED
    BY <1>1, <1>3, <1>4
-----------------------------------------------------------------------------
(* Publication.                                                            *)

\* How far a run has come, and what that says of the bucket: its files in order, its
\* manifest and what runs share after them, and nothing of others under its own id.
UploadsInOrder ==
    \A r \in Publishers :
        /\ \A i \in 1..Len(PartsInOrder) :
              i <= uploaded[r] => store[RunObject(r, PartsInOrder[i])] = r
        /\ \A part \in Parts : store[RunObject(r, part)] \in {r, Nobody}
        /\ store[RunObject(r, "manifest")] = r => uploaded[r] >= Len(PartsInOrder)
        /\ \A o \in SharedObjects : store[o] = r => uploaded[r] >= Len(PartsInOrder)

PublisherInv == PublisherTypeOK /\ UploadsInOrder /\ ImportsItsOwnFile

\* Objects of runs are told apart by run and part, and from those that runs share.
LEMMA ObjectsDiffer ==
  ASSUME NEW r, NEW part
  PROVE  /\ \A s, other : RunObject(r, part) = RunObject(s, other) => r = s /\ part = other
         /\ RunObject(r, part) \notin SharedObjects
  BY DEF RunObject, SharedObjects, LatestObject, State

LEMMA UploadStep ==
  ASSUME PublisherInv, NEW p \in Publishers, Upload(p)
  PROVE  /\ UploadsInOrder'
         /\ store' \in [Objects -> Publishers \cup {Nobody}]
         /\ \A r \in Publishers \ {p}, part \in Parts :
               store'[RunObject(r, part)] = store[RunObject(r, part)]
<1>a. "manifest" \in Parts /\ SharedObjects \subseteq Objects
      /\ \A r \in Publishers, part \in Parts : RunObject(r, part) \in Objects
    BY DEF Parts, Objects, SharedObjects
<1> DEFINE i == uploaded[p] + 1
           n == Len(PartsInOrder)
           o == Uploads(p)[i]
<1>1. /\ csv \in BOOLEAN /\ alias \in BOOLEAN /\ uploaded[p] \in Nat
      /\ store \in [Objects -> Publishers \cup {Nobody}]
      /\ uploaded \in [Publishers -> Nat]
    BY DEF PublisherInv, PublisherTypeOK
<1>2. /\ i \in 1..Len(Uploads(p))
      /\ store' = [store EXCEPT ![o] = p]
      /\ uploaded' = [uploaded EXCEPT ![p] = i]
      /\ csv' = csv /\ alias' = alias
  <2>1. Len(Uploads(p)) \in Nat
      BY <1>1, UploadsAre, LenProperties
  <2>2. QED
      BY <1>1, <2>1 DEF Upload
<1>3. n \in Nat /\ (\A j \in 1..n : PartsInOrder[j] \in Parts)
      /\ PartsInOrder' = PartsInOrder
    BY <1>1, <1>2, PartsAre DEF PartsInOrder
<1>4. \/ i \in 1..n /\ o = RunObject(p, PartsInOrder[i])
      \/ i > n /\ o \in SharedObjects
  <2>1. \A j \in 1..Len(Uploads(p)) :
           \/ j <= n /\ Uploads(p)[j] = RunObject(p, PartsInOrder[j])
           \/ j > n /\ Uploads(p)[j] \in SharedObjects
      BY <1>1, UploadsAre
  <2>2. \/ i <= n /\ o = RunObject(p, PartsInOrder[i])
        \/ i > n /\ o \in SharedObjects
      BY <1>2, <2>1
  <2>3. QED
      BY <1>1, <1>3, <2>2
<1>5. o \in Objects /\ store' \in [Objects -> Publishers \cup {Nobody}]
  <2> HIDE DEF i, n, o
  <2>1. o \in Objects
      BY <1>3, <1>4, <1>a
  <2>2. QED
      BY <1>1, <1>2, <2>1
<1>6. \A x \in Objects : store'[x] = IF x = o THEN p ELSE store[x]
    BY <1>1, <1>2, <1>5
<1>7. \A r \in Publishers : /\ uploaded'[r] \in Nat /\ uploaded'[r] >= uploaded[r]
                            /\ r # p => uploaded'[r] = uploaded[r]
                            /\ r = p => uploaded'[r] = i
    BY <1>1, <1>2
<1> HIDE DEF i, n, o
<1>8. ASSUME NEW r \in Publishers, NEW j \in 1..n, j <= uploaded'[r]
      PROVE  store'[RunObject(r, PartsInOrder[j])] = r
  <2>1. j <= uploaded[r] \/ (r = p /\ j = i)
      BY <1>1, <1>3, <1>7, <1>8 DEF i
  <2>2. CASE j <= uploaded[r]
    <3>1. store[RunObject(r, PartsInOrder[j])] = r
        BY <2>2 DEF PublisherInv, UploadsInOrder, n
    <3>2. RunObject(r, PartsInOrder[j]) = o => r = p
        BY <1>4, ObjectsDiffer
    <3>3. QED
        BY <1>3, <1>6, <1>a, <3>1, <3>2
  <2>3. CASE r = p /\ j = i
    <3>1. o = RunObject(r, PartsInOrder[j])
        BY <1>3, <1>4, <2>3
    <3>2. QED
        BY <1>5, <1>6, <2>3, <3>1
  <2>4. QED
      BY <2>1, <2>2, <2>3
<1>9. ASSUME NEW r \in Publishers, NEW part \in Parts
       PROVE  store'[RunObject(r, part)] \in {r, Nobody}
  <2>1. RunObject(r, part) = o => r = p
      BY <1>4, ObjectsDiffer
  <2>2. QED
      BY <1>6, <1>a, <2>1 DEF PublisherInv, UploadsInOrder
<1>10. ASSUME NEW r \in Publishers, store'[RunObject(r, "manifest")] = r
       PROVE  uploaded'[r] >= n
  <2>1. CASE RunObject(r, "manifest") = o
    <3>1. r = p /\ i \in 1..n /\ PartsInOrder[i] = "manifest"
        BY <1>4, <2>1, ObjectsDiffer
    <3>2. i = n
        BY <1>1, <1>3, <3>1, PartsAre DEF n
    <3>3. QED
        BY <1>3, <1>7, <3>1, <3>2
  <2>2. CASE RunObject(r, "manifest") # o
    <3>1. uploaded[r] >= n
        BY <1>6, <1>a, <1>10, <2>2 DEF PublisherInv, UploadsInOrder, n
    <3>2. QED
        BY <1>1, <1>3, <1>7, <3>1
  <2>3. QED
      BY <2>1, <2>2
<1>11. ASSUME NEW r \in Publishers, NEW x \in SharedObjects, store'[x] = r
       PROVE  uploaded'[r] >= n
  <2>1. CASE x = o
    <3>1. r = p /\ i > n
        BY <1>4, <1>5, <1>6, <1>11, <2>1, ObjectsDiffer
    <3>2. QED
        BY <1>1, <1>3, <1>7, <3>1 DEF i
  <2>2. CASE x # o
    <3>1. uploaded[r] >= n
        BY <1>6, <1>a, <1>11, <2>2 DEF PublisherInv, UploadsInOrder, n
    <3>2. QED
        BY <1>1, <1>3, <1>7, <3>1
  <2>3. QED
      BY <2>1, <2>2
<1>12. n = Len(PartsInOrder')
    BY <1>3 DEF n
<1>13. UploadsInOrder'
    BY <1>3, <1>8, <1>9, <1>10, <1>11, <1>12 DEF UploadsInOrder, n, SharedObjects
<1>14. ASSUME NEW r \in Publishers \ {p}, NEW part \in Parts
       PROVE  store'[RunObject(r, part)] = store[RunObject(r, part)]
  <2>1. RunObject(r, part) # o
      BY <1>4, ObjectsDiffer
  <2>2. QED
      BY <1>6, <1>a, <2>1
<1>15. QED
    BY <1>5, <1>13, <1>14

LEMMA PublicationStep ==
  ASSUME PublisherInv, NEW p \in Publishers, Publication(p)
  PROVE  PublisherInv'
<1>1. CASE Begin(p)
    BY <1>1 DEF Begin, PublisherInv, PublisherTypeOK, UploadsInOrder, ImportsItsOwnFile,
       PartsInOrder, SharedObjects
<1>2. CASE Upload(p)
  <2>1. PublisherTypeOK'
    <3>1. uploaded' \in [Publishers -> Nat] /\ mixed' \in BOOLEAN
        BY <1>2 DEF Upload, PublisherInv, PublisherTypeOK
    <3>2. UNCHANGED <<csv, alias, phase, imported>>
        BY <1>2 DEF Upload
    <3>3. QED
        BY <1>2, <3>1, <3>2, UploadStep DEF PublisherInv, PublisherTypeOK
  <2>2. ImportsItsOwnFile'
      BY <1>2 DEF Upload, PublisherInv, ImportsItsOwnFile
  <2>3. QED
      BY <1>2, <2>1, <2>2, UploadStep DEF PublisherInv
<1>3. CASE FinishPublishing(p)
    BY <1>3 DEF FinishPublishing, PublisherInv, PublisherTypeOK, UploadsInOrder,
       ImportsItsOwnFile, PartsInOrder, SharedObjects
<1>4. CASE ImportFile(p)
  <2>1. store[RunObject(p, "discovery")] \in {p, Nobody}
      BY DEF PublisherInv, UploadsInOrder, Parts
  <2>2. PublisherTypeOK' /\ ImportsItsOwnFile'
      BY <1>4, <2>1 DEF ImportFile, ManifestReturned, PublisherInv, PublisherTypeOK,
         ImportsItsOwnFile
  <2>3. UploadsInOrder'
      BY <1>4 DEF ImportFile, PublisherInv, UploadsInOrder, PartsInOrder, SharedObjects
  <2>4. QED
      BY <2>2, <2>3 DEF PublisherInv
<1>5. CASE StopRun(p)
    BY <1>5 DEF StopRun, PublisherInv, PublisherTypeOK, UploadsInOrder, ImportsItsOwnFile,
       PartsInOrder, SharedObjects
<1>6. QED
    BY <1>1, <1>2, <1>3, <1>4, <1>5 DEF Publication, PublishStep

\* The order of the uploads makes every manifest complete.
LEMMA InOrderIsComplete == PublisherInv => ManifestsAreComplete
<1> SUFFICES ASSUME PublisherInv PROVE ManifestsAreComplete
    OBVIOUS
<1>1. ASSUME NEW r \in Publishers, uploaded[r] >= Len(PartsInOrder) PROVE Whole(r)
  <2>1. Len(PartsInOrder) \in Nat /\ uploaded[r] \in Nat
      BY PartsAre DEF PublisherInv, PublisherTypeOK
  <2>2. \A i \in 1..Len(PartsInOrder) : store[RunObject(r, PartsInOrder[i])] = r
      BY <1>1, <2>1 DEF PublisherInv, UploadsInOrder
  <2>3. QED
      BY <2>2 DEF Whole, Listing
<1>2. ASSUME NEW r \in Publishers, store[RunObject(r, "manifest")] # Nobody PROVE Whole(r)
    BY <1>1, <1>2 DEF PublisherInv, UploadsInOrder, Parts
<1>3. ASSUME NEW o \in SharedObjects, store[o] # Nobody PROVE Whole(store[o])
  <2>1. store[o] \in Publishers
      BY <1>3 DEF PublisherInv, PublisherTypeOK, Objects, SharedObjects
  <2>2. QED
      BY <1>1, <2>1 DEF PublisherInv, UploadsInOrder
<1>4. State \in SharedObjects /\ LatestObject("manifest") \in SharedObjects
    BY DEF SharedObjects, Parts
<1>5. QED
    BY <1>2, <1>3, <1>4 DEF ManifestsAreComplete

-----------------------------------------------------------------------------
(***************************************************************************)
(* The alias.  AliasIsOneRun says nothing while a run writes there; until  *)
(* then it is kept because that run is the only one, and what it has       *)
(* written so far is its own.                                              *)
(***************************************************************************)

OneAtTheAlias ==
    alias /\ ~mixed =>
        /\ \A r, s \in Publishers : Half(r) /\ Half(s) => r = s
        /\ \A r \in Publishers : Half(r) =>
              \A i \in 1..Len(PartsInOrder) :
                 Len(PartsInOrder) + i <= uploaded[r] => store[LatestObject(PartsInOrder[i])] = r
        /\ AliasIsOneRun

AliasInv == (\A r \in Publishers : phase[r] = "pulling" => uploaded[r] = 0) /\ OneAtTheAlias

\* The uploads to objects that runs share follow those under runs/.
LEMMA SharedAre ==
  ASSUME csv \in BOOLEAN, alias, NEW r,
         NEW n \in Nat, n = Len(PartsInOrder)
  PROVE  Shared(r) = n + 1 .. n + n + 1 /\ Len(Uploads(r)) = n + n + 1
<1>1. /\ Len(Uploads(r)) = n + n + 1
      /\ \A i \in 1..n : Uploads(r)[i] = RunObject(r, PartsInOrder[i])
      /\ \A i \in 1..n : Uploads(r)[n + i] = LatestObject(PartsInOrder[i])
      /\ Uploads(r)[n + n + 1] = State
  <2>1. alias \in BOOLEAN /\ AliasCount = n
      BY DEF AliasCount
  <2>2. QED
      BY <2>1, UploadsInTurn
<1>2. \A part : RunObject(r, part)[1] = "runs" /\ LatestObject(part)[1] = "latest"
    BY DEF RunObject, LatestObject
<1>3. State[1] = "state"
    BY DEF State
<1>4. ASSUME NEW i \in 1 .. n + n + 1 PROVE Uploads(r)[i][1] # "runs" <=> i > n
  <2>1. CASE i <= n
      BY <1>1, <1>2, <2>1
  <2>2. CASE i > n /\ i # n + n + 1
    <3>1. i - n \in 1..n /\ n + (i - n) = i
        BY <2>2
    <3>2. Uploads(r)[i] = LatestObject(PartsInOrder[i - n])
        BY <1>1, <3>1
    <3>3. QED
        BY <1>2, <2>2, <3>2
  <2>3. CASE i = n + n + 1
      BY <1>1, <1>3, <2>3
  <2>4. QED
      BY <2>1, <2>2, <2>3
<1>5. QED
    BY <1>1, <1>4 DEF Shared

\* A step that uploads nothing, and begins or ends the publication of a run that has
\* written nothing or all there.
LEMMA AliasFrame ==
  ASSUME OneAtTheAlias, UNCHANGED <<csv, alias, store, uploaded, mixed>>,
         \A r \in Publishers : Half(r)' <=> Half(r)
  PROVE  OneAtTheAlias'
<1>1. PartsInOrder' = PartsInOrder
    BY DEF PartsInOrder
<1>2. QED
    BY <1>1 DEF OneAtTheAlias, AliasIsOneRun, Listing

LEMMA AliasUnchanged ==
  ASSUME AliasInv, UNCHANGED publishVars
  PROVE  AliasInv'
<1>1. UNCHANGED <<csv, alias, store, uploaded, phase, mixed>>
    BY DEF publishVars
<1>2. \A r : Shared(r)' = Shared(r) /\ Len(Uploads(r))' = Len(Uploads(r))
    BY <1>1 DEF Shared, Uploads, PartsInOrder, AliasParts
<1>3. \A r \in Publishers : Half(r)' <=> Half(r)
    BY <1>1, <1>2 DEF Half
<1>4. QED
    BY <1>1, <1>3, AliasFrame DEF AliasInv

LEMMA AliasUpload ==
  ASSUME PublisherInv, AliasInv, NEW p \in Publishers, Upload(p)
  PROVE  OneAtTheAlias'
<1> SUFFICES ASSUME alias, ~mixed'
             PROVE  /\ \A r, s \in Publishers : Half(r)' /\ Half(s)' => r = s
                    /\ \A r \in Publishers : Half(r)' =>
                          \A k \in 1..Len(PartsInOrder) :
                             Len(PartsInOrder) + k <= uploaded'[r] =>
                                store'[LatestObject(PartsInOrder[k])] = r
                    /\ (\A r \in Publishers : ~Half(r)') =>
                          \A part \in Listing : store'[LatestObject(part)] = store'[State]
  <2>1. alias' = alias /\ PartsInOrder' = PartsInOrder
      BY DEF Upload, PartsInOrder
  <2>2. QED
      BY <2>1 DEF OneAtTheAlias, AliasIsOneRun, Listing
<1>0. /\ csv \in BOOLEAN /\ alias \in BOOLEAN /\ uploaded \in [Publishers -> Nat]
      /\ store \in [Objects -> Publishers \cup {Nobody}]
    BY DEF PublisherInv, PublisherTypeOK
<1>1. PICK n \in Nat : /\ n = Len(PartsInOrder) /\ n >= 1
                       /\ \A k \in 1..n : PartsInOrder[k] \in Parts
                       /\ \A j, k \in 1..n : PartsInOrder[j] = PartsInOrder[k] => j = k
    BY <1>0, PartsAre, PartsDiffer
<1>2. \A r : Shared(r) = n + 1 .. n + n + 1 /\ Len(Uploads(r)) = n + n + 1
    BY <1>0, <1>1, SharedAre
<1>3. PICK i \in Nat : i = uploaded[p] + 1
    BY <1>0
<1>4. /\ i \in 1 .. n + n + 1 /\ phase[p] = "publishing" /\ ~mixed
      /\ store' = [store EXCEPT ![Uploads(p)[i]] = p]
      /\ uploaded' = [uploaded EXCEPT ![p] = i]
      /\ i > n => \A s \in Publishers \ {p} : ~Half(s)
      /\ UNCHANGED <<csv, alias, phase>>
  <2>1. /\ i \in 1 .. n + n + 1 /\ phase[p] = "publishing"
        /\ store' = [store EXCEPT ![Uploads(p)[i]] = p]
        /\ uploaded' = [uploaded EXCEPT ![p] = i]
        /\ UNCHANGED <<csv, alias, phase>>
      BY <1>0, <1>2, <1>3 DEF Upload
  <2>2. ~(mixed \/ (i \in Shared(p) /\ \E s \in Publishers \ {p} : Half(s)))
      BY <1>3 DEF Upload
  <2>3. i > n => i \in Shared(p)
      BY <1>2, <2>1
  <2>4. QED
      BY <2>1, <2>2, <2>3
<1>5. ASSUME NEW r \in Publishers
      PROVE  /\ Half(r) <=> phase[r] = "publishing" /\ uploaded[r] \in n + 1 .. n + n
             /\ Half(r)' <=> phase[r] = "publishing" /\ uploaded'[r] \in n + 1 .. n + n
  <2>1. Shared(r)' = Shared(r) /\ Uploads(r)' = Uploads(r)
      BY <1>4 DEF Shared, Uploads, PartsInOrder, AliasParts
  <2>2. Shared(r) \ {Len(Uploads(r))} = n + 1 .. n + n
      BY <1>2
  <2>3. QED
      BY <1>4, <2>1, <2>2 DEF Half
<1>6. /\ uploaded'[p] = i /\ uploaded[p] = i - 1
      /\ \A r \in Publishers \ {p} : uploaded'[r] = uploaded[r]
    BY <1>0, <1>3, <1>4
<1>7. /\ \A r \in Publishers \ {p} : Half(r)' <=> Half(r)
      /\ Half(p) <=> i \in n + 2 .. n + n + 1
      /\ Half(p)' <=> i \in n + 1 .. n + n
  <2>1. ASSUME NEW r \in Publishers \ {p} PROVE Half(r)' <=> Half(r)
      BY <1>5, <1>6
  <2>2. Half(p) <=> uploaded[p] \in n + 1 .. n + n
      BY <1>4, <1>5
  <2>3. Half(p)' <=> uploaded'[p] \in n + 1 .. n + n
      BY <1>4, <1>5
  <2>4. i - 1 \in n + 1 .. n + n <=> i \in n + 2 .. n + n + 1
      OBVIOUS
  <2>5. QED
      BY <1>6, <2>1, <2>2, <2>3, <2>4
<1>8. /\ \A k \in 1..n : LatestObject(PartsInOrder[k]) \in Objects
      /\ State \in Objects /\ \A part : State # LatestObject(part)
      /\ \A j, k \in 1..n :
            LatestObject(PartsInOrder[j]) = LatestObject(PartsInOrder[k]) => j = k
    BY <1>1 DEF Objects, State, LatestObject
<1>9. /\ i <= n => Uploads(p)[i] = RunObject(p, PartsInOrder[i])
      /\ i > n /\ i <= n + n => Uploads(p)[i] = LatestObject(PartsInOrder[i - n])
      /\ i = n + n + 1 => Uploads(p)[i] = State
  <2>1. /\ \A k \in 1..n : Uploads(p)[k] = RunObject(p, PartsInOrder[k])
        /\ \A k \in 1..n : Uploads(p)[n + k] = LatestObject(PartsInOrder[k])
        /\ Uploads(p)[n + n + 1] = State
    <3>1. AliasCount = n
        BY <1>1 DEF AliasCount
    <3>2. QED
        BY <1>0, <1>1, <3>1, UploadsInTurn
  <2>2. i > n /\ i <= n + n => i - n \in 1..n /\ n + (i - n) = i
      BY <1>4
  <2>3. i <= n => i \in 1..n
      BY <1>4
  <2>4. QED
      BY <2>1, <2>2, <2>3
<1>10. /\ \A r, s \in Publishers : Half(r) /\ Half(s) => r = s
       /\ \A r \in Publishers : Half(r) =>
             \A k \in 1..n : n + k <= uploaded[r] => store[LatestObject(PartsInOrder[k])] = r
       /\ (\A r \in Publishers : ~Half(r)) =>
             \A k \in 1..n : store[LatestObject(PartsInOrder[k])] = store[State]
    BY <1>1, <1>4 DEF AliasInv, OneAtTheAlias, AliasIsOneRun, Listing
<1> SUFFICES /\ \A r, s \in Publishers : Half(r)' /\ Half(s)' => r = s
             /\ \A r \in Publishers : Half(r)' =>
                   \A k \in 1..n : n + k <= uploaded'[r] =>
                      store'[LatestObject(PartsInOrder[k])] = r
             /\ (\A r \in Publishers : ~Half(r)') =>
                   \A k \in 1..n : store'[LatestObject(PartsInOrder[k])] = store'[State]
    BY <1>1 DEF Listing
\* A file under runs/.
<1>11. CASE i <= n
  <2>1. \A r \in Publishers : (Half(r)' <=> Half(r)) /\ (Half(r) => r # p)
      BY <1>4, <1>7, <1>11
  <2>2. \A o \in Objects : o \in SharedObjects => store'[o] = store[o]
      BY <1>0, <1>4, <1>9, <1>11, ObjectsDiffer
  <2>3. \A k \in 1..n : store'[LatestObject(PartsInOrder[k])] = store[LatestObject(PartsInOrder[k])]
      BY <1>1, <1>8, <2>2 DEF SharedObjects
  <2>4. store'[State] = store[State]
      BY <1>8, <2>2 DEF SharedObjects
  <2>5. QED
      BY <1>6, <1>10, <2>1, <2>3, <2>4
\* A file under latest/.
<1>12. CASE i > n /\ i <= n + n
  <2>1. Half(p)' /\ \A r \in Publishers \ {p} : ~Half(r)'
      BY <1>4, <1>7, <1>12
  <2>2. ASSUME NEW k \in 1..n, n + k <= i PROVE store'[LatestObject(PartsInOrder[k])] = p
    <3>1. CASE n + k = i
      <4>1. k = i - n
          BY <3>1
      <4>2. QED
          BY <1>0, <1>4, <1>8, <1>9, <1>12, <4>1
    <3>2. CASE n + k < i
      <4>1. Half(p) /\ n + k <= uploaded[p]
          BY <1>6, <1>7, <1>12, <2>2, <3>2
      <4>2. store[LatestObject(PartsInOrder[k])] = p
          BY <1>10, <4>1
      <4>3. QED
          BY <1>0, <1>4, <1>8, <4>2
    <3>3. QED
        BY <2>2, <3>1, <3>2
  <2>3. QED
      BY <1>6, <2>1, <2>2
\* The state.
<1>13. CASE i = n + n + 1
  <2>1. Half(p) /\ ~Half(p)' /\ \A r \in Publishers \ {p} : ~Half(r)'
      BY <1>1, <1>4, <1>7, <1>13
  <2>2. ASSUME NEW k \in 1..n PROVE store'[LatestObject(PartsInOrder[k])] = p
    <3>1. n + k <= uploaded[p]
        BY <1>6, <1>13
    <3>2. store[LatestObject(PartsInOrder[k])] = p
        BY <1>10, <2>1, <3>1
    <3>3. QED
        BY <1>0, <1>4, <1>8, <3>2
  <2>3. store'[State] = p
      BY <1>0, <1>4, <1>8, <1>9, <1>13
  <2>4. QED
      BY <2>1, <2>2, <2>3
<1>14. QED
    BY <1>4, <1>11, <1>12, <1>13

LEMMA AliasStep ==
  ASSUME PublisherInv, AliasInv, NEW p \in Publishers, Publication(p)
  PROVE  AliasInv'
<1>0. /\ csv \in BOOLEAN /\ alias \in BOOLEAN /\ uploaded \in [Publishers -> Nat]
      /\ phase \in [Publishers -> {"pulling", "publishing", "published", "ended"}]
    BY DEF PublisherInv, PublisherTypeOK
<1>1. \A r \in Publishers : phase'[r] = "pulling" => uploaded'[r] = 0
    BY <1>0 DEF AliasInv, Publication, PublishStep, Begin, Upload, FinishPublishing, ImportFile,
       StopRun
<1>2. CASE ~alias \/ mixed
  <2>1. alias' = alias
      BY DEF Publication, PublishStep, Begin, Upload, FinishPublishing, ImportFile, StopRun
  <2>2. mixed => mixed'
    <3>1. CASE Upload(p) \/ StopRun(p)
        BY <3>1 DEF Upload, StopRun
    <3>2. CASE ~(Upload(p) \/ StopRun(p))
        BY <3>2 DEF Publication, PublishStep, Begin, FinishPublishing, ImportFile
    <3>3. QED
        BY <3>1, <3>2
  <2>3. QED
      BY <1>1, <1>2, <2>1, <2>2 DEF AliasInv, OneAtTheAlias
<1>3. CASE alias /\ ~Upload(p)
  <2>1. /\ UNCHANGED <<csv, alias, store, uploaded>>
        /\ \A r \in Publishers \ {p} : phase'[r] = phase[r]
      BY <1>0, <1>3 DEF Publication, PublishStep, Begin, FinishPublishing, ImportFile, StopRun
  <2>2. \A r : Shared(r)' = Shared(r) /\ Len(Uploads(r))' = Len(Uploads(r))
      BY <2>1 DEF Shared, Uploads, PartsInOrder, AliasParts
  <2>3. \A r \in Publishers \ {p} : Half(r)' <=> Half(r)
      BY <2>1, <2>2 DEF Half
  <2>4. CASE StopRun(p) /\ Half(p)
    <3>1. mixed'
        BY <2>4 DEF StopRun
    <3>2. QED
        BY <1>1, <3>1 DEF AliasInv, OneAtTheAlias
  <2>5. CASE ~(StopRun(p) /\ Half(p))
    <3>1. ~Half(p)'
      <4>1. CASE Begin(p)
        <5>1. uploaded[p] = 0 /\ 0 \notin Shared(p)
            BY <4>1 DEF Begin, AliasInv, Shared
        <5>2. QED
            BY <2>1, <2>2, <5>1 DEF Half
      <4>2. CASE ~Begin(p)
        <5>1. phase'[p] # "publishing"
            BY <1>0, <1>3, <4>2 DEF Publication, PublishStep, FinishPublishing, ImportFile, StopRun
        <5>2. QED
            BY <5>1 DEF Half
      <4>3. QED
          BY <4>1, <4>2
    <3>2. ~Half(p)
        BY <1>3, <2>5 DEF Publication, PublishStep, Begin, FinishPublishing, ImportFile, Half
    <3>3. mixed' = mixed
        BY <1>3, <3>2 DEF Publication, PublishStep, Begin, FinishPublishing, ImportFile, StopRun,
           PublisherInv, PublisherTypeOK
    <3>4. QED
        BY <1>1, <2>1, <2>3, <3>1, <3>2, <3>3, AliasFrame DEF AliasInv
  <2>6. QED
      BY <2>4, <2>5
<1>4. CASE Upload(p)
    BY <1>1, <1>4, AliasUpload DEF AliasInv
<1>5. QED
    BY <1>2, <1>3, <1>4

-----------------------------------------------------------------------------
(* The whole run.                                                          *)

\* The rows are those of the pages before the one the cursor names, as far as they
\* were answered with items.
AnsweredRows ==
    /\ \A i, j \in 1..Len(rows) : i < j => rows[i] < rows[j]
    /\ {rows[i] : i \in 1..Len(rows)} = (1..page - 1) \ bare

RowsInOrder ==
    /\ page \in Nat \ {0} /\ rows \in Seq(Nat) /\ bare \subseteq 1..page - 1
    /\ AnsweredRows
    /\ at \in {"start", "headers", "resolve", "token", "page"} => page <= Pages
    /\ at = "rows" /\ mode = "rest_pull" => page = Pages + 1 \/ cut

\* A REST run whose pages are not all there has nothing in the bucket.
NothingEarly ==
    mode = "rest_pull" /\ at # "rows" =>
        /\ phase[Puller] \in {"pulling", "ended"}
        /\ \A part \in Parts : store[RunObject(Puller, part)] = Nobody

PullInv ==
    /\ PageBudget /\ OwnToken /\ RefreshIsCurrent /\ RowsInOrder
    /\ FileInv /\ PublisherInv /\ AliasInv /\ NothingEarly
    /\ PullTypeOK

LEMMA RowsStep ==
  ASSUME RowsInOrder, Extract \/ Meanwhile, mode' = mode
  PROVE  RowsInOrder'
<1>a. Pages \in Nat /\ Pages >= 1
    BY RestAssumption
<1>1. CASE PageAnswered
  <2>1. PICK items \in BOOLEAN, next \in {FALSE, CursorGiven} :
           /\ rows' = IF items THEN Append(rows, page) ELSE rows
           /\ bare' = IF items THEN bare ELSE bare \cup {page}
           /\ cut' = (CursorGiven /\ ~next)
           /\ at' = IF next THEN "headers" ELSE "rows"
      BY <1>1 DEF PageAnswered
  <2>2. /\ at = "page" /\ page' = page + 1 /\ page \in Nat \ {0} /\ page <= Pages
        /\ rows \in Seq(Nat) /\ bare \subseteq 1..page - 1
      BY <1>1 DEF PageAnswered, RowsInOrder
  <2>3. at' \in {"start", "headers", "resolve", "token", "page"} => page' <= Pages
    <3>1. at' = "headers" => CursorGiven
      <4>1. CASE next = FALSE
          BY <2>1, <4>1
      <4>2. CASE next = CursorGiven
          BY <2>1, <4>2
      <4>3. QED
          BY <2>1, <4>1, <4>2
    <3>2. at' \in {"headers", "rows"}
        BY <2>1
    <3>3. QED
        BY <2>2, <3>1, <3>2, <1>a DEF CursorGiven
  <2>4. at' = "rows" => page' = Pages + 1 \/ cut'
    <3>1. at' = "rows" => ~next
        BY <2>1
    <3>2. at' = "rows" /\ CursorGiven => cut'
        BY <2>1, <3>1
    <3>3. ~CursorGiven => page' = Pages + 1
        BY <2>2, <1>a DEF CursorGiven
    <3>4. QED
        BY <3>2, <3>3
  <2>5. /\ rows' \in Seq(Nat) /\ bare' \subseteq 1..page' - 1
        /\ AnsweredRows'
    <3>1. CASE items
      <4>1. rows' = Append(rows, page) /\ bare' = bare
          BY <2>1, <3>1
      <4>2. Len(rows) \in Nat /\ \A i \in 1..Len(rows) : rows[i] \in 1..page - 1
          BY <2>2 DEF RowsInOrder, AnsweredRows
      <4>3. /\ rows' \in Seq(Nat) /\ Len(rows') = Len(rows) + 1
            /\ rows'[Len(rows) + 1] = page
            /\ \A i \in 1..Len(rows) : rows'[i] = rows[i]
          BY <2>2, <4>1
      <4>4. \A i, j \in 1..Len(rows') : i < j => rows'[i] < rows'[j]
        <5> TAKE i, j \in 1..Len(rows')
        <5>1. CASE j = Len(rows) + 1
            BY <2>2, <4>2, <4>3, <5>1
        <5>2. CASE j # Len(rows) + 1
          <6>1. i < j => i \in 1..Len(rows) /\ j \in 1..Len(rows)
              BY <4>2, <4>3, <5>2
          <6>2. QED
              BY <4>3, <6>1 DEF RowsInOrder, AnsweredRows
        <5>3. QED
            BY <5>1, <5>2
      <4>5. {rows'[i] : i \in 1..Len(rows')} = {rows[i] : i \in 1..Len(rows)} \cup {page}
        <5>1. 1..Len(rows') = (1..Len(rows)) \cup {Len(rows) + 1}
            BY <4>2, <4>3
        <5>2. {rows'[i] : i \in 1..Len(rows)} = {rows[i] : i \in 1..Len(rows)}
            BY <4>3
        <5>3. {rows'[i] : i \in 1..Len(rows')}
                  = {rows'[i] : i \in 1..Len(rows)} \cup {rows'[Len(rows) + 1]}
            BY <5>1
        <5>4. QED
            BY <4>3, <5>2, <5>3
      <4>6. (1..page' - 1) \ bare' = ((1..page - 1) \ bare) \cup {page}
          BY <2>2, <4>1
      <4>7. QED
          BY <2>2, <4>1, <4>3, <4>4, <4>5, <4>6 DEF RowsInOrder, AnsweredRows
    <3>2. CASE ~items
      <4>1. rows' = rows /\ bare' = bare \cup {page}
          BY <2>1, <3>2
      <4>2. (1..page' - 1) \ bare' = (1..page - 1) \ bare
          BY <2>2, <4>1
      <4>3. QED
          BY <2>2, <4>1, <4>2 DEF RowsInOrder, AnsweredRows
    <3>3. QED
        BY <3>1, <3>2
  <2>6. QED
      BY <2>2, <2>3, <2>4, <2>5, <1>a DEF RowsInOrder
<1>2. CASE mode = "sql_pull" /\ ExtractSql
  <2>1. at = "start" /\ UNCHANGED <<page, rows, answerVars>> /\ mode' # "rest_pull"
        /\ at' \in {"no_secret", "rows", "page_fault", "unauthorized"}
      BY <1>2 DEF ExtractSql, callVars
  <2>2. QED
      BY <2>1 DEF RowsInOrder, AnsweredRows, answerVars
<1>3. CASE /\ \/ StartPull \/ RequestHeaders \/ ResolveSecret
              \/ TokenIssued \/ TokenRefused \/ TokenFails
              \/ PageRefused \/ PageFails \/ AnswerUnusable
  <2>1. /\ at \in {"start", "headers", "resolve", "token", "page"} /\ at' # "rows"
        /\ UNCHANGED <<page, rows, answerVars>>
      BY <1>3 DEF StartPull, RequestHeaders, ResolveSecret, TokenIssued, TokenRefused,
         TokenFails, PageRefused, PageFails, AnswerUnusable, callVars
  <2>2. QED
      BY <2>1 DEF RowsInOrder, AnsweredRows, answerVars
<1>4. CASE UNCHANGED restVars \/ Tick \/ SecretStep \/ RevokeToken
  <2>1. UNCHANGED <<at, page, rows, answerVars>>
      BY <1>4 DEF Tick, SecretStep, RevokeToken, restVars, callVars
  <2>2. QED
      BY <2>1 DEF RowsInOrder, AnsweredRows, answerVars
<1>5. QED
    BY <1>1, <1>2, <1>3, <1>4 DEF Extract, Meanwhile, RestStep

\* Types of the secret and of a REST run.
LEMMA SecretTypeStep ==
  ASSUME SecretTypeOK, Extract \/ Meanwhile
  PROVE  SecretTypeOK'
<1>1. CASE SecretStep
  <2>1. PICK v \in Values : UpsertSecret(v) \/ RotateSecret(v)
      BY <1>1 DEF SecretStep
  <2>2. QED
      BY <2>1 DEF UpsertSecret, RotateSecret, SecretTypeOK
<1>2. CASE ~SecretStep
  <2>1. UNCHANGED secretVars
      BY <1>2 DEF Extract, Meanwhile, RestStep, ExtractSql, StartPull, RequestHeaders,
         ResolveSecret, TokenIssued, TokenRefused, TokenFails, PageAnswered, PageRefused,
         PageFails, AnswerUnusable, Tick, RevokeToken
  <2>2. QED
      BY <2>1 DEF secretVars, SecretTypeOK
<1>3. QED
    BY <1>1, <1>2

LEMMA RestTypeStep ==
  ASSUME SecretTypeOK, RestTypeOK, RowsInOrder, Extract \/ Meanwhile
  PROVE  RestTypeOK'
<1>a. /\ Pages \in Nat /\ Pages >= 1 /\ Attempts \in Nat /\ Lifetimes \subseteq Nat
      /\ MaxTime \in Nat
    BY RestAssumption
<1>b. Resolvable \subseteq Values \cup {NoValue, Garbage}
    BY DEF Resolvable, Decrypted, SecretTypeOK
<1>c. \A calls \in Nat : Counted(calls) \in Nat
    BY <1>a DEF Counted
<1>d. now \in Nat /\ tries \in Nat /\ pageCalls \in Nat /\ tokenCalls \in Nat
    BY DEF RestTypeOK
<1>1. CASE SecretStep
  <2>1. UNCHANGED <<answerVars, now, oauth, at, callVars, pageCalls, tokenCalls>>
      BY <1>1 DEF SecretStep
  <2>2. steady' \in BOOLEAN
      BY <1>1 DEF SecretStep
  <2>3. QED
      BY <2>1, <2>2 DEF RestTypeOK, answerVars, callVars, answerVars
<1>3. CASE ExtractSql \/ RequestHeaders \/ TokenRefused \/ AnswerUnusable
  <2>1. /\ UNCHANGED <<answerVars, now, oauth, callVars, pageCalls, steady>>
        /\ tokenCalls' = tokenCalls \/ tokenCalls' = Counted(tokenCalls)
      BY <1>3 DEF ExtractSql, RequestHeaders, TokenRefused, AnswerUnusable
  <2>2. at' \in {"rows", "resolve", "page"} \cup Reasons
      BY <1>3 DEF ExtractSql, RequestHeaders, TokenRefused, AnswerUnusable, Reasons
  <2>3. QED
      BY <1>c, <2>1, <2>2 DEF RestTypeOK, callVars, answerVars
<1>4. CASE StartPull \/ ResolveSecret
  <2>1. resolved' \in Values \cup {NoValue, Garbage}
      BY <1>4, <1>b DEF StartPull, ResolveSecret, RefreshSecrets
  <2>2. at' \in {"headers", "token"} \cup Reasons
      BY <1>4 DEF StartPull, ResolveSecret, Reasons
  <2>3. steady' \in BOOLEAN
      BY <1>4 DEF StartPull, ResolveSecret, RestTypeOK
  <2>4. UNCHANGED <<answerVars, now, oauth, page, rows, token, tries, forced, pageCalls, tokenCalls>>
      BY <1>4 DEF StartPull, ResolveSecret
  <2>5. QED
      BY <2>1, <2>2, <2>3, <2>4 DEF RestTypeOK, answerVars
<1>5. CASE TokenIssued
  <2>1. page \in 0..Pages
      BY <1>5, <1>a DEF TokenIssued, RowsInOrder
  <2>2. token' \in [until : Nat, said : Nat, for : 0..Pages]
      BY <1>5, <1>a, <2>1 DEF TokenIssued, RestTypeOK
  <2>3. QED
      BY <1>5, <1>c, <2>2 DEF TokenIssued, RestTypeOK, answerVars
<1>6. CASE TokenFails \/ PageFails
  <2>1. /\ tries' = tries + 1 /\ at' \in {"token", "page"} \cup Reasons
        /\ pageCalls' \in {pageCalls, Counted(pageCalls)}
        /\ tokenCalls' \in {tokenCalls, Counted(tokenCalls)}
        /\ UNCHANGED <<answerVars, now, oauth, page, rows, token, resolved, forced, steady>>
      BY <1>6 DEF TokenFails, PageFails, TriesAfter, Reasons
  <2>2. {now', tries', pageCalls', tokenCalls'} \subseteq Nat
    <3>1. now' \in Nat /\ tries' \in Nat
        BY <1>d, <2>1
    <3>2. pageCalls' \in Nat
        BY <1>c, <1>d, <2>1
    <3>3. tokenCalls' \in Nat
        BY <1>c, <1>d, <2>1
    <3>4. QED
        BY <3>1, <3>2, <3>3
  <2>3. QED
      BY <2>1, <2>2 DEF RestTypeOK, answerVars
<1>7. CASE PageAnswered
  <2>a. PICK items \in BOOLEAN, next \in {FALSE, CursorGiven} :
           /\ rows' = IF items THEN Append(rows, page) ELSE rows
           /\ bare' = IF items THEN bare ELSE bare \cup {page}
           /\ cut' = (CursorGiven /\ ~next)
           /\ IF next THEN at' = "headers" /\ UNCHANGED <<token, resolved, steady>>
              ELSE at' = "rows" /\ token' = NoToken /\ resolved' = NoValue /\ steady' = FALSE
      BY <1>7 DEF PageAnswered
  <2>1. page \in 1..Pages /\ page + 1 \in 1..Pages + 1
      BY <1>7, <1>a DEF PageAnswered, RowsInOrder
  <2>2. rows' \in Seq(1..Pages) /\ page' \in 1..Pages + 1 /\ bare' \subseteq 1..Pages
    <3>1. rows \in Seq(1..Pages) /\ bare \subseteq 1..Pages
        BY DEF RestTypeOK
    <3>2. page' = page + 1
        BY <1>7 DEF PageAnswered
    <3>3. CASE items
        BY <2>a, <2>1, <3>1, <3>2, <3>3
    <3>4. CASE ~items
        BY <2>a, <2>1, <3>1, <3>2, <3>4
    <3>5. QED
        BY <3>3, <3>4
  <2>3. /\ token' \in [until : Nat, said : Nat, for : 0..Pages]
        /\ resolved' \in Values \cup {NoValue, Garbage} /\ steady' \in BOOLEAN
        /\ at' \in {"headers", "rows"}
    <3>1. NoToken \in [until : Nat, said : Nat, for : 0..Pages]
        BY <1>a DEF NoToken
    <3>2. CASE next
      <4>1. at' = "headers" /\ UNCHANGED <<token, resolved, steady>>
          BY <2>a, <3>2
      <4>2. QED
          BY <4>1 DEF RestTypeOK
    <3>3. CASE ~next
      <4>1. at' = "rows" /\ token' = NoToken /\ resolved' = NoValue /\ steady' = FALSE
          BY <2>a, <3>3
      <4>2. QED
          BY <3>1, <4>1
    <3>4. QED
        BY <3>2, <3>3
  <2>4. UNCHANGED <<now, oauth>> /\ tries' = 0 /\ forced' = FALSE /\ pageCalls' = 0 /\ tokenCalls' = 0
      BY <1>7 DEF PageAnswered
  <2>b. cut' \in BOOLEAN
      BY <2>a
  <2>5. /\ {now', tries', pageCalls', tokenCalls'} \subseteq Nat
        /\ {oauth', forced', cut', steady'} \subseteq BOOLEAN
    <3>1. now' \in Nat /\ oauth' \in BOOLEAN /\ forced' \in BOOLEAN /\ steady' \in BOOLEAN
        BY <2>3, <2>4 DEF RestTypeOK
    <3>2. tries' \in Nat /\ pageCalls' \in Nat /\ tokenCalls' \in Nat
        BY <2>4
    <3>3. QED
        BY <2>b, <3>1, <3>2
  <2>6. QED
      BY <2>2, <2>3, <2>5 DEF RestTypeOK
<1>8. CASE PageRefused
  <2>1. forced' \in BOOLEAN /\ at' \in {"headers"} \cup Reasons
      BY <1>8 DEF PageRefused, RefreshAgain, Reasons, RestTypeOK
  <2>2. UNCHANGED <<answerVars, now, oauth, page, rows, token, resolved, tokenCalls, steady>>
        /\ pageCalls' = Counted(pageCalls) /\ tries' = 0
      BY <1>8 DEF PageRefused
  <2>3. oauth' \in BOOLEAN /\ cut' \in BOOLEAN /\ steady' \in BOOLEAN /\ bare' \subseteq 1..Pages
      BY <2>2 DEF RestTypeOK, answerVars
  <2>4. /\ {now', tries', pageCalls', tokenCalls'} \subseteq Nat
        /\ {oauth', forced', cut', steady'} \subseteq BOOLEAN
    <3>1. now' \in Nat /\ tries' \in Nat /\ pageCalls' \in Nat /\ tokenCalls' \in Nat
        BY <1>c, <1>d, <2>2
    <3>2. QED
        BY <2>1, <2>3, <3>1
  <2>5. QED
      BY <2>1, <2>2, <2>3, <2>4 DEF RestTypeOK
<1>9. CASE RevokeToken
  <2>1. token' \in [until : Nat, said : Nat, for : 0..Pages]
      BY <1>9 DEF RevokeToken, RestTypeOK
  <2>2. UNCHANGED <<answerVars, now, oauth, at, page, rows, resolved, tries, forced,
                    pageCalls, tokenCalls, steady>>
      BY <1>9 DEF RevokeToken
  <2>3. QED
      BY <2>1, <2>2 DEF RestTypeOK, answerVars
<1>10. CASE Tick \/ UNCHANGED restVars
  <2>1. UNCHANGED <<answerVars, oauth, at, callVars, pageCalls, tokenCalls, steady>> /\ now' \in Nat
      BY <1>d, <1>10 DEF Tick, restVars
  <2>2. QED
      BY <2>1 DEF RestTypeOK, callVars, answerVars
<1>11. QED
    BY <1>1, <1>3, <1>4, <1>5, <1>6, <1>7, <1>8, <1>9, <1>10 DEF Extract, Meanwhile, RestStep

LEMMA PullInit == Init => PullInv
<1> SUFFICES ASSUME Init PROVE PullInv
    OBVIOUS
<1>1. /\ at = "start" /\ page = 1 /\ rows = <<>> /\ tries = 0
      /\ pageCalls = 0 /\ tokenCalls = 0 /\ forced = FALSE /\ bare = {} /\ cut = FALSE
      /\ oauth \in BOOLEAN /\ (oauth => mode = "rest_pull")
    BY DEF Init, RestInit
<1>2. /\ csv \in BOOLEAN /\ alias \in BOOLEAN /\ mixed = FALSE
      /\ store = [o \in Objects |-> Nobody]
      /\ uploaded = [r \in Publishers |-> 0]
      /\ phase = [r \in Publishers |-> "pulling"]
      /\ imported = [r \in Publishers |-> Nobody]
    BY DEF Init, PublisherInit
<1>3. PageBudget
    BY <1>1, RestAssumption
    DEF PageBudget, CallCounts, NoCallYet, InTokenCall, InPageCall, RequestsAreBounded, Before
<1>4. OwnToken
    BY <1>1 DEF OwnToken, RefusedWithOwnToken
<1>5. RowsInOrder
    BY <1>1, RestAssumption DEF RowsInOrder, AnsweredRows
<1>6. PublisherTypeOK /\ ImportsItsOwnFile
    BY <1>2 DEF PublisherTypeOK, ImportsItsOwnFile
<1>7. \A r \in Publishers, part \in Parts : RunObject(r, part) \in Objects
    BY DEF Objects
<1>8. NothingEarly
    BY <1>2, <1>7, PullerAssumption DEF NothingEarly
<1>9. UploadsInOrder
  <2>1. Len(PartsInOrder) \in Nat /\ \A r \in Publishers : r # Nobody
      BY <1>2, PartsAre, PublisherAssumption
  <2>2. SharedObjects \subseteq Objects /\ "manifest" \in Parts
      BY DEF SharedObjects, Objects, Parts
  <2>3. QED
      BY <1>2, <1>7, <2>1, <2>2 DEF UploadsInOrder
<1>10. RefreshIsCurrent
    BY <1>1 DEF RefreshIsCurrent, RotationIsPickedUp
<1>11. AliasInv
  <2>1. \A r \in Publishers : phase[r] = "pulling" /\ uploaded[r] = 0 /\ ~Half(r)
      BY <1>2 DEF Half
  <2>2. \A part \in Listing : store[LatestObject(part)] = store[State]
    <3>1. State \in Objects /\ \A part \in Parts : LatestObject(part) \in Objects
        BY DEF Objects
    <3>2. Listing \subseteq Parts
      <4>1. \A i \in 1..Len(PartsInOrder) : PartsInOrder[i] \in Parts
          BY <1>2, PartsAre
      <4>2. QED
          BY <4>1 DEF Listing
    <3>3. QED
        BY <1>2, <3>1, <3>2
  <2>3. QED
      BY <2>1, <2>2 DEF AliasInv, OneAtTheAlias, AliasIsOneRun
<1>12. SecretTypeOK /\ RestTypeOK
  <2>1. SecretTypeOK
      BY DEF Init, SecretTypeOK
  <2>2. /\ now = 0 /\ token = NoToken /\ resolved = NoValue /\ steady = FALSE
        /\ NoToken \in [until : Nat, said : Nat, for : 0..Pages]
        /\ 1 \in 1..Pages + 1 /\ <<>> \in Seq(1..Pages)
      BY RestAssumption DEF Init, RestInit, NoToken
  <2>3. {now, tries, pageCalls, tokenCalls} \subseteq Nat /\ {oauth, forced, cut, steady} \subseteq BOOLEAN
    <3>1. oauth \in BOOLEAN /\ forced \in BOOLEAN /\ cut \in BOOLEAN /\ steady \in BOOLEAN
        BY <1>1, <2>2
    <3>2. QED
        BY <1>1, <2>2, <3>1
  <2>4. QED
      BY <1>1, <2>1, <2>2, <2>3 DEF RestTypeOK
<1>13. FileTypeOK
    BY FileAssumption DEF Init, FileInit, FileTypeOK
<1>14. PullTypeOK
    BY <1>6, <1>12, <1>13 DEF Init, PullTypeOK
<1>15. QED
    BY <1>3, <1>4, <1>5, <1>6, <1>8, <1>9, <1>10, <1>11, <1>14, FileInitInv
    DEF Init, PullInv, PublisherInv

LEMMA PullNext == PullInv /\ [Next]_vars => PullInv'
<1> SUFFICES ASSUME PullInv, [Next]_vars PROVE PullInv'
    OBVIOUS
<1>1. ASSUME Extract \/ Meanwhile, UNCHANGED <<publishVars, mode>> PROVE PullInv'
  <2>1. PageBudget' /\ OwnToken' /\ RowsInOrder'
      BY <1>1, BudgetStep, OwnTokenStep, RowsStep DEF PullInv
  <2>2. PublisherInv'
      BY <1>1 DEF publishVars, PullInv, PublisherInv, PublisherTypeOK, UploadsInOrder,
         ImportsItsOwnFile, PartsInOrder, SharedObjects
  <2>3. mode = "rest_pull" /\ at = "rows" => at' = "rows"
      BY <1>1 DEF Extract, Meanwhile, Pulled, RestStep, StartPull, RequestHeaders,
         ResolveSecret, TokenIssued, TokenRefused, TokenFails, PageAnswered, PageRefused,
         PageFails, AnswerUnusable
  <2>4. NothingEarly'
      BY <1>1, <2>3 DEF publishVars, PullInv, NothingEarly
  <2>5. FileInv'
      BY <1>1, WriteStep, ExtractionStep, FileUnchanged DEF Extract, Meanwhile, PullInv
  <2>6. RefreshIsCurrent'
      BY <1>1, RefreshStep DEF PullInv
  <2>7. AliasInv'
      BY <1>1, AliasUnchanged DEF PullInv
  <2>8. PullTypeOK'
    <3>1. SecretTypeOK' /\ RestTypeOK'
        BY <1>1, SecretTypeStep, RestTypeStep DEF PullInv, PullTypeOK
    <3>2. FileTypeOK'
      <4>1. CASE UNCHANGED fileVars
          BY <4>1 DEF fileVars, readVars, FileTypeOK, PullInv, PullTypeOK
      <4>2. CASE FileStep \/ DirectoryStep
          BY <4>2, FileTypeStep DEF PullInv, PullTypeOK
      <4>3. QED
          BY <1>1, <4>1, <4>2 DEF Extract, Meanwhile
    <3>3. QED
        BY <1>1, <2>2, <3>1, <3>2 DEF PublisherInv, PullInv, PullTypeOK
  <2>9. QED
      BY <2>1, <2>2, <2>4, <2>5, <2>6, <2>7, <2>8 DEF PullInv
<1>2. ASSUME NEW r \in Publishers, Publication(r),
             UNCHANGED <<secretVars, restVars, fileVars, mode>>
      PROVE  PullInv'
  <2>1. PageBudget' /\ OwnToken' /\ RowsInOrder'
      BY <1>2 DEF restVars, callVars, PullInv, PageBudget, CallCounts, NoCallYet, InTokenCall,
         InPageCall, RequestsAreBounded, Before, OwnToken, RefusedWithOwnToken, RowsInOrder,
         AnsweredRows, answerVars
  <2>2. PublisherInv'
      BY <1>2, PublicationStep DEF PullInv
  <2>3. NothingEarly'
    <3> SUFFICES ASSUME mode = "rest_pull", at # "rows"
                 PROVE  /\ phase'[Puller] \in {"pulling", "ended"}
                        /\ \A part \in Parts : store'[RunObject(Puller, part)] = Nobody
        BY <1>2 DEF NothingEarly, restVars
    <3>1. /\ Puller \in Publishers /\ phase[Puller] \in {"pulling", "ended"}
          /\ \A part \in Parts : store[RunObject(Puller, part)] = Nobody
          /\ phase \in [Publishers -> {"pulling", "publishing", "published", "ended"}]
        BY PullerAssumption DEF PullInv, NothingEarly, PublisherInv, PublisherTypeOK
    <3>2. CASE Upload(r)
      <4>1. r # Puller /\ phase' = phase
          BY <3>1, <3>2 DEF Upload
      <4>2. QED
          BY <3>1, <3>2, <4>1, UploadStep DEF PullInv
    <3>3. CASE CanPublish(r) /\ Begin(r)
      <4>1. r # Puller
          BY <3>3 DEF CanPublish, Pulled
      <4>2. QED
          BY <3>1, <3>3, <4>1 DEF Begin
    <3>4. CASE FinishPublishing(r) \/ ImportFile(r) \/ StopRun(r)
        BY <3>1, <3>4 DEF FinishPublishing, ImportFile, StopRun
    <3>5. QED
        BY <1>2, <3>2, <3>3, <3>4 DEF Publication, PublishStep
  <2>4. FileInv'
      BY <1>2, FileUnchanged DEF PullInv
  <2>5. RefreshIsCurrent'
      BY <1>2 DEF secretVars, restVars, callVars, PullInv, RefreshIsCurrent, RotationIsPickedUp,
         Resolvable, Decrypted
  <2>6. AliasInv'
      BY <1>2, AliasStep DEF PullInv
  <2>7. SecretTypeOK' /\ RestTypeOK' /\ FileTypeOK'
      BY <1>2 DEF secretVars, restVars, callVars, answerVars, fileVars, readVars, SecretTypeOK, RestTypeOK,
         FileTypeOK, PullInv, PullTypeOK
  <2>8. PullTypeOK'
      BY <1>2, <2>2, <2>7 DEF PublisherInv, PullInv, PullTypeOK
  <2>9. QED
      BY <2>1, <2>2, <2>3, <2>4, <2>5, <2>6, <2>8 DEF PullInv
<1>3. CASE UNCHANGED vars
  <2>1. RefreshIsCurrent'
      BY <1>3 DEF vars, secretVars, restVars, callVars, PullInv, RefreshIsCurrent,
         RotationIsPickedUp, Resolvable, Decrypted
  <2>2. AliasInv'
      BY <1>3, AliasUnchanged DEF vars, PullInv
  <2>3. PullTypeOK'
    <3>1. /\ SecretTypeOK /\ RestTypeOK /\ FileTypeOK /\ PublisherTypeOK
          /\ mode' \in {"sql_pull", "rest_pull", "file_pull"}
        BY <1>3 DEF vars, PullInv, PullTypeOK
    <3>a. UNCHANGED <<now, oauth, at, page, rows, token, resolved, tries, forced, pageCalls,
                      tokenCalls, bare, cut, steady>>
        BY <1>3 DEF vars, restVars, callVars, answerVars
    <3>b. SecretTypeOK'
        BY <1>3, <3>1 DEF vars, secretVars, SecretTypeOK
    <3>2. RestTypeOK'
        BY <3>1, <3>a DEF RestTypeOK
    <3>3. FileTypeOK'
        BY <1>3, <3>1 DEF vars, fileVars, readVars, FileTypeOK
    <3>4. PublisherTypeOK'
        BY <1>3, <3>1 DEF vars, publishVars, PublisherTypeOK, Objects
    <3>5. QED
        BY <3>1, <3>2, <3>3, <3>4, <3>b DEF PullTypeOK
  <2>4. PageBudget' /\ OwnToken' /\ RowsInOrder' /\ FileInv' /\ PublisherInv' /\ NothingEarly'
      BY <1>3, FileUnchanged DEF vars, restVars, callVars, publishVars, PullInv, PageBudget, CallCounts,
         NoCallYet, InTokenCall, InPageCall, RequestsAreBounded, Before, OwnToken,
         RefusedWithOwnToken, RowsInOrder, PublisherInv, PublisherTypeOK, UploadsInOrder,
         ImportsItsOwnFile, PartsInOrder, SharedObjects, NothingEarly, AnsweredRows,
         answerVars
  <2>5. QED
      BY <2>1, <2>2, <2>3, <2>4 DEF PullInv
<1>4. QED
    BY <1>1, <1>2, <1>3 DEF Next

\* Types: the secret, the REST call, the directory and the bucket.
THEOREM PullTypeCorrect == Spec => []PullTypeOK
<1>1. PullInv => PullTypeOK
    BY DEF PullInv
<1>2. QED
    BY <1>1, PullInit, PullNext, PTL DEF Spec

\* No page costs more than two requests and two refreshes, of Attempts each.
THEOREM RequestsBoundedCorrect == Spec => []RequestsAreBounded
<1>1. PullInv => RequestsAreBounded
    BY DEF PullInv, PageBudget
<1>2. QED
    BY <1>1, PullInit, PullNext, PTL DEF Spec

\* A refresh is refused only when the secret has changed under it.
THEOREM RotationCorrect == Spec => []RotationIsPickedUp
<1>1. PullInv => RotationIsPickedUp
    BY DEF PullInv, RefreshIsCurrent
<1>2. QED
    BY <1>1, PullInit, PullNext, PTL DEF Spec

\* An OAuth source fails with 401 only by a token issued for the very page.
THEOREM OwnTokenCorrect == Spec => []RefusedWithOwnToken
<1>1. PullInv => RefusedWithOwnToken
    BY DEF PullInv, OwnToken
<1>2. QED
    BY <1>1, PullInit, PullNext, PTL DEF Spec

\* A file run that ends with its rows misses no record at rest.
THEOREM NothingMissedCorrect == Spec => []RecordsAtRestAreExtracted
<1>1. PullInv => RecordsAtRestAreExtracted
    BY NoneIsMissed DEF PullInv
<1>2. QED
    BY <1>1, PullInit, PullNext, PTL DEF Spec

\* No file is older than the rows taken from it.
THEOREM LooksNewerCorrect == Spec => []ChangesLookNewer
<1>1. PullInv => ChangesLookNewer
    BY DEF PullInv, FileInv
<1>2. QED
    BY <1>1, PullInit, PullNext, PTL DEF Spec

\* What a REST run publishes are the answered pages, in order and once each, and all
\* of them unless an answer lacked its items or its cursor.
THEOREM AnsweredPagesCorrect == Spec => []PublishedPagesAreAnswered
<1>1. PullInv => PublishedPagesAreAnswered
  <2>1. PullInv /\ Published => at = "rows" /\ mode = "rest_pull" /\ RowsInOrder
      BY DEF Published, PullInv, NothingEarly
  <2>2. QED
      BY <2>1 DEF PublishedPagesAreAnswered, RowsInOrder, AnsweredRows
<1>2. QED
    BY <1>1, PullInit, PullNext, PTL DEF Spec

\* A manifest in the bucket lists files that are there, whatever stops a run and
\* whichever runs publish beside it.
THEOREM ManifestsCorrect == Spec => []ManifestsAreComplete
<1>1. PullInv => ManifestsAreComplete
    BY InOrderIsComplete DEF PullInv
<1>2. QED
    BY <1>1, PullInit, PullNext, PTL DEF Spec

\* A run imports its own documents.
THEOREM OwnImportCorrect == Spec => []ImportsItsOwnFile
<1>1. PullInv => ImportsItsOwnFile
    BY DEF PullInv, PublisherInv
<1>2. QED
    BY <1>1, PullInit, PullNext, PTL DEF Spec

\* Unless runs published side by side or one stopped half-way, the alias holds the
\* files of the one run that latest_success.json names.
THEOREM AliasCorrect == Spec => []AliasIsOneRun
<1>1. PullInv => AliasIsOneRun
    BY DEF PullInv, AliasInv, OneAtTheAlias, AliasIsOneRun
<1>2. QED
    BY <1>1, PullInit, PullNext, PTL DEF Spec
=============================================================================
