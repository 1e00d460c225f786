-------------------------- MODULE PushIntakeProofs --------------------------
(***************************************************************************)
(* Theorems about PushIntake, for any number of requests, keys, connectors *)
(* and API processes.                                                      *)
(***************************************************************************)
EXTENDS PushIntake, TLAPS

\* A stored key names a batch made of the request that stored it.
KeysName ==
    \A k \in Keys : keys[k] # NoEntry =>
        /\ keys[k].batch \in batches
        /\ sent[keys[k].batch].key = k
        /\ sent[keys[k].batch].body = keys[k].body

\* A request past its checks has a key.
LookedUpHasKey ==
    \A q \in Requests : phase[q] = "looked_up" =>
        sent[q].key \in Keys /\ sent[q].connector \in PushConnectors

\* A 200 names a stored batch made under the same key from the same body.
AnswerNames ==
    \A q \in Requests : answer[q].code = 200 =>
        /\ answer[q].batch \in batches
        /\ sent[answer[q].batch].key = sent[q].key
        /\ sent[answer[q].batch].body = sent[q].body

IntakeInv ==
    /\ TypeOK /\ OneBatchPerKey /\ KeysName /\ LookedUpHasKey /\ AnswerNames
    /\ AnswersSettleKeys

LEMMA IntakeInit == Init => IntakeInv
  BY IntakeAssumption
  DEF Init, IntakeInv, TypeOK, OneBatchPerKey, KeysName, LookedUpHasKey, AnswerNames,
      AnswersSettleKeys, NoEntry, Unanswered

Given == {Ok(b) : b \in Requests} \cup {Refuse(c) : c \in {400, 404, 409, 500}}

\* An answer that queues nothing: a refusal, or the stored answer of a known key.
LEMMA IntakeReply ==
  ASSUME IntakeInv, NEW q \in Requests,
         NEW a \in Given,
         Reply(q, a), UNCHANGED <<sent, keys, batches, heard>>,
         a.code = 200 => /\ a.batch \in batches
                         /\ sent[a.batch].key = sent[q].key
                         /\ sent[a.batch].body = sent[q].body,
         ~Refused(q) /\ Parses(sent[q].body) =>
             /\ keys[sent[q].key].batch \in batches
             /\ a.code = 200 => keys[sent[q].key] = [body |-> sent[q].body, batch |-> a.batch]
             /\ a.code = 409 => keys[sent[q].key].body # sent[q].body
  PROVE  IntakeInv'
<1>1. TypeOK'
    BY DEF IntakeInv, TypeOK, Reply, Given
<1>2. LookedUpHasKey' /\ OneBatchPerKey' /\ KeysName'
    BY DEF IntakeInv, TypeOK, Reply, LookedUpHasKey, OneBatchPerKey, KeysName
<1>3. AnswerNames'
    BY DEF IntakeInv, TypeOK, Reply, AnswerNames
<1>4. AnswersSettleKeys'
    BY DEF IntakeInv, TypeOK, Reply, AnswersSettleKeys, Refused
<1>5. QED
    BY <1>1, <1>2, <1>3, <1>4 DEF IntakeInv

LEMMA IntakeRefuse ==
  ASSUME IntakeInv, NEW q \in Requests, NEW c \in {400, 404, 409, 500},
         Reply(q, Refuse(c)), UNCHANGED <<sent, keys, batches, heard>>,
         ~Refused(q) /\ Parses(sent[q].body) =>
             /\ keys[sent[q].key].batch \in batches
             /\ c = 409 => keys[sent[q].key].body # sent[q].body
  PROVE  IntakeInv'
<1>1. Refuse(c).code = c
    BY DEF Refuse
<1>2. Refuse(c) \in Given
    BY DEF Given
<1>3. PICK a \in Given : a = Refuse(c)
    BY <1>2
<1>4. Reply(q, a) /\ a.code = c
    BY <1>1, <1>3
<1>5. /\ a.code = 200 => /\ a.batch \in batches
                         /\ sent[a.batch].key = sent[q].key
                         /\ sent[a.batch].body = sent[q].body
      /\ ~Refused(q) /\ Parses(sent[q].body) =>
             /\ keys[sent[q].key].batch \in batches
             /\ a.code = 200 => keys[sent[q].key] = [body |-> sent[q].body, batch |-> a.batch]
             /\ a.code = 409 => keys[sent[q].key].body # sent[q].body
    BY <1>4
<1>6. QED
    BY <1>4, <1>5, IntakeReply

\* The commit of a new batch: its key was free, so no batch had it.
LEMMA IntakeAccept ==
  ASSUME IntakeInv, NEW q \in Requests, Accept(q)
  PROVE  IntakeInv'
<1> DEFINE k == sent[q].key
<1>1. /\ k \in Keys /\ keys[k] = NoEntry
      /\ keys' = [keys EXCEPT ![k] = [body |-> sent[q].body, batch |-> q]]
      /\ batches' = batches \cup {q}
      /\ Reply(q, Ok(q))
      /\ UNCHANGED <<sent, heard>>
    BY DEF IntakeInv, LookedUpHasKey, Accept, KeyFree, BatchesAfter
<1>2. sent[q].body \in Bodies
    BY DEF IntakeInv, TypeOK, Request
<1>3. [body |-> sent[q].body, batch |-> q] \in Stored /\ Ok(q) \in {Ok(b) : b \in Requests}
    BY <1>2 DEF Stored
<1>4. TypeOK'
    BY <1>1, <1>3 DEF IntakeInv, TypeOK, Reply
<1>5. [body |-> sent[q].body, batch |-> q] # NoEntry
    BY IntakeAssumption DEF NoEntry
<1>6. \A b \in batches : sent[b].key # k
  <2> SUFFICES ASSUME NEW b \in batches, sent[b].key = k PROVE FALSE
      OBVIOUS
  <2>1. keys[k] = [body |-> sent[b].body, batch |-> b] /\ b \in Requests
      BY DEF IntakeInv, OneBatchPerKey, TypeOK
  <2>2. QED
      BY <1>1, <2>1, IntakeAssumption DEF NoEntry
<1>7. OneBatchPerKey'
    BY <1>1, <1>6 DEF IntakeInv, OneBatchPerKey, TypeOK
<1>8. KeysName'
    BY <1>1 DEF IntakeInv, KeysName, TypeOK
<1>9. LookedUpHasKey'
    BY <1>1 DEF IntakeInv, LookedUpHasKey, TypeOK, Reply
<1>10. AnswerNames'
    BY <1>1 DEF IntakeInv, AnswerNames, TypeOK, Reply, Ok
<1>11. AnswersSettleKeys'
  <2> SUFFICES ASSUME NEW s \in Requests, phase'[s] = "answered", ~Refused(s),
                      Parses(sent[s].body)
               PROVE  /\ keys'[sent[s].key].batch \in batches'
                      /\ answer'[s].code = 200
                            => keys'[sent[s].key] = [body |-> sent[s].body, batch |-> answer'[s].batch]
                      /\ answer'[s].code = 409 => keys'[sent[s].key].body # sent[s].body
      BY <1>1 DEF AnswersSettleKeys, Refused
  <2>1. CASE s = q
      BY <1>1, <2>1 DEF IntakeInv, TypeOK, Reply, Ok
  <2>2. CASE s # q
    <3>1. /\ phase[s] = "answered" /\ answer'[s] = answer[s]
          /\ keys[sent[s].key].batch \in batches
          /\ answer[s].code = 200
                => keys[sent[s].key] = [body |-> sent[s].body, batch |-> answer[s].batch]
          /\ answer[s].code = 409 => keys[sent[s].key].body # sent[s].body
        BY <1>1, <2>2 DEF IntakeInv, TypeOK, Reply, AnswersSettleKeys
    <3>2. sent[s].key # k
        BY <1>1, <3>1, IntakeAssumption DEF IntakeInv, TypeOK, NoEntry
    <3>3. keys'[sent[s].key] = keys[sent[s].key]
        BY <1>1, <3>2 DEF IntakeInv, TypeOK
    <3>4. QED
        BY <1>1, <3>1, <3>3
  <2>3. QED
      BY <2>1, <2>2
<1>12. QED
    BY <1>4, <1>7, <1>8, <1>9, <1>10, <1>11 DEF IntakeInv

LEMMA IntakeNext == IntakeInv /\ [Next]_vars => IntakeInv'
<1> SUFFICES ASSUME IntakeInv, [Next]_vars PROVE IntakeInv'
    OBVIOUS
<1>1. ASSUME NEW q \in Requests, \/ RefuseRequest(q) \/ ParseFails(q) \/ LoseRace(q)
      PROVE  IntakeInv'
  <2>1. PICK c \in {400, 404, 500} :
            Reply(q, Refuse(c)) /\ UNCHANGED <<sent, keys, batches, heard>>
      BY <1>1 DEF RefuseRequest, Refusal, ParseFails, LoseRace
  <2>2. ~Refused(q) /\ Parses(sent[q].body) => keys[sent[q].key].batch \in batches
    <3>1. CASE RefuseRequest(q) \/ ParseFails(q)
        BY <3>1 DEF RefuseRequest, ParseFails
    <3>2. CASE LoseRace(q)
        BY <3>2 DEF LoseRace, KeyFree, IntakeInv, LookedUpHasKey, KeysName
    <3>3. QED
        BY <1>1, <3>1, <3>2
  <2>3. QED
      BY <2>1, <2>2, IntakeRefuse
<1>2. ASSUME NEW q \in Requests, Replay(q) PROVE IntakeInv'
  <2>1. sent[q].key \in Keys
      BY <1>2 DEF Replay, Refused, IntakeInv, TypeOK, Request
  <2>2. /\ keys[sent[q].key].batch \in Requests
        /\ keys[sent[q].key].batch \in batches
        /\ sent[keys[sent[q].key].batch].key = sent[q].key
        /\ sent[keys[sent[q].key].batch].body = keys[sent[q].key].body
        /\ keys[sent[q].key] = [body |-> keys[sent[q].key].body, batch |-> keys[sent[q].key].batch]
      BY <1>2, <2>1 DEF Replay, IntakeInv, KeysName, TypeOK, Stored
  <2>3. CASE keys[sent[q].key].body = sent[q].body
    <3>1. Reply(q, Ok(keys[sent[q].key].batch)) /\ UNCHANGED <<sent, keys, batches, heard>>
        BY <1>2, <2>3 DEF Replay, ReplayAnswer
    <3>2. /\ Ok(keys[sent[q].key].batch) = [code |-> 200, batch |-> keys[sent[q].key].batch]
          /\ Ok(keys[sent[q].key].batch) \in Given
        BY <2>2 DEF Ok, Given, IntakeInv, TypeOK
    <3>3. QED
        BY <2>2, <2>3, <3>1, <3>2, IntakeReply
  <2>4. CASE keys[sent[q].key].body # sent[q].body
    <3>1. Reply(q, Refuse(409)) /\ UNCHANGED <<sent, keys, batches, heard>>
        BY <1>2, <2>4 DEF Replay, ReplayAnswer
    <3>2. QED
        BY <2>2, <2>4, <3>1, IntakeRefuse
  <2>5. QED
      BY <2>3, <2>4
<1>3. ASSUME NEW q \in Requests, LookUp(q) PROVE IntakeInv'
  <2>1. sent[q].key \in Keys /\ sent[q].connector \in PushConnectors
      BY <1>3 DEF LookUp, Refused, IntakeInv, TypeOK, Request
  <2>2. QED
      BY <1>3, <2>1 DEF LookUp, IntakeInv, TypeOK, OneBatchPerKey, KeysName, LookedUpHasKey,
          AnswerNames, AnswersSettleKeys, Refused
<1>4. ASSUME NEW q \in Requests, Accept(q) PROVE IntakeInv'
    BY <1>4, IntakeAccept
<1>5. ASSUME NEW q \in Requests, Hear(q) PROVE IntakeInv'
    BY <1>5 DEF Hear, IntakeInv, TypeOK, OneBatchPerKey, KeysName, LookedUpHasKey, AnswerNames,
       AnswersSettleKeys, Refused
<1>6. ASSUME NEW p \in Processes, Die(p) PROVE IntakeInv'
    BY <1>6 DEF Die, IntakeInv, TypeOK, OneBatchPerKey, KeysName, LookedUpHasKey, AnswerNames,
       AnswersSettleKeys, Refused
<1>7. CASE UNCHANGED vars
    BY <1>7 DEF vars, IntakeInv, TypeOK, OneBatchPerKey, KeysName, LookedUpHasKey, AnswerNames,
       AnswersSettleKeys, Refused
<1>8. QED
    BY <1>1, <1>2, <1>3, <1>4, <1>5, <1>6, <1>7 DEF Next, Handle

\* Every reachable state is well typed.
THEOREM IntakeTypeCorrect == Spec => []TypeOK
<1>1. IntakeInv => TypeOK
    BY DEF IntakeInv
<1>2. QED
    BY <1>1, IntakeInit, IntakeNext, PTL DEF Spec

\* No race of requests, retries and processes queues a second batch under a key.
THEOREM OneBatchCorrect == Spec => []OneBatchPerKey
<1>1. IntakeInv => OneBatchPerKey
    BY DEF IntakeInv
<1>2. QED
    BY <1>1, IntakeInit, IntakeNext, PTL DEF Spec

\* A client that heard 200 has its events queued.
THEOREM AcknowledgedCorrect == Spec => []AcknowledgedIsQueued
<1>1. IntakeInv => AcknowledgedIsQueued
  <2> SUFFICES ASSUME IntakeInv, NEW q \in heard, answer[q].code = 200
               PROVE  /\ answer[q].batch \in batches
                      /\ sent[answer[q].batch].key = sent[q].key
                      /\ sent[answer[q].batch].body = sent[q].body
                      /\ (\A s \in Requests : sent[s].key = sent[q].key
                                              => sent[s].connector = sent[q].connector)
                            => sent[answer[q].batch].connector = sent[q].connector
      BY DEF AcknowledgedIsQueued
  <2>1. q \in Requests /\ batches \in SUBSET Requests
      BY DEF IntakeInv, TypeOK
  <2>2. QED
      BY <2>1 DEF IntakeInv, AnswerNames
<1>2. QED
    BY <1>1, IntakeInit, IntakeNext, PTL DEF Spec

\* Once a well-formed request was answered, whatever the answer, its key names one
\* queued batch, in accordance with the answer.
THEOREM AnswersSettleCorrect == Spec => []AnswersSettleKeys
<1>1. IntakeInv => AnswersSettleKeys
    BY DEF IntakeInv
<1>2. QED
    BY <1>1, IntakeInit, IntakeNext, PTL DEF Spec
=============================================================================
