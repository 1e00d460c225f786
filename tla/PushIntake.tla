----------------------------- MODULE PushIntake -----------------------------
(***************************************************************************)
(* The push endpoint, POST /v1/connectors/{id}/events, and the two tables  *)
(* it fills: idempotency_keys and push_batches.                            *)
(*                                                                         *)
(* A handler looks its Idempotency-Key up, and, when it finds none, inserts *)
(* the batch, its events and the key in one commit.  Between the two it    *)
(* awaits nothing, so the handlers of one API process do not interleave    *)
(* there; the handlers of two processes (a rolling update, a second        *)
(* replica) do, and the primary key of idempotency_keys decides.           *)
(*                                                                         *)
(* A client that gets no answer, or a 500, may send the request again:     *)
(* that is another request with the same connector, key and body.          *)
(***************************************************************************)
EXTENDS Naturals

CONSTANTS
    Requests,        \* requests sent; a batch is named after the one that made it
    Keys,            \* Idempotency-Key header values
    NoKey,           \* the header is missing
    Bodies,          \* request bodies; different bodies have different hashes
    Malformed,       \* the bodies that do not decode
    Scalars,         \* the bodies that decode to neither an object nor a list
    Connectors,      \* connectors that requests name
    Configured,      \* those with a configuration file
    PushConnectors,  \* those of mode rest_push
    Processes        \* API processes

ASSUME IntakeAssumption ==
    /\ NoKey \notin Keys /\ NoKey \notin Requests
    /\ NoKey \notin Bodies
    /\ Malformed \cup Scalars \subseteq Bodies /\ Malformed \cap Scalars = {}
    /\ PushConnectors \subseteq Configured /\ Configured \subseteq Connectors

VARIABLES
    sent,      \* what clients send: connector, key, body, and the process reached
    keys,      \* table idempotency_keys: body hashed and batch answered, per key
    batches,   \* table push_batches with its events: the requests that made one
    phase,     \* where the handler of each request is
    answer,    \* status code, and batch of a 200, per request
    heard      \* requests whose client received the answer

vars == <<sent, keys, batches, phase, answer, heard>>

Stored == [body : Bodies, batch : Requests]
NoEntry == [body |-> NoKey, batch |-> NoKey]

Unanswered == [code |-> 0, batch |-> NoKey]
Ok(b)      == [code |-> 200, batch |-> b]
Refuse(c)  == [code |-> c, batch |-> NoKey]

Request == [connector : Connectors, key : Keys \cup {NoKey}, body : Bodies,
            process : Processes]

TypeOK ==
    /\ sent \in [Requests -> Request]
    /\ keys \in [Keys -> Stored \cup {NoEntry}]
    /\ batches \in SUBSET Requests
    /\ phase \in [Requests -> {"new", "looked_up", "answered", "lost"}]
    /\ answer \in [Requests -> {Unanswered} \cup {Ok(b) : b \in Requests}
                               \cup {Refuse(c) : c \in {400, 404, 409, 500}}]
    /\ heard \in SUBSET Requests

Init ==
    /\ sent \in [Requests -> Request]
    /\ keys = [k \in Keys |-> NoEntry]
    /\ batches = {}
    /\ phase = [q \in Requests |-> "new"]
    /\ answer = [q \in Requests |-> Unanswered]
    /\ heard = {}

\* The event loop of a process runs one handler at a time between lookup and commit.
Busy(p) == \E q \in Requests : phase[q] = "looked_up" /\ sent[q].process = p

Reply(q, a) ==
    /\ phase' = [phase EXCEPT ![q] = "answered"]
    /\ answer' = [answer EXCEPT ![q] = a]

\* No Idempotency-Key header, or a connector that is unknown or of another mode.
Refused(q) == sent[q].key = NoKey \/ sent[q].connector \notin PushConnectors

\* The header is looked at first, then the connector files.
Refusal(q) ==
    IF sent[q].key # NoKey /\ sent[q].connector \notin Configured THEN Refuse(404)
                                                                 ELSE Refuse(400)

RefuseRequest(q) ==
    /\ phase[q] = "new" /\ ~Busy(sent[q].process)
    /\ Refused(q)
    /\ Reply(q, Refusal(q))
    /\ UNCHANGED <<sent, keys, batches, heard>>

\* Mutant: the stored answer is given whatever the body was.
ReplayAnswerUnhashed(q) == Ok(keys[sent[q].key].batch)

\* The key is known: the stored answer for the same body, 409 for another one.
ReplayAnswer(q) ==
    IF keys[sent[q].key].body = sent[q].body THEN Ok(keys[sent[q].key].batch) ELSE Refuse(409)

\* Mutant: the hash stored with the key is that of the latest request.
ReplayRefreshing(q) ==
    /\ phase[q] = "new" /\ ~Busy(sent[q].process)
    /\ ~Refused(q)
    /\ keys[sent[q].key] # NoEntry
    /\ keys' = [keys EXCEPT ![sent[q].key].body = sent[q].body]
    /\ Reply(q, ReplayAnswer(q))
    /\ UNCHANGED <<sent, batches, heard>>

Replay(q) ==
    /\ phase[q] = "new" /\ ~Busy(sent[q].process)
    /\ ~Refused(q)
    /\ keys[sent[q].key] # NoEntry
    /\ Reply(q, ReplayAnswer(q))
    /\ UNCHANGED <<sent, keys, batches, heard>>

\* The key is unknown: the handler goes on to parse the body.
LookUp(q) ==
    /\ phase[q] = "new" /\ ~Busy(sent[q].process)
    /\ ~Refused(q)
    /\ keys[sent[q].key] = NoEntry
    /\ phase' = [phase EXCEPT ![q] = "looked_up"]
    /\ UNCHANGED <<sent, keys, batches, answer, heard>>

\* _parse_events accepts the body.
Parses(body) == body \notin Malformed \cup Scalars

\* json.loads or the decoding raises, or _parse_events refuses what was decoded.
ParseFails(q) ==
    /\ phase[q] = "looked_up"
    /\ ~Parses(sent[q].body)
    /\ Reply(q, Refuse(IF sent[q].body \in Scalars THEN 400 ELSE 500))
    /\ UNCHANGED <<sent, keys, batches, heard>>

\* Mutant: the key column is not unique.
KeyFreeAlways(k) == TRUE

\* The unique primary key, checked by the insert.
KeyFree(k) == keys[k] = NoEntry

\* Events that fail validation are counted as rejected; the batch is made even
\* when none is left.
BatchesAfter(q) == batches \cup {q}

\* Mutant: the answer is stored before the batch has its id.
AcceptUnnamed(q) ==
    /\ phase[q] = "looked_up"
    /\ Parses(sent[q].body)
    /\ KeyFree(sent[q].key)
    /\ keys' = [keys EXCEPT ![sent[q].key] = [body |-> sent[q].body, batch |-> NoKey]]
    /\ batches' = BatchesAfter(q)
    /\ Reply(q, Ok(q))
    /\ UNCHANGED <<sent, heard>>

\* One commit for the batch, its events and the key.
Accept(q) ==
    /\ phase[q] = "looked_up"
    /\ Parses(sent[q].body)
    /\ KeyFree(sent[q].key)
    /\ keys' = [keys EXCEPT ![sent[q].key] = [body |-> sent[q].body, batch |-> q]]
    /\ batches' = BatchesAfter(q)
    /\ Reply(q, Ok(q))
    /\ UNCHANGED <<sent, heard>>

\* The insert of the key raises IntegrityError: all of it rolls back.
LoseRace(q) ==
    /\ phase[q] = "looked_up"
    /\ Parses(sent[q].body)
    /\ ~KeyFree(sent[q].key)
    /\ Reply(q, Refuse(500))
    /\ UNCHANGED <<sent, keys, batches, heard>>

\* The process dies, or its commit fails; a commit before this moment stays.
Die(p) ==
    /\ phase' = [q \in Requests |-> IF phase[q] = "looked_up" /\ sent[q].process = p
                                    THEN "lost" ELSE phase[q]]
    /\ phase' # phase
    /\ UNCHANGED <<sent, keys, batches, answer, heard>>

\* The answer reaches its client; it may as well never do.
Hear(q) ==
    /\ phase[q] = "answered" /\ q \notin heard
    /\ heard' = heard \cup {q}
    /\ UNCHANGED <<sent, keys, batches, phase, answer>>

Handle(q) ==
    RefuseRequest(q) \/ Replay(q) \/ LookUp(q) \/ ParseFails(q) \/ Accept(q) \/ LoseRace(q)

Next ==
    \/ \E q \in Requests : Handle(q) \/ Hear(q)
    \/ \E p \in Processes : Die(p)

Spec == Init /\ [][Next]_vars

-----------------------------------------------------------------------------
(* Properties.                                                             *)

\* However many requests, retries and processes race on a key, at most one batch
\* is queued for it, and it is the one the key names.
OneBatchPerKey ==
    \A b \in batches : keys[sent[b].key] = [body |-> sent[b].body, batch |-> b]

\* A client that heard 200 has its events queued: the batch of the answer exists
\* and was made from the same body under the same key; for the same connector
\* too, provided no client uses the key for another one (keys are global).
AcknowledgedIsQueued ==
    \A q \in heard : answer[q].code = 200 =>
        /\ answer[q].batch \in batches
        /\ sent[answer[q].batch].key = sent[q].key
        /\ sent[answer[q].batch].body = sent[q].body
        /\ (\A s \in Requests : sent[s].key = sent[q].key
                                => sent[s].connector = sent[q].connector)
              => sent[answer[q].batch].connector = sent[q].connector

\* A well-formed request that was answered, by a 200, a 409 or a 500, leaves its key
\* settled: it names a queued batch, the one of the 200, made from the same body; for a
\* 409 one made from another body; for a 500 one or the other.  However requests race
\* and whatever died between them, a retry cannot make a second batch, and a client is
\* told of a conflict only with a batch that exists.
AnswersSettleKeys ==
    \A q \in Requests :
        phase[q] = "answered" /\ ~Refused(q) /\ Parses(sent[q].body) =>
            LET entry == keys[sent[q].key]
            IN  /\ entry.batch \in batches
                /\ answer[q].code = 200 => entry = [body |-> sent[q].body, batch |-> answer[q].batch]
                /\ answer[q].code = 409 => entry.body # sent[q].body

\* "Same key + same payload: accepted replay": two well-formed requests to the
\* same connector that have heard their answers both heard the same 200.
AcceptedReplay ==
    \A q, s \in heard :
        /\ sent[q] = [sent[s] EXCEPT !.process = sent[q].process]
        /\ ~Refused(q) /\ Parses(sent[q].body)
        /\ answer[q].code = 200
        => answer[s] = answer[q]
=============================================================================
