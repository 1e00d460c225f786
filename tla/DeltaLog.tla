------------------------------ MODULE DeltaLog ------------------------------
(***************************************************************************)
(* What a rest_push connector promises: "Push events represent explicit    *)
(* deltas" (docs/concepts/idempotency-and-deltas.mdx).  Batches of UPSERT   *)
(* and DELETE events are accepted one after the other, each is applied      *)
(* once, whole, in the order of acceptance, and the mirror shows what the   *)
(* applied ones left.                                                       *)
(*                                                                         *)
(* Two events of one batch about one document are not ordered: the code     *)
(* reads the events of a batch without ORDER BY and splits them into        *)
(* upserts and deletes, so either may win.                                  *)
(***************************************************************************)
EXTENDS Naturals, Sequences

CONSTANTS
    Docs,      \* document ids
    Versions,  \* contents a document may have
    Absent,    \* the document is not there; in an event, a DELETE
    Batches,   \* batch ids
    Payloads   \* sequences of events [doc, ver] a batch may carry

VARIABLES
    log,       \* batches accepted, oldest first
    events,    \* the payload of each
    applied,   \* batches applied
    mirror     \* content per document

vars == <<log, events, applied, mirror>>

Contents == Versions \cup {Absent}

\* What an event of payload es about d may leave.
Given(es, d) == {v \in Contents : \E i \in DOMAIN es : es[i] = [doc |-> d, ver |-> v]}

Init ==
    /\ log = <<>>
    /\ events = [b \in Batches |-> <<>>]
    /\ applied = {}
    /\ mirror = [d \in Docs |-> Absent]

Accept(b, es) ==
    /\ \A i \in DOMAIN log : log[i] # b
    /\ log' = Append(log, b)
    /\ events' = [events EXCEPT ![b] = es]
    /\ UNCHANGED <<applied, mirror>>

Apply(b) ==
    /\ b \notin applied
    /\ \E i \in DOMAIN log : log[i] = b /\ \A j \in 1..(i - 1) : log[j] \in applied
    /\ applied' = applied \cup {b}
    /\ mirror' \in [Docs -> Contents]
    /\ \A d \in Docs : IF Given(events[b], d) = {} THEN mirror'[d] = mirror[d]
                                                  ELSE mirror'[d] \in Given(events[b], d)
    /\ UNCHANGED <<log, events>>

Next ==
    \/ \E b \in Batches, es \in Payloads : Accept(b, es)
    \/ \E b \in Batches : Apply(b)

Spec == Init /\ [][Next]_vars
=============================================================================
