------------------------------ MODULE RestPull ------------------------------
(***************************************************************************)
(* extract_rest_rows: one page request after the other, each retried on a  *)
(* transport error, 429 or 5xx, with a bearer token that is the secret     *)
(* itself or comes from an OAuth token endpoint.                           *)
(*                                                                         *)
(* The provider renews a token that is about to expire before a page and,  *)
(* when the page is answered 401, once more; the headers are computed      *)
(* before the retries of a request, so a token may expire between them.    *)
(* What the endpoint says of a token's life need not be true, and tokens   *)
(* may be revoked.  The pages do not change meanwhile; page i names page   *)
(* i + 1 as the next cursor, and the request sends it.  An answer may lack *)
(* the items of its page, or its cursor.                                   *)
(***************************************************************************)
EXTENDS Secrets, Sequences

CONSTANTS
    Pages,     \* number of pages
    Attempts,  \* stop_after_attempt
    Window,    \* _refresh_window_seconds
    Lifetimes, \* what a token's life may be, and may be said to be
    MaxTime    \* bound on time

ASSUME RestAssumption ==
    /\ {Pages, Attempts} \subseteq Nat \ {0}
    /\ {Window, MaxTime} \subseteq Nat
    /\ Lifetimes \subseteq Nat \ {0}

VARIABLES
    now,      \* time
    oauth,    \* source.oauth is set
    at,       \* where extract_rest_rows is
    page,     \* local: the page the cursor names
    rows,     \* local: the pages whose rows it holds
    token,    \* local: the provider's token
    resolved, \* local: the secret of a refresh, or of a source without OAuth
    tries,    \* local: failed attempts of the request under way
    forced,   \* local: the page was answered 401 before
    pageCalls, tokenCalls,  \* observations: requests for this page so far
    bare,     \* observation: the pages answered without items
    cut,      \* observation: the last answer lacked the cursor of its page
    steady    \* observation: since the refresh began the secret it would resolve is accepted

callVars == <<page, rows, token, resolved, tries, forced>>
answerVars == <<bare, cut>>
restVars == <<now, oauth, at, callVars, pageCalls, tokenCalls, answerVars, steady>>

NoToken == [until |-> 0, said |-> 0, for |-> 0]
Reasons == {"no_secret", "token_refused", "token_fault", "unauthorized", "page_fault"}

RestTypeOK ==
    /\ {now, tries, pageCalls, tokenCalls} \subseteq Nat
    /\ {oauth, forced, cut, steady} \subseteq BOOLEAN
    /\ bare \subseteq 1..Pages
    /\ at \in {"start", "headers", "resolve", "token", "page", "rows"} \cup Reasons
    /\ page \in 1..Pages + 1
    /\ rows \in Seq(1..Pages)
    /\ token \in [until : Nat, said : Nat, for : 0..Pages]
    /\ resolved \in Values \cup {NoValue, Garbage}

RestInit(auth) ==
    /\ now = 0 /\ oauth = auth /\ at = "start"
    /\ page = 1 /\ rows = <<>> /\ token = NoToken /\ resolved = NoValue
    /\ tries = 0 /\ forced = FALSE
    /\ pageCalls = 0 /\ tokenCalls = 0 /\ steady = FALSE
    /\ bare = {} /\ cut = FALSE

-----------------------------------------------------------------------------
\* Observed up to one call above what is allowed.
Counted(calls) == IF calls > 2 * Attempts THEN calls ELSE calls + 1

\* Time passes, also between the attempts of one request.
Tick ==
    /\ now < MaxTime
    /\ now' = now + 1
    /\ UNCHANGED <<secretVars, answerVars, oauth, at, callVars, pageCalls, tokenCalls,
                   steady>>

\* A user stores a secret, or the source changes the one it accepts.
SecretStep ==
    /\ \E v \in Values : UpsertSecret(v) \/ RotateSecret(v)
    /\ steady' = (steady /\ Resolvable' = {accepted'})
    /\ UNCHANGED <<answerVars, now, oauth, at, callVars, pageCalls, tokenCalls>>

\* Without OAuth the secret is the bearer token of every page.
StartPull ==
    /\ at = "start"
    /\ \E v \in IF oauth THEN {NoValue} ELSE Resolvable :
         /\ resolved' = v
         /\ at' = IF oauth \/ v # NoValue THEN "headers" ELSE "no_secret"
    /\ UNCHANGED <<secretVars, answerVars, now, oauth, page, rows, token, tries, forced,
                   pageCalls, tokenCalls, steady>>

NeedsRefresh == token = NoToken \/ token.said <= now + Window

\* Mutant: force_refresh is not looked at.
RefreshFirstUnforced == NeedsRefresh

\* authorization_header.
RefreshFirst == forced \/ NeedsRefresh

\* _request_headers.
RequestHeaders ==
    /\ at = "headers"
    /\ at' = IF oauth /\ RefreshFirst THEN "resolve" ELSE "page"
    /\ UNCHANGED <<secretVars, answerVars, now, oauth, callVars, pageCalls, tokenCalls,
                   steady>>

\* Mutant: the secret is resolved once for all pages.
RefreshSecretsOnce == IF resolved # NoValue THEN {resolved} ELSE Resolvable

\* Every refresh resolves the secret again.
RefreshSecrets == Resolvable

ResolveSecret ==
    /\ at = "resolve"
    /\ \E v \in RefreshSecrets :
         /\ resolved' = v
         /\ at' = IF v = NoValue THEN "no_secret" ELSE "token"
    /\ steady' = (Resolvable = {accepted})
    /\ UNCHANGED <<secretVars, answerVars, now, oauth, page, rows, token, tries, forced,
                   pageCalls, tokenCalls>>

\* The endpoint issues a token; an answer without a sensible expires_in counts as
\* some life, too.
TokenIssued ==
    /\ at = "token"
    /\ resolved = accepted
    /\ \E life, said \in Lifetimes :
         token' = [until |-> now + life, said |-> now + said, for |-> page]
    /\ at' = "page" /\ tries' = 0 /\ tokenCalls' = Counted(tokenCalls)
    /\ UNCHANGED <<secretVars, answerVars, now, oauth, page, rows, resolved, forced,
                   pageCalls, steady>>

\* It refuses the secret.
TokenRefused ==
    /\ at = "token"
    /\ resolved # accepted
    /\ at' = "token_refused" /\ tokenCalls' = Counted(tokenCalls)
    /\ UNCHANGED <<secretVars, answerVars, now, oauth, callVars, pageCalls, steady>>

\* Mutant: the attempts are counted from the last answer of any kind.
TriesAfterReset == IF tries + 1 < Attempts THEN tries + 1 ELSE 0

\* _request_with_retry: how many attempts have failed; Attempts of them raise.
TriesAfter == tries + 1

TokenFails ==
    /\ at = "token"
    /\ tries' = TriesAfter /\ tokenCalls' = Counted(tokenCalls)
    /\ at' = IF tries' = Attempts THEN "token_fault" ELSE "token"
    /\ UNCHANGED <<secretVars, answerVars, now, oauth, page, rows, token, resolved,
                   forced, pageCalls, steady>>

\* The server revokes the provider's token.
RevokeToken ==
    /\ token.until > now
    /\ token' = [token EXCEPT !.until = now]
    /\ UNCHANGED <<secretVars, answerVars, now, oauth, at, page, rows, resolved, tries,
                   forced,
                   pageCalls, tokenCalls, steady>>

Authorized == IF oauth THEN token.until > now ELSE resolved = accepted

\* Mutant: a cursor that is null is followed.
CursorGivenNull == page <= Pages

\* The page names a next cursor.
CursorGiven == page < Pages

\* 200: the rows it has under items, and the next cursor if it names one; the
\* provider goes with the last page.  An object may lack either, a bare list has no
\* cursor: both are read like an answer that has no rows, or no next page.
PageAnswered ==
    /\ at = "page"
    /\ Authorized
    /\ \E items \in BOOLEAN, next \in {FALSE, CursorGiven} :
         /\ rows' = IF items THEN Append(rows, page) ELSE rows
         /\ bare' = IF items THEN bare ELSE bare \cup {page}
         /\ cut' = (CursorGiven /\ ~next)
         /\ IF next THEN at' = "headers" /\ UNCHANGED <<token, resolved, steady>>
            ELSE at' = "rows" /\ token' = NoToken /\ resolved' = NoValue /\ steady' = FALSE
    /\ page' = page + 1
    /\ tries' = 0 /\ forced' = FALSE /\ pageCalls' = 0 /\ tokenCalls' = 0
    /\ UNCHANGED <<secretVars, now, oauth>>

\* Mutant: every 401 is answered with another refresh.
RefreshAgainAlways == oauth

\* The first 401 of a page is answered with a refresh.
RefreshAgain == oauth /\ ~forced

\* 401.
PageRefused ==
    /\ at = "page"
    /\ ~Authorized
    /\ pageCalls' = Counted(pageCalls) /\ tries' = 0
    /\ forced' = RefreshAgain
    /\ at' = IF RefreshAgain THEN "headers" ELSE "unauthorized"
    /\ UNCHANGED <<secretVars, answerVars, now, oauth, page, rows, token, resolved,
                   tokenCalls, steady>>

\* Another error: of those that are retried, the last one raises.
PageFails ==
    /\ at = "page"
    /\ tries' = TriesAfter /\ pageCalls' = Counted(pageCalls)
    /\ at' = IF tries' = Attempts THEN "page_fault" ELSE "page"
    /\ UNCHANGED <<secretVars, answerVars, now, oauth, page, rows, token, resolved,
                   forced, tokenCalls, steady>>

\* 4xx that is not 401, no JSON, neither a list nor an object, items that are no
\* list; of the token endpoint, an answer without access_token: raised at once.
AnswerUnusable ==
    /\ at \in {"token", "page"}
    /\ at' = IF at = "token" THEN "token_fault" ELSE "page_fault"
    /\ UNCHANGED <<secretVars, answerVars, now, oauth, callVars, pageCalls, tokenCalls,
                   steady>>

RestStep ==
    \/ StartPull \/ RequestHeaders \/ ResolveSecret
    \/ TokenIssued \/ TokenRefused \/ TokenFails
    \/ PageAnswered \/ PageRefused \/ PageFails \/ AnswerUnusable

RestNext == Tick \/ SecretStep \/ RevokeToken \/ RestStep

-----------------------------------------------------------------------------
(* Properties.                                                             *)

\* No page costs more than two requests and two refreshes, of Attempts each, however
\* short-lived the tokens, whatever is revoked and whenever the endpoints fail: a
\* 401 is answered with a refresh once.
RequestsAreBounded == pageCalls <= 2 * Attempts /\ tokenCalls <= 2 * Attempts

\* A secret that was stored and is accepted is never refused, also when it was
\* replaced since the first page: each refresh resolves the secret anew.
RotationIsPickedUp == at = "token_refused" => ~steady

\* An OAuth source that answers 401 for good does so to a token that was issued for
\* the very page, never to one of an earlier page: a token that expired or was
\* revoked between two pages, or whose life the endpoint misstated, is renewed.
RefusedWithOwnToken == at = "unauthorized" /\ oauth => token.for = page
=============================================================================
