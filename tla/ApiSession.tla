----------------------------- MODULE ApiSession -----------------------------
(***************************************************************************)
(* The sessions with the OpenStack API (apiclients/): clients, each with a *)
(* SessionManager of its own, that ask one thing after another.  A call    *)
(* finds the service's URL in the catalog, asks for page after page and    *)
(* authenticates where it lacks a token, a catalog or a valid token.       *)
(*                                                                         *)
(* Every HTTP request is sent at once; its time limit starts when it gets  *)
(* a place in the semaphore that the sessions of one auth_url share.  The  *)
(* body of an answer is read after the place was given back.  The server,  *)
(* the network and the expiry of tokens are external.                      *)
(***************************************************************************)
EXTENDS Integers, Sequences, FiniteSets, SequencesExt

CONSTANTS
    Clients,       \* the clients of one auth_url
    MAX_PARALLEL,  \* places of the semaphore
    Version,       \* the identity API's version, "v2" or "v3"
    VersionInUrl,  \* auth_url ends with /v2.0
    Pages,         \* pages of an answer
    MaxCalls,      \* client -> bound on its calls
    MaxFailures,   \* bound on answers that are no success, and broken connections
    MaxExpiries    \* bound on tokens that expire

ASSUME ConstantsAssumption ==
    /\ MAX_PARALLEL \in Nat \ {0} /\ Pages \in Nat \ {0}
    /\ Version \in {"v2", "v3"} /\ VersionInUrl \in BOOLEAN
    /\ MaxCalls \in [Clients -> Nat] /\ MaxFailures \in Nat /\ MaxExpiries \in Nat

VARIABLES
    \* of a call
    stage,      \* the request under way: "version", "tokens", "first" or "retry"; or "idle"
    purpose,    \* what an authentication is for: "tenants", "url", "first", "retry"
    request,    \* "none", "open", or what came of it: "headers" or "failed"
    sent,       \* token in the headers of the request
    reply,      \* what the body will say
    page,       \* pages read so far
    interface,  \* which of the service's URLs the call uses
    refused,    \* token of the call's first try that was refused (history)
    answer,     \* how the last call ended
    calls,      \* calls made
    \* of a session
    token_id, catalog, api_version, public_only,
    \* shared
    holders,    \* clients with a place in the semaphore
    waiting,    \* those that wait for one
    \* of the server
    issued,     \* tokens issued to a client
    valid,      \* those that are valid
    failures, expiries

call == <<stage, purpose, request, sent, reply, page, interface, refused, answer, calls>>
session == <<token_id, catalog, api_version, public_only>>
semaphore == <<holders, waiting>>
server == <<issued, valid, failures, expiries>>
vars == <<stage, purpose, request, sent, reply, page, interface, refused, answer, calls,
          token_id, catalog, api_version, public_only, holders, waiting,
          issued, valid, failures, expiries>>

None == 0

-----------------------------------------------------------------------------
(* A request: GET_request and POST_request. *)

\* A mutant: the retry has the headers of the first try.
Send_OldHeaders(c, st, why, token) ==
    /\ stage' = [stage EXCEPT ![c] = st]
    /\ purpose' = [purpose EXCEPT ![c] = why]
    /\ request' = [request EXCEPT ![c] = "open"]
    /\ sent' = [sent EXCEPT ![c] = IF st = "retry" THEN refused[c] ELSE token]
    /\ IF Cardinality(holders) < MAX_PARALLEL
       THEN holders' = holders \cup {c} /\ UNCHANGED waiting
       ELSE waiting' = Append(waiting, c) /\ UNCHANGED holders

\* Sent at once, and timed from now on if there is a place.
Send(c, st, why, token) ==
    /\ stage' = [stage EXCEPT ![c] = st]
    /\ purpose' = [purpose EXCEPT ![c] = why]
    /\ request' = [request EXCEPT ![c] = "open"]
    /\ sent' = [sent EXCEPT ![c] = token]
    /\ IF Cardinality(holders) < MAX_PARALLEL
       THEN holders' = holders \cup {c} /\ UNCHANGED waiting
       ELSE waiting' = Append(waiting, c) /\ UNCHANGED holders

\* A mutant: the place goes to the first that waits, answered or not.
Release_ToFirst(c, requests) ==
    IF waiting = <<>> THEN holders' = holders \ {c} /\ waiting' = <<>>
    ELSE holders' = (holders \ {c}) \cup {Head(waiting)} /\ waiting' = Tail(waiting)

\* The place of c goes to the first that waits for an answer: those before
\* it, whose requests have come to something, need it no longer than it takes
\* to hand it on.
Release(c, requests) ==
    LET open == {i \in 1..Len(waiting) : requests[waiting[i]] = "open"}
    IN  \/ open = {} /\ holders' = holders \ {c} /\ waiting' = <<>>
        \/ \E next \in open :
              /\ \A i \in open : next <= i
              /\ holders' = (holders \ {c}) \cup {waiting[next]}
              /\ waiting' = SubSeq(waiting, next + 1, Len(waiting))

\* A request comes to something; a client that waits goes on waiting.
Settle(c, what) ==
    /\ request' = [request EXCEPT ![c] = what]
    /\ IF c \in holders THEN Release(c, request') ELSE UNCHANGED semaphore

\* The response of the server, which issues the token it answers with.
Respond(c, what) ==
    /\ request[c] = "open"
    /\ reply' = [reply EXCEPT ![c] = what]
    /\ LET granted == stage[c] = "tokens" /\ what \in {"ok", "uncataloged"}
           new     == issued[c] + 1
       IN  /\ issued' = IF granted THEN [issued EXCEPT ![c] = new] ELSE issued
           /\ valid' = IF granted THEN [valid EXCEPT ![c] = @ \cup {new}] ELSE valid
    /\ Settle(c, "headers")
    /\ UNCHANGED <<stage, purpose, sent, page, interface, refused, answer, calls, session, expiries>>

Authorized(c) == stage[c] \in {"version", "tokens"} \/ sent[c] \in valid[c]

Served(c) ==
    /\ Respond(c, IF Authorized(c) THEN "ok" ELSE "unauthorized")
    /\ UNCHANGED failures

\* "bare" is an answer without a token, "uncataloged" one without a catalog.
Denied(c) ==
    /\ failures < MaxFailures
    /\ failures' = failures + 1
    /\ \E what \in {"error"} \cup
            (IF stage[c] = "tokens" THEN {"unauthorized", "bare", "uncataloged"} ELSE {}) :
          Respond(c, what)

\* A refused, broken or timed out connection, wherever the request stands.
Broken(c) ==
    /\ request[c] = "open" /\ failures < MaxFailures
    /\ failures' = failures + 1
    /\ Settle(c, "failed")
    /\ UNCHANGED <<stage, purpose, sent, reply, page, interface, refused, answer, calls, session,
                   issued, valid, expiries>>

\* A mutant: a cancelled request does not give its place back.
Timeout_KeepsPlace(c) ==
    /\ c \in holders /\ request[c] = "open"
    /\ request' = [request EXCEPT ![c] = "failed"]
    /\ UNCHANGED <<stage, purpose, sent, reply, page, interface, refused, answer, calls, session,
                   semaphore, server>>

\* add_timeout: the timer cancels the request; whatever comes of it is dropped.
Timeout(c) ==
    /\ c \in holders /\ request[c] = "open"
    /\ Settle(c, "failed")
    /\ UNCHANGED <<stage, purpose, sent, reply, page, interface, refused, answer, calls, session, server>>

-----------------------------------------------------------------------------
(* A call: get_json and what it calls. *)

\* _detect_api_version asks for the version unless the URL says it.
authenticate(c, why) ==
    IF VersionInUrl THEN Send(c, "tokens", why, None) ELSE Send(c, "version", why, None)

authenticated_GET_request(c, token) ==
    IF token = None THEN authenticate(c, "first") ELSE Send(c, "first", "first", token)

\* The URL is looked up in the catalog, an empty catalog asked for first.
get_json(c, token, cataloged) ==
    IF cataloged THEN authenticated_GET_request(c, token) ELSE authenticate(c, "url")

End(c, what) ==
    /\ stage' = [stage EXCEPT ![c] = "idle"]
    /\ purpose' = [purpose EXCEPT ![c] = "none"]
    /\ request' = [request EXCEPT ![c] = "none"]
    /\ sent' = [sent EXCEPT ![c] = None]
    /\ page' = [page EXCEPT ![c] = 0]
    /\ interface' = [interface EXCEPT ![c] = "service"]
    /\ answer' = [answer EXCEPT ![c] = what]
    /\ UNCHANGED semaphore

\* A new call, of one of the services or KeystoneClient.tenants: that asks for
\* the API's version before anything else, and the admin interface of v2.
Ask(c) ==
    /\ stage[c] = "idle" /\ calls[c] < MaxCalls[c]
    /\ calls' = [calls EXCEPT ![c] = @ + 1]
    /\ answer' = [answer EXCEPT ![c] = "none"]
    /\ \/ /\ interface' = [interface EXCEPT ![c] = "service"]
          /\ get_json(c, token_id[c], catalog[c])
       \/ LET admin == Version = "v2" /\ ~public_only[c] IN
          /\ interface' = [interface EXCEPT ![c] = IF admin THEN "admin" ELSE "public"]
          /\ IF api_version[c] \/ VersionInUrl THEN get_json(c, token_id[c], catalog[c])
             ELSE Send(c, "version", "tenants", None)
    /\ UNCHANGED <<reply, page, refused, session, server>>

\* An exception ends the call, but for that of the admin interface: tenants()
\* asks the public one, and never the admin one again.
Raise(c, what, token) ==
    IF interface[c] = "admin" /\ purpose[c] # "tenants"
    THEN /\ public_only' = [public_only EXCEPT ![c] = TRUE]
         /\ interface' = [interface EXCEPT ![c] = "public"]
         /\ page' = [page EXCEPT ![c] = 0]
         /\ get_json(c, token, catalog[c])
         /\ UNCHANGED answer
    ELSE End(c, what) /\ UNCHANGED public_only

\* The request, through the semaphore, failed.
Through(c) == c \notin holders /\ ~Contains(waiting, c)

Failed(c) ==
    /\ request[c] = "failed" /\ Through(c)
    /\ Raise(c, "failed", token_id[c])
    /\ refused' = [refused EXCEPT ![c] = None]
    /\ UNCHANGED <<reply, calls, token_id, catalog, api_version, server>>

\* The body of an answer was read; handle_error_response() raised nothing.
VersionRead(c) ==
    /\ stage[c] = "version" /\ reply[c] = "ok"
    /\ api_version' = [api_version EXCEPT ![c] = TRUE]
    /\ IF purpose[c] = "tenants" THEN get_json(c, token_id[c], catalog[c])
       ELSE Send(c, "tokens", purpose[c], None)
    /\ UNCHANGED <<token_id, catalog, public_only, page, interface, refused, answer>>

\* Without a catalog a call of a service has no URL to ask; that of the
\* identity API's public interface has auth_url.
TokenRead(c) ==
    /\ stage[c] = "tokens" /\ reply[c] \in {"ok", "uncataloged"}
    /\ token_id' = [token_id EXCEPT ![c] = issued[c]]
    /\ catalog' = [catalog EXCEPT ![c] = reply[c] = "ok"]
    /\ IF purpose[c] = "url" /\ reply[c] = "uncataloged" /\ interface[c] # "public"
       THEN End(c, "empty")
       ELSE /\ LET next == IF purpose[c] = "retry" THEN "retry" ELSE "first"
               IN  Send(c, next, next, issued[c])
            /\ UNCHANGED <<answer, page, interface>>
    /\ UNCHANGED <<api_version, public_only, refused>>

PageRead(c) ==
    /\ stage[c] \in {"first", "retry"} /\ reply[c] = "ok"
    /\ IF page[c] + 1 = Pages THEN End(c, "ok")
       ELSE /\ page' = [page EXCEPT ![c] = @ + 1]
            /\ authenticated_GET_request(c, token_id[c])
            /\ UNCHANGED <<answer, interface>>
    /\ refused' = [refused EXCEPT ![c] = None]
    /\ UNCHANGED session

\* The first refusal of a page is answered by authenticating again.
Refused(c) ==
    /\ stage[c] = "first" /\ reply[c] = "unauthorized"
    /\ refused' = [refused EXCEPT ![c] = sent[c]]
    /\ authenticate(c, "retry")
    /\ UNCHANGED <<session, page, interface, answer>>

\* An answer without a token leaves the session without one.
ErrorRead(c) ==
    /\ \/ reply[c] \in {"error", "bare"}
       \/ reply[c] = "unauthorized" /\ stage[c] # "first"
    /\ LET token == IF reply[c] = "bare" THEN None ELSE token_id[c]
       IN  /\ token_id' = [token_id EXCEPT ![c] = token]
           /\ Raise(c, IF reply[c] = "unauthorized" THEN "unauthorized" ELSE "failed", token)
    /\ refused' = [refused EXCEPT ![c] = None]
    /\ UNCHANGED <<catalog, api_version>>

\* readBody(), without a time limit, and what the call does next.
Body(c) ==
    /\ request[c] = "headers" /\ Through(c)
    /\ \/ VersionRead(c) \/ TokenRead(c) \/ PageRead(c) \/ Refused(c) \/ ErrorRead(c)
    /\ reply' = [reply EXCEPT ![c] = "none"]
    /\ UNCHANGED <<calls, server>>

Expire(c) ==
    /\ expiries < MaxExpiries
    /\ \E t \in valid[c] : valid' = [valid EXCEPT ![c] = @ \ {t}]
    /\ expiries' = expiries + 1
    /\ UNCHANGED <<call, session, semaphore, issued, failures>>

Init ==
    /\ stage = [c \in Clients |-> "idle"]
    /\ purpose = [c \in Clients |-> "none"]
    /\ request = [c \in Clients |-> "none"]
    /\ sent = [c \in Clients |-> None]
    /\ reply = [c \in Clients |-> "none"]
    /\ page = [c \in Clients |-> 0]
    /\ interface = [c \in Clients |-> "service"]
    /\ refused = [c \in Clients |-> None]
    /\ answer = [c \in Clients |-> "none"]
    /\ calls = [c \in Clients |-> 0]
    /\ token_id = [c \in Clients |-> None]
    /\ catalog = [c \in Clients |-> FALSE]
    /\ api_version = [c \in Clients |-> FALSE]
    /\ public_only = [c \in Clients |-> FALSE]
    /\ holders = {} /\ waiting = <<>>
    /\ issued = [c \in Clients |-> 0]
    /\ valid = [c \in Clients |-> {}]
    /\ failures = 0 /\ expiries = 0

Next == \E c \in Clients :
    Ask(c) \/ Served(c) \/ Denied(c) \/ Broken(c) \/ Timeout(c)
    \/ Failed(c) \/ Body(c) \/ Expire(c)

\* The reactor runs timers and callbacks; the rest of an answer follows its
\* headers.  The server need not answer.
Fairness == \A c \in Clients : WF_vars(Timeout(c)) /\ WF_vars(Failed(c)) /\ WF_vars(Body(c))

Spec == Init /\ [][Next]_vars /\ Fairness

-----------------------------------------------------------------------------
TypeOK ==
    /\ stage \in [Clients -> {"idle", "version", "tokens", "first", "retry"}]
    /\ purpose \in [Clients -> {"none", "tenants", "url", "first", "retry"}]
    /\ request \in [Clients -> {"none", "open", "headers", "failed"}]
    /\ sent \in [Clients -> Nat]
    /\ reply \in [Clients -> {"none", "ok", "unauthorized", "error", "bare", "uncataloged"}]
    /\ page \in [Clients -> Nat]
    /\ interface \in [Clients -> {"service", "admin", "public"}]
    /\ refused \in [Clients -> Nat]
    /\ answer \in [Clients -> {"none", "ok", "empty", "unauthorized", "failed"}]
    /\ calls \in [Clients -> Nat]
    /\ token_id \in [Clients -> Nat]
    /\ catalog \in [Clients -> BOOLEAN] /\ api_version \in [Clients -> BOOLEAN]
    /\ public_only \in [Clients -> BOOLEAN]
    /\ holders \in SUBSET Clients /\ waiting \in Seq(Clients)
    /\ issued \in [Clients -> Nat] /\ valid \in [Clients -> SUBSET Nat]
    /\ failures \in Nat /\ expiries \in Nat

\* No place of the semaphore is lost or held for nothing: whoever has one
\* has an open request, and as long as someone waits all places are taken,
\* whichever way requests end (answer, timeout, broken connection) and in
\* whichever order, before or after they got a place.
NoPlaceLost ==
    /\ \A c \in holders : request[c] = "open"
    /\ waiting # <<>> => Cardinality(holders) = MAX_PARALLEL

\* The expiry of a token goes unnoticed: a call whose retry was refused with
\* 401 had a token at its first try and another, issued to it after that was
\* refused, and both have expired. (A login that /tokens itself refuses is not
\* about expiry, and not in this.)
ExpiryIsInvisible ==
    [][\A c \in Clients :
        stage[c] = "retry" /\ answer'[c] = "unauthorized" /\ answer[c] # "unauthorized" =>
            /\ refused[c] < sent[c]
            /\ {refused[c], sent[c]} \cap valid[c] = {}]_vars

\* Every call ends, although servers stay silent and tokens expire: by its
\* answer, or by the timers of the requests that were sent before it.
AllAnswered == \A c \in Clients : stage[c] # "idle" ~> stage[c] = "idle"
=============================================================================
