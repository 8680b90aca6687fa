------------------------- MODULE ApiSession_proofs -------------------------
(***************************************************************************)
(* Proofs about ApiSession: types, the semaphore, and what a call makes of *)
(* an expired token, for any number of clients, places, pages and failures.*)
(***************************************************************************)
EXTENDS ApiSession, FiniteSetTheorems, SequenceTheorems, TLAPS

-----------------------------------------------------------------------------
(* Type correctness. *)

Stages == {"idle", "version", "tokens", "first", "retry"}
Purposes == {"none", "tenants", "url", "first", "retry"}
Requests == {"none", "open", "headers", "failed"}

\* The variables a request changes.
RequestType ==
    /\ stage \in [Clients -> Stages]
    /\ purpose \in [Clients -> Purposes]
    /\ request \in [Clients -> Requests]
    /\ sent \in [Clients -> Nat]
    /\ holders \in SUBSET Clients /\ waiting \in Seq(Clients)

LEMMA SendType ==
    ASSUME RequestType, NEW c \in Clients, NEW st \in Stages, NEW why \in Purposes,
           NEW token \in Nat, Send(c, st, why, token)
    PROVE  RequestType'
<1>1. stage' \in [Clients -> Stages] /\ purpose' \in [Clients -> Purposes]
  BY DEF RequestType, Send
<1>2. request' \in [Clients -> Requests] /\ sent' \in [Clients -> Nat]
  BY DEF RequestType, Send, Requests
<1>3. waiting' \in Seq(Clients)
  <2>1. waiting \in Seq(Clients)
    BY DEF RequestType
  <2>2. Append(waiting, c) \in Seq(Clients)
    BY <2>1, AppendProperties
  <2>3. waiting' = waiting \/ waiting' = Append(waiting, c)
    BY DEF Send
  <2> QED BY <2>1, <2>2, <2>3
<1>4. holders' \in SUBSET Clients
  BY DEF RequestType, Send
<1> QED BY <1>1, <1>2, <1>3, <1>4 DEF RequestType

LEMMA SettleType ==
    ASSUME RequestType, NEW c \in Clients, NEW what \in Requests, Settle(c, what),
           UNCHANGED <<stage, purpose, sent>>
    PROVE  RequestType'
<1>1. request' \in [Clients -> Requests]
  BY DEF RequestType, Settle
<1>2. holders' \in SUBSET Clients /\ waiting' \in Seq(Clients)
  <2>1. CASE c \notin holders
    BY <2>1 DEF RequestType, Settle, semaphore
  <2>2. CASE c \in holders
    <3>1. Release(c, request')
      BY <2>2 DEF Settle
    <3>2. CASE holders' = holders \ {c} /\ waiting' = <<>>
      BY <3>2 DEF RequestType
    <3>3. ASSUME NEW next \in 1..Len(waiting),
                 holders' = (holders \ {c}) \cup {waiting[next]},
                 waiting' = SubSeq(waiting, next + 1, Len(waiting))
          PROVE  holders' \in SUBSET Clients /\ waiting' \in Seq(Clients)
      <4>1. waiting \in Seq(Clients)
        BY DEF RequestType
      <4>2. \A i \in (next + 1)..Len(waiting) : waiting[i] \in Clients
        BY <4>1
      <4>3. waiting' \in Seq(Clients)
        BY <3>3, <4>1, <4>2, SubSeqProperties
      <4> QED BY <3>3, <4>1, <4>3 DEF RequestType
    <3> QED BY <3>1, <3>2, <3>3 DEF Release
  <2> QED BY <2>1, <2>2
<1> QED BY <1>1, <1>2 DEF RequestType

-----------------------------------------------------------------------------
(* Every step is, for the requests and the semaphore, one of four. *)

Sends(c) ==
    /\ stage[c] = "idle" \/ Through(c)
    /\ \E st \in Stages \ {"idle"}, why \in Purposes, token \in Nat : Send(c, st, why, token)

Settles(c) ==
    /\ request[c] = "open"
    /\ \E what \in {"headers", "failed"} : Settle(c, what)
    /\ UNCHANGED <<stage, purpose, sent>>

Ends(c) ==
    /\ Through(c)
    /\ \E what \in {"ok", "empty", "unauthorized", "failed"} : End(c, what)

Rests == UNCHANGED <<stage, purpose, request, sent, semaphore>>

LEMMA AuthenticateSends ==
    ASSUME NEW c \in Clients, NEW why \in Purposes, authenticate(c, why)
    PROVE  \E st \in Stages \ {"idle"}, w \in Purposes, t \in Nat : Send(c, st, w, t)
BY DEF authenticate, Stages, None

LEMMA GetSends ==
    ASSUME NEW c \in Clients, NEW token \in Nat, authenticated_GET_request(c, token)
    PROVE  \E st \in Stages \ {"idle"}, w \in Purposes, t \in Nat : Send(c, st, w, t)
<1>1. CASE token = None
  BY <1>1, AuthenticateSends DEF authenticated_GET_request, Purposes
<1>2. CASE token # None
  BY <1>2 DEF authenticated_GET_request, Stages, Purposes
<1> QED BY <1>1, <1>2

LEMMA JsonSends ==
    ASSUME NEW c \in Clients, NEW token \in Nat, NEW cataloged \in BOOLEAN,
           get_json(c, token, cataloged)
    PROVE  \E st \in Stages \ {"idle"}, w \in Purposes, t \in Nat : Send(c, st, w, t)
<1>1. CASE cataloged
  BY <1>1, GetSends DEF get_json
<1>2. CASE ~cataloged
  BY <1>2, AuthenticateSends DEF get_json, Purposes
<1> QED BY <1>1, <1>2

LEMMA RaiseStep ==
    ASSUME TypeOK, NEW c \in Clients, NEW what \in {"unauthorized", "failed"},
           NEW token \in Nat, Through(c), Raise(c, what, token)
    PROVE  Sends(c) \/ Ends(c)
<1>1. catalog[c] \in BOOLEAN
  BY DEF TypeOK
<1>2. CASE interface[c] = "admin" /\ purpose[c] # "tenants"
  BY <1>1, <1>2, JsonSends DEF Raise, Sends
<1>3. CASE ~(interface[c] = "admin" /\ purpose[c] # "tenants")
  BY <1>3 DEF Raise, Ends
<1> QED BY <1>2, <1>3

LEMMA BodyStep ==
    ASSUME TypeOK, NEW c \in Clients, Body(c)
    PROVE  Sends(c) \/ Ends(c)
<1> USE DEF Body
<1>1. /\ Through(c) /\ catalog[c] \in BOOLEAN /\ token_id[c] \in Nat /\ issued[c] \in Nat
      /\ purpose[c] \in Purposes
  BY DEF TypeOK, Purposes
<1>2. CASE VersionRead(c)
  <2>1. CASE purpose[c] = "tenants"
    BY <1>1, <1>2, <2>1, JsonSends DEF VersionRead, Sends
  <2>2. CASE purpose[c] # "tenants"
    BY <1>1, <1>2, <2>2 DEF VersionRead, Sends, Stages, None
  <2> QED BY <2>1, <2>2
<1>3. CASE TokenRead(c)
  <2>1. CASE purpose[c] = "url" /\ reply[c] = "uncataloged" /\ interface[c] # "public"
    BY <1>1, <1>3, <2>1 DEF TokenRead, Ends
  <2>2. CASE ~(purpose[c] = "url" /\ reply[c] = "uncataloged" /\ interface[c] # "public")
    <3>1. Send(c, "retry", "retry", issued[c]) \/ Send(c, "first", "first", issued[c])
      BY <1>3, <2>2 DEF TokenRead
    <3> QED BY <1>1, <3>1 DEF Sends, Stages, Purposes
  <2> QED BY <2>1, <2>2
<1>4. CASE PageRead(c)
  <2>1. CASE page[c] + 1 = Pages
    BY <1>1, <1>4, <2>1 DEF PageRead, Ends
  <2>2. CASE page[c] + 1 # Pages
    BY <1>1, <1>4, <2>2, GetSends DEF PageRead, Sends
  <2> QED BY <2>1, <2>2
<1>5. CASE Refused(c)
  BY <1>1, <1>5, AuthenticateSends DEF Refused, Sends, Purposes
<1>6. CASE ErrorRead(c)
  <2>1. PICK token \in Nat, what \in {"unauthorized", "failed"} : Raise(c, what, token)
    BY <1>1, <1>6 DEF ErrorRead, None
  <2> QED BY <1>1, <2>1, RaiseStep
<1> QED BY <1>2, <1>3, <1>4, <1>5, <1>6

LEMMA RespondStep ==
    ASSUME NEW c \in Clients, NEW what, Respond(c, what)
    PROVE  Settles(c)
BY DEF Respond, Settles

LEMMA StepCases ==
    ASSUME TypeOK, [Next]_vars
    PROVE  Rests \/ \E c \in Clients : Sends(c) \/ Settles(c) \/ Ends(c)
<1>1. CASE UNCHANGED vars
  BY <1>1 DEF vars, Rests, semaphore
<1>2. ASSUME NEW c \in Clients, Ask(c)
      PROVE  Sends(c)
  <2>1. catalog[c] \in BOOLEAN /\ token_id[c] \in Nat
    BY DEF TypeOK
  <2>2. get_json(c, token_id[c], catalog[c]) \/ Send(c, "version", "tenants", None)
    BY <1>2 DEF Ask
  <2>3. stage[c] = "idle"
    BY <1>2 DEF Ask
  <2> QED BY <2>1, <2>2, <2>3, JsonSends DEF Sends, Stages, Purposes, None
<1>3. ASSUME NEW c \in Clients, Served(c) \/ Denied(c)
      PROVE  Settles(c)
  BY <1>3, RespondStep DEF Served, Denied
<1>4. ASSUME NEW c \in Clients, Broken(c) \/ Timeout(c)
      PROVE  Settles(c)
  BY <1>4 DEF Broken, Timeout, Settles
<1>5. ASSUME NEW c \in Clients, Failed(c)
      PROVE  Sends(c) \/ Ends(c)
  <2>1. Through(c) /\ Raise(c, "failed", token_id[c]) /\ token_id[c] \in Nat
    BY <1>5 DEF Failed, TypeOK
  <2> QED BY <2>1, RaiseStep
<1>6. ASSUME NEW c \in Clients, Expire(c)
      PROVE  Rests
  BY <1>6 DEF Expire, Rests, call
<1> QED BY <1>1, <1>2, <1>3, <1>4, <1>5, <1>6, BodyStep DEF Next

-----------------------------------------------------------------------------
(* Type correctness. *)

LEMMA InitType == Init => TypeOK
BY ConstantsAssumption DEF Init, TypeOK, None

LEMMA RequestTypeStep ==
    ASSUME TypeOK, [Next]_vars
    PROVE  RequestType'
<1>1. RequestType
  BY DEF TypeOK, RequestType, Stages, Purposes, Requests
<1>2. CASE Rests
  BY <1>1, <1>2 DEF Rests, RequestType, semaphore
<1>3. ASSUME NEW c \in Clients, Sends(c)
      PROVE  RequestType'
  BY <1>1, <1>3, SendType DEF Sends
<1>4. ASSUME NEW c \in Clients, Settles(c)
      PROVE  RequestType'
  BY <1>1, <1>4, SettleType DEF Settles, Requests
<1>5. ASSUME NEW c \in Clients, Ends(c)
      PROVE  RequestType'
  BY <1>1, <1>5 DEF Ends, End, RequestType, Stages, Purposes, Requests, None, semaphore
<1> QED BY <1>2, <1>3, <1>4, <1>5, StepCases

\* The types of what is not about requests.
CallType ==
    /\ reply \in [Clients -> {"none", "ok", "unauthorized", "error", "bare", "uncataloged"}]
    /\ page \in [Clients -> Nat]
    /\ interface \in [Clients -> {"service", "admin", "public"}]
    /\ refused \in [Clients -> Nat]
    /\ answer \in [Clients -> {"none", "ok", "empty", "unauthorized", "failed"}]
    /\ calls \in [Clients -> Nat]

SessionType ==
    /\ token_id \in [Clients -> Nat]
    /\ catalog \in [Clients -> BOOLEAN] /\ api_version \in [Clients -> BOOLEAN]
    /\ public_only \in [Clients -> BOOLEAN]

ServerType ==
    /\ issued \in [Clients -> Nat] /\ valid \in [Clients -> SUBSET Nat]
    /\ failures \in Nat /\ expiries \in Nat

LEMMA RaiseType ==
    ASSUME TypeOK, NEW c \in Clients, NEW what \in {"unauthorized", "failed"}, NEW token,
           Raise(c, what, token)
    PROVE  /\ page' \in [Clients -> Nat]
           /\ interface' \in [Clients -> {"service", "admin", "public"}]
           /\ answer' \in [Clients -> {"none", "ok", "empty", "unauthorized", "failed"}]
           /\ public_only' \in [Clients -> BOOLEAN]
<1>1. CASE interface[c] = "admin" /\ purpose[c] # "tenants"
  <2>1. /\ public_only' = [public_only EXCEPT ![c] = TRUE]
        /\ interface' = [interface EXCEPT ![c] = "public"]
        /\ page' = [page EXCEPT ![c] = 0]
        /\ answer' = answer
    BY <1>1 DEF Raise
  <2> QED BY <2>1 DEF TypeOK
<1>2. CASE ~(interface[c] = "admin" /\ purpose[c] # "tenants")
  <2>1. /\ public_only' = public_only
        /\ interface' = [interface EXCEPT ![c] = "service"]
        /\ page' = [page EXCEPT ![c] = 0]
        /\ answer' = [answer EXCEPT ![c] = what]
    BY <1>2 DEF Raise, End
  <2> QED BY <2>1 DEF TypeOK
<1> QED BY <1>1, <1>2

LEMMA BodyType ==
    ASSUME TypeOK, NEW c \in Clients, Body(c)
    PROVE  CallType' /\ SessionType'
<1> USE DEF TypeOK
<1>1. reply' \in [Clients -> {"none", "ok", "unauthorized", "error", "bare", "uncataloged"}]
      /\ calls' \in [Clients -> Nat]
  BY DEF Body
<1>2. ASSUME VersionRead(c) PROVE CallType' /\ SessionType'
  BY <1>1, <1>2 DEF VersionRead, CallType, SessionType
<1>3. ASSUME TokenRead(c) PROVE CallType' /\ SessionType'
  <2>1. /\ token_id' = [token_id EXCEPT ![c] = issued[c]]
        /\ catalog' = [catalog EXCEPT ![c] = reply[c] = "ok"]
        /\ UNCHANGED <<api_version, public_only, refused>>
    BY <1>3 DEF TokenRead
  <2>2. \/ UNCHANGED <<answer, page, interface>>
        \/ /\ answer' = [answer EXCEPT ![c] = "empty"]
           /\ page' = [page EXCEPT ![c] = 0]
           /\ interface' = [interface EXCEPT ![c] = "service"]
    BY <1>3 DEF TokenRead, End
  <2>3. /\ answer' \in [Clients -> {"none", "ok", "empty", "unauthorized", "failed"}]
        /\ page' \in [Clients -> Nat]
        /\ interface' \in [Clients -> {"service", "admin", "public"}]
    <3>1. CASE UNCHANGED <<answer, page, interface>>
      BY <3>1
    <3>2. CASE /\ answer' = [answer EXCEPT ![c] = "empty"]
               /\ page' = [page EXCEPT ![c] = 0]
               /\ interface' = [interface EXCEPT ![c] = "service"]
      BY <3>2
    <3> QED BY <2>2, <3>1, <3>2
  <2>4. refused' \in [Clients -> Nat]
    BY <2>1
  <2>5. SessionType'
    BY <2>1 DEF SessionType
  <2> QED BY <1>1, <2>3, <2>4, <2>5 DEF CallType
<1>4. ASSUME PageRead(c) PROVE CallType' /\ SessionType'
  <2>1. SessionType'
    BY <1>4 DEF PageRead, SessionType, session
  <2>2. refused' \in [Clients -> Nat]
    BY <1>4 DEF PageRead, None
  <2>3. \/ /\ page' = [page EXCEPT ![c] = 0]
           /\ interface' = [interface EXCEPT ![c] = "service"]
           /\ answer' = [answer EXCEPT ![c] = "ok"]
        \/ /\ page' = [page EXCEPT ![c] = @ + 1]
           /\ UNCHANGED <<answer, interface>>
    BY <1>4 DEF PageRead, End
  <2>4. page' \in [Clients -> Nat]
    <3>1. CASE page' = [page EXCEPT ![c] = 0]
      BY <3>1
    <3>2. CASE page' = [page EXCEPT ![c] = @ + 1]
      BY <3>2
    <3> QED BY <2>3, <3>1, <3>2
  <2>5. /\ interface' \in [Clients -> {"service", "admin", "public"}]
        /\ answer' \in [Clients -> {"none", "ok", "empty", "unauthorized", "failed"}]
    <3>1. CASE UNCHANGED <<answer, interface>>
      BY <3>1
    <3>2. CASE /\ interface' = [interface EXCEPT ![c] = "service"]
               /\ answer' = [answer EXCEPT ![c] = "ok"]
      BY <3>2
    <3> QED BY <2>3, <3>1, <3>2
  <2> QED BY <1>1, <2>1, <2>2, <2>4, <2>5 DEF CallType
<1>5. ASSUME Refused(c) PROVE CallType' /\ SessionType'
  BY <1>1, <1>5 DEF Refused, CallType, SessionType, session
<1>6. ASSUME ErrorRead(c) PROVE CallType' /\ SessionType'
  <2>1. PICK token \in Nat, what \in {"unauthorized", "failed"} :
            Raise(c, what, token) /\ token_id' = [token_id EXCEPT ![c] = token]
    BY <1>6 DEF ErrorRead, None
  <2>2. UNCHANGED <<catalog, api_version>> /\ refused' = [refused EXCEPT ![c] = None]
    BY <1>6 DEF ErrorRead
  <2>5. refused' \in [Clients -> Nat]
    BY <2>2 DEF None
  <2>3. CallType'
    <3>1. /\ page' \in [Clients -> Nat]
          /\ interface' \in [Clients -> {"service", "admin", "public"}]
          /\ answer' \in [Clients -> {"none", "ok", "empty", "unauthorized", "failed"}]
      <4> HIDE DEF TypeOK
      <4> QED BY <2>1, RaiseType
    <3> QED BY <1>1, <2>5, <3>1 DEF CallType
  <2>4. SessionType'
    BY <2>1, <2>2, RaiseType DEF SessionType
  <2> QED BY <2>3, <2>4
<1> QED BY <1>2, <1>3, <1>4, <1>5, <1>6 DEF Body

LEMMA TypeStep ==
    ASSUME TypeOK, [Next]_vars
    PROVE  TypeOK'
<1>1. CallType' /\ SessionType' /\ ServerType'
  <2>0. CallType /\ SessionType /\ ServerType
    BY DEF TypeOK, CallType, SessionType, ServerType
  <2>1. CASE UNCHANGED vars
    BY <2>0, <2>1 DEF vars, CallType, SessionType, ServerType
  <2>2. ASSUME NEW c \in Clients, Ask(c) PROVE CallType' /\ SessionType' /\ ServerType'
    BY <2>0, <2>2 DEF Ask, CallType, SessionType, ServerType, session, server
  <2>3. ASSUME NEW c \in Clients, NEW what \in {"ok", "unauthorized", "error", "bare", "uncataloged"},
               Respond(c, what), failures' \in Nat
        PROVE  CallType' /\ SessionType' /\ ServerType'
    BY <2>0, <2>3 DEF Respond, CallType, SessionType, ServerType, session
  <2>4. ASSUME NEW c \in Clients, Served(c) PROVE CallType' /\ SessionType' /\ ServerType'
    BY <2>0, <2>3, <2>4 DEF Served, ServerType
  <2>5. ASSUME NEW c \in Clients, Denied(c) PROVE CallType' /\ SessionType' /\ ServerType'
    BY <2>0, <2>3, <2>5 DEF Denied, ServerType
  <2>6. ASSUME NEW c \in Clients, Broken(c) \/ Timeout(c)
        PROVE  CallType' /\ SessionType' /\ ServerType'
    BY <2>0, <2>6 DEF Broken, Timeout, CallType, SessionType, ServerType, session, server
  <2>7. ASSUME NEW c \in Clients, Failed(c) PROVE CallType' /\ SessionType' /\ ServerType'
    <3>1. Raise(c, "failed", token_id[c])
      BY <2>7 DEF Failed
    <3> QED BY <2>0, <2>7, <3>1, RaiseType DEF Failed, CallType, SessionType, ServerType, server, None
  <2>8. ASSUME NEW c \in Clients, Body(c) PROVE CallType' /\ SessionType' /\ ServerType'
    BY <2>0, <2>8, BodyType DEF Body, ServerType, server
  <2>9. ASSUME NEW c \in Clients, Expire(c) PROVE CallType' /\ SessionType' /\ ServerType'
    BY <2>0, <2>9 DEF Expire, CallType, SessionType, ServerType, call, session
  <2> QED BY <2>1, <2>2, <2>4, <2>5, <2>6, <2>7, <2>8, <2>9 DEF Next
<1>2. RequestType'
  BY RequestTypeStep
<1> QED BY <1>1, <1>2 DEF TypeOK, CallType, SessionType, ServerType, RequestType, Stages, Purposes, Requests

\* Every variable has its type, whatever the server and the network do.
THEOREM TypeCorrect == Spec => []TypeOK
BY InitType, TypeStep, PTL DEF Spec

-----------------------------------------------------------------------------
(* The semaphore. *)

\* What makes NoPlaceLost inductive: nobody waits twice or waits with a place,
\* and a client between calls does neither.
SemInv ==
    /\ IsFiniteSet(holders) /\ Cardinality(holders) <= MAX_PARALLEL
    /\ \A c \in holders : request[c] = "open"
    /\ waiting # <<>> => Cardinality(holders) = MAX_PARALLEL
    /\ \A i \in 1..Len(waiting) : waiting[i] \notin holders /\ stage[waiting[i]] # "idle"
    /\ \A i, j \in 1..Len(waiting) : waiting[i] = waiting[j] => i = j
    /\ \A c \in Clients : stage[c] = "idle" => request[c] = "none"

LEMMA InitSem == Init => SemInv
<1> SUFFICES ASSUME Init PROVE SemInv
  OBVIOUS
<1>1. IsFiniteSet(holders) /\ Cardinality(holders) = 0
  BY FS_EmptySet DEF Init
<1>2. waiting = <<>> /\ Len(waiting) = 0
  BY DEF Init
<1>3. \A c \in Clients : request[c] = "none"
  BY DEF Init
<1> QED BY <1>1, <1>2, <1>3, ConstantsAssumption DEF SemInv, Init

LEMMA SendSem ==
    ASSUME TypeOK, SemInv, NEW c \in Clients, Sends(c)
    PROVE  SemInv'
<1>1. PICK st \in Stages \ {"idle"}, why \in Purposes, token \in Nat : Send(c, st, why, token)
  BY DEF Sends
<1>2. c \notin holders /\ \A i \in 1..Len(waiting) : waiting[i] # c
  BY DEF Sends, SemInv, Through, Contains
<1>3. waiting \in Seq(Clients) /\ holders \subseteq Clients
  BY DEF TypeOK
<1>4. /\ stage'[c] # "idle"
      /\ \A d \in Clients : d # c => stage'[d] = stage[d]
      /\ request'[c] = "open" /\ \A d \in Clients : d # c => request'[d] = request[d]
  BY <1>1 DEF TypeOK, Send, Stages
<1>5. \A d \in Clients : stage'[d] = "idle" => request'[d] = "none"
  BY <1>4 DEF SemInv
<1>6. CASE Cardinality(holders) < MAX_PARALLEL
  <2>1. holders' = holders \cup {c} /\ waiting' = waiting
    BY <1>1, <1>6 DEF Send
  <2>2. Cardinality(holders) \in Nat /\ waiting = <<>>
    BY <1>6, FS_CardinalityType DEF SemInv
  <2>3. IsFiniteSet(holders') /\ Cardinality(holders') = Cardinality(holders) + 1
    BY <1>2, <2>1, FS_AddElement DEF SemInv
  <2>4. Cardinality(holders') <= MAX_PARALLEL
    BY <1>6, <2>2, <2>3, ConstantsAssumption
  <2>5. \A d \in holders' : request'[d] = "open"
    BY <1>3, <1>4, <2>1 DEF SemInv
  <2>6. Len(waiting') = 0
    BY <2>1, <2>2
  <2> QED BY <1>5, <2>1, <2>2, <2>3, <2>4, <2>5, <2>6 DEF SemInv
<1>7. CASE ~(Cardinality(holders) < MAX_PARALLEL)
  <2>1. holders' = holders /\ waiting' = Append(waiting, c)
    BY <1>1, <1>7 DEF Send
  <2>2. Cardinality(holders') = MAX_PARALLEL
    BY <1>7, <2>1, FS_CardinalityType, ConstantsAssumption DEF SemInv
  <2>3. /\ Len(waiting') = Len(waiting) + 1 /\ waiting'[Len(waiting) + 1] = c
        /\ \A i \in 1..Len(waiting) : waiting'[i] = waiting[i]
    BY <1>3, <2>1
  <2>4. \A i \in 1..Len(waiting) : waiting[i] \in Clients
    BY <1>3
  <2>5. \A i \in 1..Len(waiting') : waiting'[i] \notin holders' /\ stage'[waiting'[i]] # "idle"
    BY <1>2, <1>3, <1>4, <2>1, <2>3, <2>4 DEF SemInv
  <2>6. \A i, j \in 1..Len(waiting') : waiting'[i] = waiting'[j] => i = j
    BY <1>2, <1>3, <2>3 DEF SemInv
  <2>7. \A d \in holders' : request'[d] = "open"
    BY <1>2, <1>3, <1>4, <2>1 DEF SemInv
  <2> QED BY <1>5, <2>1, <2>2, <2>5, <2>6, <2>7 DEF SemInv
<1> QED BY <1>6, <1>7

LEMMA SettleSem ==
    ASSUME TypeOK, SemInv, NEW c \in Clients, Settles(c)
    PROVE  SemInv'
<1>1. PICK what \in {"headers", "failed"} : Settle(c, what)
  BY DEF Settles
<1>2. /\ request' = [request EXCEPT ![c] = what] /\ stage' = stage /\ request[c] = "open"
      /\ request' \in [Clients -> Requests]
  BY <1>1 DEF Settle, Settles, TypeOK, Requests
<1>3. \A d \in Clients : d # c => request'[d] = request[d]
  BY <1>2 DEF TypeOK
<1>4. \A d \in Clients : stage'[d] = "idle" => request'[d] = "none"
  BY <1>2, <1>3 DEF SemInv
<1>5. waiting \in Seq(Clients) /\ holders \subseteq Clients
  BY DEF TypeOK
<1>6. CASE c \notin holders
  BY <1>1, <1>2, <1>3, <1>4, <1>5, <1>6 DEF Settle, SemInv, semaphore
<1>7. CASE c \in holders
  <2>1. Release(c, request')
    BY <1>1, <1>7 DEF Settle
  <2>2. IsFiniteSet(holders \ {c}) /\ Cardinality(holders \ {c}) = Cardinality(holders) - 1
    BY <1>7, FS_RemoveElement DEF SemInv
  <2>3. Cardinality(holders) \in Nat
    BY FS_CardinalityType DEF SemInv
  <2>4. CASE holders' = holders \ {c} /\ waiting' = <<>>
    <3>1. Cardinality(holders') <= MAX_PARALLEL
      BY <2>2, <2>3, <2>4, ConstantsAssumption DEF SemInv
    <3>2. \A d \in holders' : request'[d] = "open"
      BY <1>3, <1>5, <2>4 DEF SemInv
    <3>3. Len(waiting') = 0
      BY <2>4
    <3> QED BY <1>4, <2>2, <2>4, <3>1, <3>2, <3>3 DEF SemInv
  <2>5. ASSUME NEW next \in 1..Len(waiting), request'[waiting[next]] = "open",
               holders' = (holders \ {c}) \cup {waiting[next]},
               waiting' = SubSeq(waiting, next + 1, Len(waiting))
        PROVE  SemInv'
    <3>1. waiting[next] \notin holders /\ waiting[next] \in Clients
      BY <1>5 DEF SemInv
    <3>2. /\ IsFiniteSet(holders')
          /\ Cardinality(holders') = Cardinality(holders \ {c}) + 1
      BY <2>2, <2>5, <3>1, FS_AddElement
    <3>3. waiting # <<>>
      BY <1>5
    <3>4. Cardinality(holders') = MAX_PARALLEL
      BY <2>2, <2>3, <3>2, <3>3 DEF SemInv
    <3>5. \A d \in holders' : request'[d] = "open"
      BY <1>3, <1>5, <2>5 DEF SemInv
    <3>6. /\ Len(waiting') = Len(waiting) - next
          /\ \A i \in 1..Len(waiting') : waiting'[i] = waiting[i + next] /\ i + next \in 1..Len(waiting)
      BY <1>5, <2>5
    <3>7. \A i \in 1..Len(waiting') : waiting'[i] \notin holders' /\ stage'[waiting'[i]] # "idle"
      <4> TAKE i \in 1..Len(waiting')
      <4>1. waiting'[i] = waiting[i + next] /\ i + next \in 1..Len(waiting) /\ i + next # next
        BY <1>5, <3>6
      <4>2. waiting[i + next] # waiting[next]
        BY <4>1 DEF SemInv
      <4> QED BY <1>2, <2>5, <4>1, <4>2 DEF SemInv
    <3>8. \A i, j \in 1..Len(waiting') : waiting'[i] = waiting'[j] => i = j
      <4> TAKE i, j \in 1..Len(waiting')
      <4> HAVE waiting'[i] = waiting'[j]
      <4>1. waiting[i + next] = waiting[j + next]
            /\ i + next \in 1..Len(waiting) /\ j + next \in 1..Len(waiting)
        BY <3>6
      <4>2. i + next = j + next
        BY <4>1 DEF SemInv
      <4> QED BY <1>5, <3>6, <4>2
    <3>9. Cardinality(holders') <= MAX_PARALLEL
      BY <3>4, ConstantsAssumption
    <3> QED BY <1>4, <3>2, <3>4, <3>5, <3>7, <3>8, <3>9 DEF SemInv
  <2> QED BY <2>1, <2>4, <2>5 DEF Release
<1> QED BY <1>6, <1>7

LEMMA EndSem ==
    ASSUME TypeOK, SemInv, NEW c \in Clients, Ends(c)
    PROVE  SemInv'
<1>1. /\ stage' = [stage EXCEPT ![c] = "idle"] /\ request' = [request EXCEPT ![c] = "none"]
      /\ holders' = holders /\ waiting' = waiting
  BY DEF Ends, End, semaphore
<1>2. c \notin holders /\ \A i \in 1..Len(waiting) : waiting[i] # c
  BY DEF Ends, Through, Contains
<1>3. waiting \in Seq(Clients) /\ holders \subseteq Clients
  BY DEF TypeOK
<1>4. /\ request'[c] = "none"
      /\ \A d \in Clients : d # c => request'[d] = request[d] /\ stage'[d] = stage[d]
  BY <1>1 DEF TypeOK
<1>5. \A i \in 1..Len(waiting) : waiting[i] \in Clients
  BY <1>3
<1> QED BY <1>1, <1>2, <1>3, <1>4, <1>5 DEF SemInv

LEMMA SemStep ==
    ASSUME TypeOK, SemInv, [Next]_vars
    PROVE  SemInv'
<1>1. CASE Rests
  BY <1>1 DEF Rests, SemInv, semaphore
<1> QED BY <1>1, StepCases, SendSem, SettleSem, EndSem

\* No place of the semaphore is lost or kept for nothing, however requests
\* end and in whatever order; with any number of clients and places.
THEOREM PlacesKept == Spec => []NoPlaceLost
<1>1. Init => TypeOK /\ SemInv
  BY InitType, InitSem
<1>2. TypeOK /\ SemInv /\ [Next]_vars => (TypeOK /\ SemInv)'
  BY TypeStep, SemStep
<1>3. SemInv => NoPlaceLost
  BY DEF SemInv, NoPlaceLost
<1> QED BY <1>1, <1>2, <1>3, PTL DEF Spec

-----------------------------------------------------------------------------
(* What a call makes of an expired token. *)

\* What makes ExpiryIsInvisible inductive, of one client: an answer is read
\* once; an unauthorized one, and the refused token it leaves behind, are about
\* a token that is not valid any more; and a retry has a later token.
RetryOf(c) ==
    /\ valid[c] \subseteq 1..issued[c]
    /\ token_id[c] <= issued[c] /\ sent[c] <= issued[c]
    /\ reply[c] # "none" => request[c] = "headers"
    /\ stage[c] \in {"first", "retry"} /\ reply[c] = "unauthorized" => sent[c] \notin valid[c]
    /\ purpose[c] = "retry" => refused[c] <= issued[c] /\ refused[c] \notin valid[c]
    /\ stage[c] = "tokens" /\ purpose[c] = "retry" /\ reply[c] \in {"ok", "uncataloged"} =>
          refused[c] < issued[c]
    /\ stage[c] = "retry" => purpose[c] = "retry" /\ refused[c] < sent[c]

RetryInv == \A c \in Clients : RetryOf(c)

\* The variables RetryOf speaks of, at a client that takes no step.
Undisturbed(c) ==
    /\ stage'[c] = stage[c] /\ purpose'[c] = purpose[c] /\ request'[c] = request[c]
    /\ sent'[c] = sent[c] /\ reply'[c] = reply[c] /\ refused'[c] = refused[c]
    /\ token_id'[c] = token_id[c] /\ issued'[c] = issued[c] /\ valid'[c] = valid[c]

LEMMA UndisturbedKeeps ==
    ASSUME NEW c \in Clients, RetryOf(c), Undisturbed(c)
    PROVE  RetryOf(c)'
BY DEF RetryOf, Undisturbed

LEMMA SendAt ==
    ASSUME TypeOK, NEW c \in Clients, NEW st, NEW why, NEW token, Send(c, st, why, token)
    PROVE  /\ stage'[c] = st /\ purpose'[c] = why /\ request'[c] = "open" /\ sent'[c] = token
           /\ \A d \in Clients \ {c} : /\ stage'[d] = stage[d] /\ purpose'[d] = purpose[d]
                                       /\ request'[d] = request[d] /\ sent'[d] = sent[d]
BY DEF TypeOK, Send

LEMMA EndAt ==
    ASSUME TypeOK, NEW c \in Clients, NEW what, End(c, what)
    PROVE  /\ stage'[c] = "idle" /\ purpose'[c] = "none" /\ request'[c] = "none" /\ sent'[c] = None
           /\ answer'[c] = what
           /\ \A d \in Clients \ {c} : /\ stage'[d] = stage[d] /\ purpose'[d] = purpose[d]
                                       /\ request'[d] = request[d] /\ sent'[d] = sent[d]
                                       /\ answer'[d] = answer[d]
BY DEF TypeOK, End

\* A request that begins something: none of those of a second try.
Fresh(c, token) ==
    \E st \in {"version", "tokens", "first"}, why \in {"tenants", "url", "first"}, t \in {None, token} :
        Send(c, st, why, t)

LEMMA JsonFresh ==
    ASSUME NEW c \in Clients, NEW token \in Nat, NEW cataloged \in BOOLEAN,
           get_json(c, token, cataloged)
    PROVE  Fresh(c, token)
BY DEF get_json, authenticated_GET_request, authenticate, Fresh

LEMMA RaiseFresh ==
    ASSUME TypeOK, NEW c \in Clients, NEW what, NEW token \in Nat, Raise(c, what, token)
    PROVE  (Fresh(c, token) /\ answer' = answer) \/ End(c, what)
<1>1. catalog[c] \in BOOLEAN
  BY DEF TypeOK
<1> QED BY <1>1, JsonFresh DEF Raise

LEMMA FreshKeeps ==
    ASSUME TypeOK, NEW c \in Clients, RetryOf(c), NEW token \in Nat, token <= issued[c],
           Fresh(c, token), reply'[c] = "none", token_id'[c] \in {token, token_id[c]},
           issued'[c] = issued[c], valid'[c] = valid[c]
    PROVE  RetryOf(c)'
<1>1. PICK st \in {"version", "tokens", "first"}, why \in {"tenants", "url", "first"},
           t \in {None, token} : Send(c, st, why, t)
  BY DEF Fresh
<1>2. stage'[c] = st /\ purpose'[c] = why /\ sent'[c] = t
  BY <1>1, SendAt
<1>3. issued[c] \in Nat
  BY DEF TypeOK
<1> QED BY <1>1, <1>2, <1>3 DEF RetryOf, None

LEMMA EndKeeps ==
    ASSUME TypeOK, NEW c \in Clients, RetryOf(c), NEW what, End(c, what),
           reply'[c] = "none", token_id'[c] <= issued[c],
           issued'[c] = issued[c], valid'[c] = valid[c]
    PROVE  RetryOf(c)'
<1>1. stage'[c] = "idle" /\ purpose'[c] = "none" /\ sent'[c] = None
  BY EndAt
<1>2. issued[c] \in Nat
  BY DEF TypeOK
<1> QED BY <1>1, <1>2 DEF RetryOf, None

\* Every step of a client leaves the others alone.
OthersRest(c) == \A d \in Clients \ {c} : Undisturbed(d)

LEMMA FreshOthers ==
    ASSUME TypeOK, NEW c \in Clients, NEW token, Fresh(c, token),
           \A d \in Clients \ {c} :
               /\ reply'[d] = reply[d] /\ refused'[d] = refused[d]
               /\ token_id'[d] = token_id[d] /\ issued'[d] = issued[d] /\ valid'[d] = valid[d]
    PROVE  OthersRest(c)
<1>1. PICK st \in {"version", "tokens", "first"}, why \in {"tenants", "url", "first"},
           t \in {None, token} : Send(c, st, why, t)
  BY DEF Fresh
<1> QED BY <1>1, SendAt DEF OthersRest, Undisturbed

LEMMA RetryAsk ==
    ASSUME TypeOK, SemInv, RetryInv, NEW c \in Clients, Ask(c)
    PROVE  RetryOf(c)' /\ OthersRest(c)
<1>1. token_id[c] \in Nat /\ catalog[c] \in BOOLEAN /\ token_id[c] <= issued[c] /\ RetryOf(c)
  BY DEF TypeOK, RetryInv, RetryOf
<1>2. UNCHANGED <<reply, refused, token_id, issued, valid>>
  BY DEF Ask, session, server
<1>3. Fresh(c, token_id[c])
  <2>1. CASE get_json(c, token_id[c], catalog[c])
    BY <1>1, <2>1, JsonFresh
  <2>2. CASE Send(c, "version", "tenants", None)
    BY <2>2 DEF Fresh
  <2> QED BY <2>1, <2>2 DEF Ask
<1>4. reply'[c] = "none"
  BY <1>1, <1>2 DEF Ask, SemInv, RetryOf
<1>5. RetryOf(c)'
  BY <1>1, <1>2, <1>3, <1>4, FreshKeeps
<1>6. OthersRest(c)
  BY <1>2, <1>3, FreshOthers
<1> QED BY <1>5, <1>6

LEMMA RetryRespond ==
    ASSUME TypeOK, RetryInv, NEW c \in Clients,
           NEW what \in {"ok", "unauthorized", "error", "bare", "uncataloged"}, Respond(c, what),
           what = "unauthorized" => stage[c] = "tokens" \/ sent[c] \notin valid[c]
    PROVE  RetryOf(c)' /\ OthersRest(c)
<1> DEFINE granted == stage[c] = "tokens" /\ what \in {"ok", "uncataloged"}
<1>1. /\ request[c] = "open" /\ request' = [request EXCEPT ![c] = "headers"]
      /\ reply' = [reply EXCEPT ![c] = what]
      /\ UNCHANGED <<stage, purpose, sent, refused, token_id>>
      /\ issued' = IF granted THEN [issued EXCEPT ![c] = issued[c] + 1] ELSE issued
      /\ valid' = IF granted THEN [valid EXCEPT ![c] = @ \cup {issued[c] + 1}] ELSE valid
  BY DEF Respond, Settle, session
<1> HIDE DEF granted
<1>2. request'[c] = "headers" /\ reply'[c] = what
  BY <1>1 DEF TypeOK
<1>3. /\ issued[c] \in Nat /\ sent[c] \in Nat /\ token_id[c] \in Nat /\ refused[c] \in Nat
      /\ RetryOf(c)
  BY DEF TypeOK, RetryInv
<1>0. /\ stage'[c] = stage[c] /\ purpose'[c] = purpose[c] /\ sent'[c] = sent[c]
      /\ refused'[c] = refused[c] /\ token_id'[c] = token_id[c]
  BY <1>1
<1>4. ASSUME granted PROVE RetryOf(c)'
  <2>1. issued'[c] = issued[c] + 1 /\ valid'[c] = valid[c] \cup {issued[c] + 1}
    BY <1>1, <1>4 DEF TypeOK
  <2>2. stage[c] = "tokens"
    BY <1>4 DEF granted
  <2>3. valid'[c] \subseteq 1..issued'[c]
    BY <1>3, <2>1 DEF RetryOf
  <2>4. purpose'[c] = "retry" =>
           refused'[c] < issued'[c] /\ refused'[c] <= issued'[c] /\ refused'[c] \notin valid'[c]
    BY <1>0, <1>3, <2>1 DEF RetryOf
  <2>5. token_id'[c] <= issued'[c] /\ sent'[c] <= issued'[c]
    BY <1>0, <1>3, <2>1 DEF RetryOf
  <2> QED BY <1>0, <1>2, <2>2, <2>3, <2>4, <2>5 DEF RetryOf
<1>5. ASSUME ~granted PROVE RetryOf(c)'
  <2>1. issued'[c] = issued[c] /\ valid'[c] = valid[c]
    BY <1>1, <1>5
  <2>2. stage[c] = "tokens" => reply'[c] \notin {"ok", "uncataloged"}
    BY <1>2, <1>5 DEF granted
  <2>3. stage[c] \in {"first", "retry"} /\ reply'[c] = "unauthorized" => sent[c] \notin valid[c]
    BY <1>2
  <2> QED BY <1>0, <1>2, <1>3, <2>1, <2>2, <2>3 DEF RetryOf
<1>6. OthersRest(c)
  BY <1>1 DEF OthersRest, Undisturbed, TypeOK
<1> QED BY <1>4, <1>5, <1>6

LEMMA RetrySettle ==
    ASSUME TypeOK, RetryInv, NEW c \in Clients, Broken(c) \/ Timeout(c)
    PROVE  RetryOf(c)' /\ OthersRest(c)
<1>1. /\ request[c] = "open" /\ request' = [request EXCEPT ![c] = "failed"]
      /\ UNCHANGED <<stage, purpose, sent, reply, refused, token_id, issued, valid>>
  BY DEF Broken, Timeout, Settle, session, server
<1>2. RetryOf(c)
  BY DEF RetryInv
<1>3. RetryOf(c)'
  BY <1>1, <1>2 DEF RetryOf
<1>4. OthersRest(c)
  BY <1>1 DEF OthersRest, Undisturbed, TypeOK
<1> QED BY <1>3, <1>4

\* A failed request, or an error that was read, ends the call or begins anew.
LEMMA RetryRaise ==
    ASSUME TypeOK, RetryInv, NEW c \in Clients, NEW what, NEW token \in Nat,
           token <= issued[c], Raise(c, what, token),
           reply' = [reply EXCEPT ![c] = "none"], refused' = [refused EXCEPT ![c] = None],
           token_id' = [token_id EXCEPT ![c] = token], UNCHANGED <<issued, valid>>
    PROVE  RetryOf(c)' /\ OthersRest(c)
<1>1. reply'[c] = "none" /\ token_id'[c] = token /\ RetryOf(c)
  BY DEF TypeOK, RetryInv
<1>2. \A d \in Clients \ {c} :
         reply'[d] = reply[d] /\ refused'[d] = refused[d] /\ token_id'[d] = token_id[d]
  BY DEF TypeOK
<1>3. CASE Fresh(c, token)
  BY <1>1, <1>2, <1>3, FreshKeeps, FreshOthers
<1>4. CASE End(c, what)
  <2>1. RetryOf(c)'
    BY <1>1, <1>4, EndKeeps
  <2>2. OthersRest(c)
    BY <1>2, <1>4, EndAt DEF OthersRest, Undisturbed
  <2> QED BY <2>1, <2>2
<1> QED BY <1>3, <1>4, RaiseFresh

LEMMA RetryFailed ==
    ASSUME TypeOK, RetryInv, NEW c \in Clients, Failed(c)
    PROVE  RetryOf(c)' /\ OthersRest(c)
<1>1. reply[c] = "none" /\ token_id[c] \in Nat /\ token_id[c] <= issued[c]
  BY DEF RetryInv, RetryOf, Failed, TypeOK
<1>2. /\ reply' = [reply EXCEPT ![c] = "none"] /\ token_id' = [token_id EXCEPT ![c] = token_id[c]]
      /\ refused' = [refused EXCEPT ![c] = None] /\ UNCHANGED <<issued, valid>>
      /\ Raise(c, "failed", token_id[c])
  BY <1>1 DEF Failed, TypeOK, server
<1> QED BY <1>1, <1>2, RetryRaise

LEMMA RetryExpire ==
    ASSUME TypeOK, RetryInv, NEW c \in Clients, Expire(c)
    PROVE  RetryOf(c)' /\ OthersRest(c)
<1>1. PICK t \in valid[c] : valid' = [valid EXCEPT ![c] = @ \ {t}]
  BY DEF Expire
<1>2. UNCHANGED <<stage, purpose, request, sent, reply, refused, token_id, issued>>
  BY DEF Expire, call, session
<1>3. valid'[c] = valid[c] \ {t} /\ RetryOf(c)
  BY <1>1 DEF TypeOK, RetryInv
<1>4. RetryOf(c)'
  BY <1>2, <1>3 DEF RetryOf
<1>5. OthersRest(c)
  BY <1>1, <1>2 DEF OthersRest, Undisturbed, TypeOK
<1> QED BY <1>4, <1>5

LEMMA RetryBody ==
    ASSUME TypeOK, RetryInv, NEW c \in Clients, Body(c)
    PROVE  RetryOf(c)' /\ OthersRest(c)
<1>1. /\ issued[c] \in Nat /\ sent[c] \in Nat /\ token_id[c] \in Nat /\ refused[c] \in Nat
      /\ catalog[c] \in BOOLEAN /\ RetryOf(c) /\ token_id[c] <= issued[c]
  BY DEF TypeOK, RetryInv, RetryOf
<1>2. /\ reply'[c] = "none" /\ reply' = [reply EXCEPT ![c] = "none"]
      /\ UNCHANGED <<issued, valid>>
  BY DEF Body, TypeOK, server
<1>3. \A d \in Clients \ {c} :
         reply'[d] = reply[d] /\ issued'[d] = issued[d] /\ valid'[d] = valid[d]
  BY <1>2 DEF TypeOK
<1>4. CASE VersionRead(c)
  <2>1. UNCHANGED <<token_id, refused>>
    BY <1>4 DEF VersionRead
  <2>2. CASE purpose[c] = "tenants"
    <3>1. Fresh(c, token_id[c])
      BY <1>1, <1>4, <2>2, JsonFresh DEF VersionRead
    <3> QED BY <1>1, <1>2, <1>3, <2>1, <3>1, FreshKeeps, FreshOthers
  <2>3. CASE purpose[c] # "tenants"
    <3>1. Send(c, "tokens", purpose[c], None)
      BY <1>4, <2>3 DEF VersionRead
    <3>2. stage'[c] = "tokens" /\ purpose'[c] = purpose[c] /\ sent'[c] = None
      BY <3>1, SendAt
    <3>3. RetryOf(c)'
      BY <1>1, <1>2, <2>1, <3>2 DEF RetryOf, None
    <3>4. OthersRest(c)
      BY <1>3, <2>1, <3>1, SendAt DEF OthersRest, Undisturbed
    <3> QED BY <3>3, <3>4
  <2> QED BY <2>2, <2>3
<1>5. CASE TokenRead(c)
  <2>1. /\ token_id'[c] = issued[c] /\ refused' = refused
        /\ \A d \in Clients \ {c} : token_id'[d] = token_id[d]
    BY <1>5 DEF TokenRead, TypeOK
  <2>2. CASE End(c, "empty")
    <3>1. RetryOf(c)'
      BY <1>1, <1>2, <2>1, <2>2, EndKeeps
    <3>2. OthersRest(c)
      BY <1>3, <2>1, <2>2, EndAt DEF OthersRest, Undisturbed
    <3> QED BY <3>1, <3>2
  <2>3. CASE Send(c, "first", "first", issued[c])
    <3>1. stage'[c] = "first" /\ purpose'[c] = "first" /\ sent'[c] = issued[c]
      BY <2>3, SendAt
    <3>2. RetryOf(c)'
      BY <1>1, <1>2, <2>1, <3>1 DEF RetryOf
    <3>3. OthersRest(c)
      BY <1>3, <2>1, <2>3, SendAt DEF OthersRest, Undisturbed
    <3> QED BY <3>2, <3>3
  <2>4. CASE purpose[c] = "retry" /\ Send(c, "retry", "retry", issued[c])
    <3>1. stage'[c] = "retry" /\ purpose'[c] = "retry" /\ sent'[c] = issued[c]
      BY <2>4, SendAt
    <3>2. refused[c] < issued[c] /\ refused[c] \notin valid[c]
      BY <1>1, <1>5, <2>4 DEF RetryOf, TokenRead
    <3>3. RetryOf(c)'
      BY <1>1, <1>2, <2>1, <3>1, <3>2 DEF RetryOf
    <3>4. OthersRest(c)
      BY <1>3, <2>1, <2>4, SendAt DEF OthersRest, Undisturbed
    <3> QED BY <3>3, <3>4
  <2> QED BY <1>5, <2>2, <2>3, <2>4 DEF TokenRead
<1>6. CASE PageRead(c)
  <2>1. /\ UNCHANGED token_id
        /\ \A d \in Clients \ {c} : refused'[d] = refused[d]
    BY <1>6 DEF PageRead, session, TypeOK
  <2>2. CASE End(c, "ok")
    <3>1. RetryOf(c)'
      BY <1>1, <1>2, <2>1, <2>2, EndKeeps
    <3>2. OthersRest(c)
      BY <1>3, <2>1, <2>2, EndAt DEF OthersRest, Undisturbed
    <3> QED BY <3>1, <3>2
  <2>3. CASE authenticated_GET_request(c, token_id[c])
    <3>1. Fresh(c, token_id[c])
      BY <2>3 DEF authenticated_GET_request, authenticate, Fresh
    <3> QED BY <1>1, <1>2, <1>3, <2>1, <3>1, FreshKeeps, FreshOthers
  <2> QED BY <1>6, <2>2, <2>3 DEF PageRead
<1>7. CASE Refused(c)
  <2>1. /\ refused'[c] = sent[c] /\ UNCHANGED token_id
        /\ \A d \in Clients \ {c} : refused'[d] = refused[d]
    BY <1>7 DEF Refused, session, TypeOK
  <2>2. PICK st \in {"version", "tokens"} : Send(c, st, "retry", None)
    BY <1>7 DEF Refused, authenticate
  <2>3. stage'[c] = st /\ purpose'[c] = "retry" /\ sent'[c] = None
    BY <2>2, SendAt
  <2>4. sent[c] <= issued[c] /\ sent[c] \notin valid[c]
    BY <1>1, <1>7 DEF RetryOf, Refused
  <2>5. RetryOf(c)'
    BY <1>1, <1>2, <2>1, <2>2, <2>3, <2>4 DEF RetryOf, None
  <2>6. OthersRest(c)
    BY <1>3, <2>1, <2>2, SendAt DEF OthersRest, Undisturbed
  <2> QED BY <2>5, <2>6
<1>8. CASE ErrorRead(c)
  <2>1. PICK token \in {None, token_id[c]} :
           /\ token_id' = [token_id EXCEPT ![c] = token]
           /\ \E what \in {"unauthorized", "failed"} : Raise(c, what, token)
    BY <1>8 DEF ErrorRead
  <2>2. token \in Nat /\ token <= issued[c]
    BY <1>1, <2>1 DEF None
  <2>3. refused' = [refused EXCEPT ![c] = None]
    BY <1>8 DEF ErrorRead
  <2> QED BY <1>2, <2>1, <2>2, <2>3, RetryRaise
<1> QED BY <1>4, <1>5, <1>6, <1>7, <1>8 DEF Body

LEMMA InitRetry == Init => RetryInv
BY DEF Init, RetryInv, RetryOf, None

LEMMA RetryStep ==
    ASSUME TypeOK, SemInv, RetryInv, [Next]_vars
    PROVE  RetryInv'
<1>1. CASE UNCHANGED vars
  BY <1>1 DEF vars, RetryInv, RetryOf
<1>2. ASSUME NEW c \in Clients, RetryOf(c)', OthersRest(c)
      PROVE  RetryInv'
  BY <1>2, UndisturbedKeeps DEF RetryInv, OthersRest
<1>3. ASSUME NEW c \in Clients, Served(c)
      PROVE  RetryOf(c)' /\ OthersRest(c)
  <2>1. PICK what \in {"ok", "unauthorized"} :
           Respond(c, what) /\ (what = "unauthorized" => ~Authorized(c))
    BY <1>3 DEF Served
  <2> QED BY <2>1, RetryRespond DEF Authorized
<1>4. ASSUME NEW c \in Clients, Denied(c)
      PROVE  RetryOf(c)' /\ OthersRest(c)
  <2>1. PICK what \in {"error", "unauthorized", "bare", "uncataloged"} :
           Respond(c, what) /\ (what = "unauthorized" => stage[c] = "tokens")
    BY <1>4 DEF Denied
  <2> QED BY <2>1, RetryRespond
<1> QED BY <1>1, <1>2, <1>3, <1>4, RetryAsk, RetrySettle, RetryFailed, RetryBody, RetryExpire DEF Next

LEMMA RefusedTwice ==
    ASSUME TypeOK, RetryInv, [Next]_vars, NEW c \in Clients,
           stage[c] = "retry", answer'[c] = "unauthorized", answer[c] # "unauthorized"
    PROVE  refused[c] < sent[c] /\ {refused[c], sent[c]} \cap valid[c] = {}
<1>1. RetryOf(c)
  BY DEF RetryInv
<1>2. reply[c] = "unauthorized"
  <2>1. \E d \in Clients : Ask(d) \/ Failed(d) \/ Body(d)
    <3>1. \/ answer' = answer
          \/ \E d \in Clients : Ask(d) \/ Failed(d) \/ Body(d)
      BY DEF Next, vars, Served, Denied, Respond, Broken, Timeout, Expire, call
    <3> QED BY <3>1
  <2>2. PICK d \in Clients : Ask(d) \/ Failed(d) \/ Body(d)
    BY <2>1
  <2>3. ASSUME NEW what, End(d, what) \/ answer' = answer
        PROVE  d = c /\ what = "unauthorized"
    BY <2>3, EndAt
  <2>4. ASSUME Ask(d) PROVE FALSE
    BY <2>4 DEF Ask, TypeOK
  <2>5. ASSUME Failed(d) PROVE FALSE
    <3>1. Raise(d, "failed", token_id[d]) /\ token_id[d] \in Nat
      BY <2>5 DEF Failed, TypeOK
    <3> QED BY <2>3, <3>1, RaiseFresh
  <2>6. ASSUME Body(d) PROVE reply[c] = "unauthorized"
    <3>1. CASE VersionRead(d) \/ Refused(d)
      BY <3>1 DEF VersionRead, Refused
    <3>2. CASE TokenRead(d)
      <4>1. End(d, "empty") \/ answer' = answer
        BY <3>2 DEF TokenRead
      <4> QED BY <2>3, <4>1
    <3>3. CASE PageRead(d)
      <4>1. End(d, "ok") \/ answer' = answer
        BY <3>3 DEF PageRead
      <4> QED BY <2>3, <4>1
    <3>4. CASE ErrorRead(d)
      <4>1. PICK token \in Nat :
               Raise(d, IF reply[d] = "unauthorized" THEN "unauthorized" ELSE "failed", token)
        BY <3>4 DEF ErrorRead, TypeOK, None
      <4>2. \/ answer' = answer
            \/ End(d, IF reply[d] = "unauthorized" THEN "unauthorized" ELSE "failed")
        BY <4>1, RaiseFresh
      <4> QED BY <2>3, <4>2
    <3> QED BY <2>6, <3>1, <3>2, <3>3, <3>4 DEF Body
  <2> QED BY <2>2, <2>4, <2>5, <2>6
<1> QED BY <1>1, <1>2 DEF RetryOf

\* The expiry of a token goes unnoticed: an unauthorized retry means that two
\* tokens expired, of which the second was issued after the first was refused;
\* with any number of clients, tokens and failures.
THEOREM ExpiryHidden == Spec => ExpiryIsInvisible
<1>1. Init => TypeOK /\ SemInv /\ RetryInv
  BY InitType, InitSem, InitRetry
<1>2. TypeOK /\ SemInv /\ RetryInv /\ [Next]_vars => (TypeOK /\ SemInv /\ RetryInv)'
  BY TypeStep, SemStep, RetryStep
<1>3. TypeOK /\ RetryInv /\ [Next]_vars =>
        [\A c \in Clients :
            stage[c] = "retry" /\ answer'[c] = "unauthorized" /\ answer[c] # "unauthorized" =>
                /\ refused[c] < sent[c]
                /\ {refused[c], sent[c]} \cap valid[c] = {}]_vars
  BY RefusedTwice
<1> QED BY <1>1, <1>2, <1>3, PTL DEF Spec, ExpiryIsInvisible
=============================================================================
