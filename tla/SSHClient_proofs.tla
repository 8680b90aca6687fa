-------------------------- MODULE SSHClient_proofs --------------------------
(***************************************************************************)
(* What the SSH client promises its users, for any requests and any number *)
(* of connection attempts: the list of running deferreds has each request  *)
(* that is not answered once, and disconnect() is final.  If users wait    *)
(* for each answer, as the plugins do, a connection that is lost leaves no *)
(* request without an answer and no command is run after its answer.       *)
(***************************************************************************)
EXTENDS SSHClient, FiniteSetTheorems, TLAPS

-----------------------------------------------------------------------------
(***************************************************************************)
(* list.append() and list.remove() on a list without duplicates.           *)
(***************************************************************************)
LEMMA ConcatFacts ==
    ASSUME NEW A, NEW a \in Seq(A), NEW b \in Seq(A)
    PROVE  /\ a \o b \in Seq(A) /\ Len(a \o b) = Len(a) + Len(b)
           /\ \A k \in 1..(Len(a) + Len(b)) :
                 (a \o b)[k] = IF k <= Len(a) THEN a[k] ELSE b[k - Len(a)]
OBVIOUS

LEMMA RemoveAtFacts ==
    ASSUME NEW A, NEW s \in Seq(A), NEW i \in 1..Len(s)
    PROVE  /\ RemoveAt(s, i) \in Seq(A)
           /\ Len(RemoveAt(s, i)) = Len(s) - 1
           /\ \A k \in 1..(Len(s) - 1) :
                 RemoveAt(s, i)[k] = IF k < i THEN s[k] ELSE s[k + 1]
<1> DEFINE a == SubSeq(s, 1, i - 1)
           b == SubSeq(s, i + 1, Len(s))
<1>0. Len(s) \in Nat /\ i \in Nat /\ 1 <= i /\ i <= Len(s)
  OBVIOUS
<1>1. /\ a \in Seq(A) /\ Len(a) = i - 1
      /\ \A k \in 1..(i - 1) : a[k] = s[k]
  OBVIOUS
<1>2. /\ b \in Seq(A) /\ Len(b) = Len(s) - i
      /\ \A k \in 1..(Len(s) - i) : b[k] = s[i + k]
  OBVIOUS
<1>3. RemoveAt(s, i) = a \o b
  BY DEF RemoveAt
<1> HIDE DEF a, b
<1>4. a \o b \in Seq(A) /\ Len(a \o b) = Len(s) - 1
  <2>1. a \o b \in Seq(A) /\ Len(a \o b) = Len(a) + Len(b)
    BY <1>1, <1>2, ConcatFacts
  <2> QED
    BY <1>0, <1>1, <1>2, <2>1
<1>5. ASSUME NEW k \in 1..(Len(s) - 1)
      PROVE  (a \o b)[k] = IF k < i THEN s[k] ELSE s[k + 1]
  <2>1. (a \o b)[k] = IF k <= Len(a) THEN a[k] ELSE b[k - Len(a)]
    <3>1. k \in 1..(Len(a) + Len(b))
      BY <1>0, <1>1, <1>2
    <3> QED
      BY <1>1, <1>2, <3>1, ConcatFacts
  <2>2. CASE k < i
    BY <1>1, <2>1, <2>2
  <2>3. CASE k >= i
    <3>1. k - (i - 1) \in 1..(Len(s) - i) /\ i + (k - (i - 1)) = k + 1
      BY <2>3
    <3>2. ~(k <= Len(a)) /\ (a \o b)[k] = b[k - (i - 1)]
      BY <1>1, <2>1, <2>3
    <3> QED
      BY <1>2, <2>3, <3>1, <3>2
  <2>4. k < i \/ k >= i
    BY <1>0
  <2> QED
    BY <2>2, <2>3, <2>4
<1> QED
  BY <1>3, <1>4, <1>5

LEMMA RemoveFacts ==
    ASSUME NEW A, NEW s \in Seq(A), IsInjective(s), NEW i \in DOMAIN s
    PROVE  /\ RemoveAt(s, i) \in Seq(A) /\ IsInjective(RemoveAt(s, i))
           /\ ToSet(RemoveAt(s, i)) = ToSet(s) \ {s[i]}
           /\ Len(RemoveAt(s, i)) = Len(s) - 1
<1> DEFINE t == RemoveAt(s, i)
<1>1. Len(s) \in Nat /\ DOMAIN s = 1..Len(s) /\ i \in 1..Len(s)
  OBVIOUS
<1>2. /\ t \in Seq(A) /\ Len(t) = Len(s) - 1
      /\ \A k \in 1..(Len(s) - 1) : t[k] = IF k < i THEN s[k] ELSE s[k + 1]
  BY <1>1, RemoveAtFacts
<1> HIDE DEF t
<1>3. DOMAIN t = 1..(Len(s) - 1)
  BY <1>2
<1>4. \A j, k \in DOMAIN s : s[j] = s[k] => j = k
  BY DEF IsInjective
<1>5. IsInjective(t)
  <2> SUFFICES ASSUME NEW j \in 1..(Len(s) - 1), NEW k \in 1..(Len(s) - 1), t[j] = t[k]
               PROVE  j = k
    BY <1>3 DEF IsInjective
  <2> DEFINE at(x) == IF x < i THEN x ELSE x + 1
  <2>1. at(j) \in DOMAIN s /\ at(k) \in DOMAIN s /\ t[j] = s[at(j)] /\ t[k] = s[at(k)]
    BY <1>1, <1>2
  <2>2. at(j) = at(k)
    BY <1>4, <2>1
  <2> QED
    BY <1>1, <2>2
<1>6. ASSUME NEW k \in 1..(Len(s) - 1) PROVE t[k] \in ToSet(s) \ {s[i]}
  <2>1. CASE k < i
    <3>1. k \in DOMAIN s /\ k # i /\ t[k] = s[k]
      BY <1>1, <1>2, <2>1
    <3> QED
      BY <1>4, <3>1 DEF ToSet
  <2>2. CASE ~(k < i)
    <3>1. k + 1 \in DOMAIN s /\ k + 1 # i
      BY <1>1, <2>2
    <3>2. t[k] = s[k + 1]
      BY <1>2, <2>2
    <3> QED
      BY <1>4, <3>1, <3>2 DEF ToSet
  <2> QED
    BY <2>1, <2>2
<1>7. ASSUME NEW j \in DOMAIN s, j # i PROVE \E k \in 1..(Len(s) - 1) : t[k] = s[j]
  <2>1. CASE j < i
    BY <1>1, <1>2, <2>1
  <2>2. CASE j > i
    <3>1. j - 1 \in 1..(Len(s) - 1) /\ ~(j - 1 < i) /\ (j - 1) + 1 = j
      BY <1>1, <2>2
    <3> QED
      BY <1>2, <3>1
  <2>3. j < i \/ j > i
    BY <1>1, <1>7
  <2> QED
    BY <2>1, <2>2, <2>3
<1>8. ToSet(t) = ToSet(s) \ {s[i]}
  <2>1. ASSUME NEW x \in ToSet(t) PROVE x \in ToSet(s) \ {s[i]}
    <3>1. PICK k \in 1..(Len(s) - 1) : x = t[k]
      BY <1>3 DEF ToSet
    <3> QED
      BY <1>6, <3>1
  <2>2. ASSUME NEW x \in ToSet(s) \ {s[i]} PROVE x \in ToSet(t)
    <3>1. PICK j \in DOMAIN s : x = s[j]
      BY DEF ToSet
    <3>2. PICK k \in 1..(Len(s) - 1) : t[k] = s[j]
      BY <1>7, <3>1
    <3> QED
      BY <1>3, <3>1, <3>2 DEF ToSet
  <2> QED
    BY <2>1, <2>2
<1> QED
  BY <1>2, <1>5, <1>8 DEF t

LEMMA AppendFacts ==
    ASSUME NEW A, NEW s \in Seq(A), IsInjective(s), NEW x \in A, x \notin ToSet(s)
    PROVE  /\ Append(s, x) \in Seq(A) /\ IsInjective(Append(s, x))
           /\ ToSet(Append(s, x)) = ToSet(s) \cup {x}
           /\ Len(Append(s, x)) = Len(s) + 1
<1>1. /\ Len(s) \in Nat /\ DOMAIN s = 1..Len(s)
      /\ Append(s, x) \in Seq(A) /\ Len(Append(s, x)) = Len(s) + 1
      /\ DOMAIN Append(s, x) = 1..(Len(s) + 1)
      /\ Append(s, x)[Len(s) + 1] = x
      /\ \A k \in 1..Len(s) : Append(s, x)[k] = s[k]
  OBVIOUS
<1>2. \A k \in 1..Len(s) : s[k] # x
  BY <1>1 DEF ToSet
<1>3. \A k \in 1..(Len(s) + 1) : k \in 1..Len(s) \/ k = Len(s) + 1
  BY <1>1
<1>4. IsInjective(Append(s, x))
  BY <1>1, <1>2, <1>3 DEF IsInjective
<1>5. ToSet(Append(s, x)) = ToSet(s) \cup {x}
  <2>1. \A k \in 1..Len(s) : k \in 1..(Len(s) + 1)
    BY <1>1
  <2>2. Len(s) + 1 \in 1..(Len(s) + 1)
    BY <1>1
  <2> QED
    BY <1>1, <1>3, <2>1, <2>2 DEF ToSet
<1> QED
  BY <1>1, <1>4, <1>5

\* A list without duplicates is no longer than its set is large.
LEMMA LengthBound ==
    ASSUME NEW S, IsFiniteSet(S), NEW s \in Seq(S), IsInjective(s)
    PROVE  Len(s) <= Cardinality(S)
<1>1. Len(s) \in Nat /\ DOMAIN s = 1..Len(s)
  OBVIOUS
<1>2. s \in Bijection(1..Len(s), ToSet(s))
  BY <1>1 DEF Bijection, Injection, Surjection, IsInjective, ToSet
<1>3. Cardinality(ToSet(s)) = Len(s)
  BY <1>1, <1>2, FS_CountingElements DEF ExistsBijection
<1>4. ToSet(s) \in SUBSET S
  BY <1>1 DEF ToSet
<1>5. Cardinality(ToSet(s)) <= Cardinality(S)
  BY <1>4, FS_Subset
<1> QED
  BY <1>3, <1>5

-----------------------------------------------------------------------------
(***************************************************************************)
(* The requests and the list of those that have no answer yet.             *)
(***************************************************************************)
Outcomes == {"none", "result", "lost", "timeout", "refused"}

RequestsInv ==
    /\ stage \in [Requests -> Stages]
    /\ answer \in [Requests -> Outcomes]
    /\ timer \in [Requests -> BOOLEAN]
    /\ running \in Seq(Requests)
    /\ IsInjective(running)
    /\ ToSet(running) = {r \in Asked : ~Answered(r)}
    /\ \A r \in Requests : stage[r] = "new" => answer[r] = "none"

LEMMA CleanupFacts ==
    ASSUME RequestsInv, NEW r \in Requests, _cleanupRunningDeferreds(r)
    PROVE  /\ running' \in Seq(Requests) /\ IsInjective(running')
           /\ ToSet(running') = ToSet(running) \ {r}
           /\ Len(running') = IF r \in ToSet(running) THEN Len(running) - 1 ELSE Len(running)
<1>1. CASE r \in ToSet(running)
  <2> DEFINE i == CHOOSE i \in DOMAIN running : running[i] = r
  <2>1. i \in DOMAIN running /\ running[i] = r
    BY <1>1 DEF ToSet
  <2>2. running' = RemoveAt(running, i)
    BY <1>1 DEF _cleanupRunningDeferreds
  <2> HIDE DEF i
  <2> QED
    BY <1>1, <2>1, <2>2, RemoveFacts DEF RequestsInv
<1>2. CASE r \notin ToSet(running)
  BY <1>2 DEF _cleanupRunningDeferreds, RequestsInv
<1> QED
  BY <1>1, <1>2

\* A request gets its answer and leaves the list.
LEMMA AnswerKeepsRequests ==
    ASSUME RequestsInv, NEW r \in Requests, _cleanupRunningDeferreds(r),
           NEW what \in Outcomes \ {"none"}, answer' = [answer EXCEPT ![r] = what],
           NEW s \in Stages \ {"new"}, stage' = [stage EXCEPT ![r] = s],
           timer' \in [Requests -> BOOLEAN]
    PROVE  RequestsInv'
<1>1. /\ stage' \in [Requests -> Stages] /\ stage'[r] = s
      /\ \A q \in Requests \ {r} : stage'[q] = stage[q]
  BY DEF RequestsInv
<1>2. /\ answer' \in [Requests -> Outcomes] /\ answer'[r] = what
      /\ \A q \in Requests \ {r} : answer'[q] = answer[q]
  BY DEF RequestsInv
<1>3. ToSet(running') = {q \in Asked' : answer'[q] = "none"}
  <2>1. ToSet(running') = {q \in Asked : answer[q] = "none"} \ {r}
    BY CleanupFacts DEF RequestsInv, Answered
  <2>2. \A q \in Requests : q \in Asked' /\ answer'[q] = "none"
                               <=> q \in Asked /\ answer[q] = "none" /\ q # r
    BY <1>1, <1>2 DEF Asked
  <2>3. Asked \subseteq Requests /\ Asked' \subseteq Requests
    BY DEF Asked
  <2> QED
    BY <2>1, <2>2, <2>3
<1>4. \A q \in Requests : stage'[q] = "new" => answer'[q] = "none"
  BY <1>1, <1>2 DEF RequestsInv
<1> QED
  BY <1>1, <1>2, <1>3, <1>4, CleanupFacts DEF RequestsInv, Answered

\* Requests get on with their work; which are asked and answered stays.
LEMMA WorkKeepsRequests ==
    ASSUME RequestsInv, UNCHANGED <<running, answer>>,
           stage' \in [Requests -> Stages], timer' \in [Requests -> BOOLEAN],
           \A r \in Requests : stage'[r] = "new" <=> stage[r] = "new"
    PROVE  RequestsInv'
<1>1. Asked' = Asked
  BY DEF Asked
<1> QED
  BY <1>1 DEF RequestsInv, Answered

LEMMA AskKeepsRequests ==
    ASSUME RequestsInv, NEW r \in Requests, Ask(r)
    PROVE  RequestsInv'
<1>1. /\ stage[r] = "new" /\ running' = Append(running, r) /\ answer' = answer
      /\ stage' \in [Requests -> Stages] /\ stage'[r] # "new"
      /\ \A q \in Requests \ {r} : stage'[q] = stage[q]
      /\ timer' \in [Requests -> BOOLEAN]
  BY DEF Ask, Asks, RequestsInv, Stages
<1>2. answer[r] = "none" /\ r \notin ToSet(running)
  BY <1>1 DEF RequestsInv, Asked
<1>3. /\ running' \in Seq(Requests) /\ IsInjective(running')
      /\ ToSet(running') = ToSet(running) \cup {r}
  BY <1>1, <1>2, AppendFacts DEF RequestsInv
<1>4. ToSet(running') = {q \in Asked' : answer'[q] = "none"}
  <2>1. \A q \in Requests : q \in Asked' <=> q \in Asked \/ q = r
    BY <1>1 DEF Asked
  <2>2. Asked \subseteq Requests /\ Asked' \subseteq Requests
    BY DEF Asked
  <2> QED
    BY <1>1, <1>2, <1>3, <2>1, <2>2 DEF RequestsInv, Answered
<1>5. \A q \in Requests : stage'[q] = "new" => answer'[q] = "none"
  BY <1>1 DEF RequestsInv
<1> QED
  BY <1>1, <1>3, <1>4, <1>5 DEF RequestsInv, Answered

LEMMA FireKeepsRequests ==
    ASSUME RequestsInv, NEW r \in Requests, stage[r] # "new",
           NEW what \in Outcomes \ {"none"}, Fire(r, what)
    PROVE  RequestsInv'
<1>1. _cleanupRunningDeferreds(r) /\ answer' = [answer EXCEPT ![r] = what]
  BY DEF Fire
<1>2. CASE r \in Ftp
  <2>1. FtpClosed(r) \in Stages \ {"new"}
    BY DEF FtpClosed, Stages
  <2>2. timer' \in [Requests -> BOOLEAN] /\ stage' = [stage EXCEPT ![r] = FtpClosed(r)]
    BY <1>2 DEF Fire, RequestsInv
  <2> QED
    BY <1>1, <2>1, <2>2, AnswerKeepsRequests
<1>3. CASE r \notin Ftp
  <2>1. timer' \in [Requests -> BOOLEAN] /\ stage' = [stage EXCEPT ![r] = stage[r]]
    BY <1>3 DEF Fire, RequestsInv
  <2>2. stage[r] \in Stages \ {"new"}
    BY DEF RequestsInv
  <2> QED
    BY <1>1, <2>1, <2>2, AnswerKeepsRequests
<1> QED
  BY <1>2, <1>3

LEMMA CloseKeepsRequests ==
    ASSUME RequestsInv, NEW r \in Requests, UNCHANGED timer,
           NEW what \in Outcomes \ {"none"}, FireAndClose(r, what)
    PROVE  RequestsInv'
<1> DEFINE w == IF Answered(r) THEN answer[r] ELSE what
<1>1. /\ _cleanupRunningDeferreds(r) /\ answer' = [answer EXCEPT ![r] = w]
      /\ stage' = [stage EXCEPT ![r] = "closed"]
  BY DEF FireAndClose
<1>2. w \in Outcomes \ {"none"} /\ "closed" \in Stages \ {"new"}
  BY DEF RequestsInv, Answered, Stages
<1>3. timer' \in [Requests -> BOOLEAN]
  BY DEF RequestsInv
<1> QED
  BY <1>1, <1>2, <1>3, AnswerKeepsRequests

LEMMA TimeoutKeepsRequests ==
    ASSUME RequestsInv, NEW r \in Requests, _timeoutCalled(r)
    PROVE  RequestsInv'
<1> DEFINE w == IF Answered(r) THEN answer[r] ELSE "timeout"
           s == IF r \in Ftp THEN FtpClosed(r) ELSE "closed"
<1>1. /\ _cleanupRunningDeferreds(r) /\ answer' = [answer EXCEPT ![r] = w]
      /\ stage' = [stage EXCEPT ![r] = s]
      /\ timer' \in [Requests -> BOOLEAN]
  BY DEF _timeoutCalled, RequestsInv
<1>2. w \in Outcomes \ {"none"}
  BY DEF RequestsInv, Answered, Outcomes
<1>3. s \in Stages \ {"new"}
  BY DEF FtpClosed, Stages
<1> QED
  BY <1>1, <1>2, <1>3, AnswerKeepsRequests

LEMMA ResetKeepsRequests ==
    ASSUME RequestsInv, StartReset
    PROVE  RequestsInv'
<1>1. UNCHANGED <<running, answer, timer>>
  BY DEF StartReset
<1>2. \A r \in Requests :
          stage'[r] = IF stage[r] = "waiting" THEN "orphan"
                      ELSE IF stage[r] \in {"opening", "open", "eof"} THEN "cut" ELSE stage[r]
  BY DEF StartReset
<1>3. stage' \in [Requests -> Stages] /\ \A r \in Requests : stage'[r] = "new" <=> stage[r] = "new"
  <2>1. stage' = [r \in Requests |-> stage'[r]]
    BY DEF StartReset
  <2>2. \A r \in Requests : stage[r] \in Stages
    BY DEF RequestsInv
  <2> QED
    BY <1>2, <2>1, <2>2 DEF Stages
<1>4. timer' \in [Requests -> BOOLEAN]
  BY <1>1 DEF RequestsInv
<1> QED
  BY <1>1, <1>3, <1>4, WorkKeepsRequests

\* The steps of channels that answer nothing.
LEMMA ChannelKeepsRequests ==
    ASSUME RequestsInv, NEW r \in Requests,
           channelOpen(r) \/ _cbSFTP(r) \/ eofReceived(r) \/ (openFailed(r) /\ r \in Ftp)
    PROVE  RequestsInv'
<1>1. /\ UNCHANGED <<running, answer>>
      /\ stage[r] # "new"
      /\ \E s \in Stages \ {"new"} : stage' = [stage EXCEPT ![r] = s]
      /\ timer' \in [Requests -> BOOLEAN]
  <2>1. CASE channelOpen(r)
    <3>1. "open" \in Stages \ {"new"}
      BY DEF Stages
    <3>2. UNCHANGED <<running, answer>> /\ stage[r] # "new" /\ stage' = [stage EXCEPT ![r] = "open"]
      BY <2>1 DEF channelOpen
    <3>3. timer' \in [Requests -> BOOLEAN]
      BY <2>1 DEF channelOpen, RequestsInv
    <3> QED
      BY <3>1, <3>2, <3>3
  <2>2. CASE _cbSFTP(r)
    <3>1. {"open", "stuck"} \subseteq Stages \ {"new"}
      BY DEF Stages
    <3> QED
      BY <2>2, <3>1 DEF _cbSFTP, RequestsInv
  <2>3. CASE eofReceived(r)
    <3>1. "eof" \in Stages \ {"new"}
      BY DEF Stages
    <3> QED
      BY <2>3, <3>1 DEF eofReceived, RequestsInv
  <2>4. CASE openFailed(r) /\ r \in Ftp
    <3>1. "stuck" \in Stages \ {"new"}
      BY DEF Stages
    <3> QED
      BY <2>4, <3>1 DEF openFailed, RequestsInv
  <2> QED
    BY <2>1, <2>2, <2>3, <2>4
<1>2. stage' \in [Requests -> Stages] /\ \A q \in Requests : stage'[q] = "new" <=> stage[q] = "new"
  BY <1>1 DEF RequestsInv
<1> QED
  BY <1>1, <1>2, WorkKeepsRequests

\* The server's answer to a file operation, which may come after its timeout.
LEMMA DoneKeepsRequests ==
    ASSUME RequestsInv, NEW r \in Requests, _cbdone(r)
    PROVE  RequestsInv'
<1>1. CASE Answered(r)
  <2>1. /\ UNCHANGED <<running, answer>> /\ stage[r] # "new"
        /\ stage' = [stage EXCEPT ![r] = "stuck"]
    BY <1>1 DEF _cbdone
  <2>2. timer' \in [Requests -> BOOLEAN]
    BY <1>1 DEF _cbdone, RequestsInv
  <2>3. stage' \in [Requests -> Stages] /\ \A q \in Requests : stage'[q] = "new" <=> stage[q] = "new"
    BY <2>1 DEF RequestsInv, Stages
  <2> QED
    BY <2>1, <2>2, <2>3, WorkKeepsRequests
<1>2. CASE ~Answered(r)
  BY <1>2, FireKeepsRequests DEF _cbdone, Outcomes
<1> QED
  BY <1>1, <1>2

LEMMA StepKeepsRequests ==
    ASSUME RequestsInv, [Next]_vars
    PROVE  RequestsInv'
<1>1. ASSUME UNCHANGED <<running, stage, answer, timer>> PROVE RequestsInv'
  <2>1. stage' \in [Requests -> Stages] /\ timer' \in [Requests -> BOOLEAN]
    BY <1>1 DEF RequestsInv
  <2> QED
    BY <1>1, <2>1, WorkKeepsRequests
<1>2. CASE Users
  <2>1. CASE connect
    BY <1>1, <2>1 DEF connect, requestVars
  <2>2. CASE disconnect
    BY <1>1, <2>2, ResetKeepsRequests DEF disconnect, requestVars
  <2> QED
    BY <1>2, <2>1, <2>2, AskKeepsRequests DEF Users
<1>3. CASE Callbacks
  <2>1. ASSUME NEW r \in Requests, ChannelStopped(r) PROVE RequestsInv'
    BY <2>1, CloseKeepsRequests DEF ChannelStopped, Outcomes
  <2>2. CASE clientConnectionLost
    BY <2>2, ResetKeepsRequests DEF clientConnectionLost
  <2>3. CASE ResetStep
    <3>1. running[loop] \in ToSet(running)
      BY <2>3 DEF ResetStep, RequestsInv, ToSet
    <3>2. running[loop] \in Requests /\ stage[running[loop]] # "new"
      BY <3>1 DEF RequestsInv, Asked
    <3> QED
      BY <2>3, <3>2, FireKeepsRequests DEF ResetStep, Outcomes
  <2>4. CASE ResetDone
    BY <1>1, <2>4 DEF ResetDone, requestVars
  <2> QED
    BY <1>3, <2>1, <2>2, <2>3, <2>4 DEF Callbacks
<1>4. CASE Server
  <2>1. CASE buildProtocol \/ connectionSecure
    BY <1>1, <2>1 DEF buildProtocol, connectionSecure, requestVars
  <2>2. CASE serviceStarted
    <3>1. /\ UNCHANGED <<running, answer, timer>>
          /\ stage' = [r \in Requests |-> IF stage[r] = "waiting" THEN "opening" ELSE stage[r]]
      BY <2>2 DEF serviceStarted
    <3>2. /\ stage' \in [Requests -> Stages] /\ timer' \in [Requests -> BOOLEAN]
          /\ \A r \in Requests : stage'[r] = "new" <=> stage[r] = "new"
      BY <3>1 DEF RequestsInv, Stages
    <3> QED
      BY <3>1, <3>2, WorkKeepsRequests
  <2>3. CASE sendDisconnect \/ clientConnectionFailed
    BY <2>3, ResetKeepsRequests DEF sendDisconnect, clientConnectionFailed
  <2>4. ASSUME NEW r \in Requests,
               channelOpen(r) \/ _cbSFTP(r) \/ openFailed(r) \/ eofReceived(r) \/ closed(r) \/ _cbdone(r)
        PROVE  RequestsInv'
    <3>1. CASE openFailed(r) /\ r \notin Ftp
      BY <3>1, CloseKeepsRequests DEF openFailed, Outcomes
    <3>2. CASE closed(r)
      BY <3>2, CloseKeepsRequests DEF closed, Outcomes
    <3>3. CASE _cbdone(r)
      BY <3>3, DoneKeepsRequests
    <3> QED
      BY <2>4, <3>1, <3>2, <3>3, ChannelKeepsRequests
  <2> QED
    BY <1>4, <2>1, <2>2, <2>3, <2>4 DEF Server
<1>5. CASE connectionLost
  BY <1>1, <1>5 DEF connectionLost, requestVars
<1>6. CASE Timers
  <2>1. CASE retry
    BY <1>1, <2>1 DEF retry, requestVars
  <2> QED
    BY <1>6, <2>1, TimeoutKeepsRequests DEF Timers
<1>7. CASE UNCHANGED vars
  BY <1>1, <1>7 DEF vars
<1> QED
  BY <1>2, <1>3, <1>4, <1>5, <1>6, <1>7 DEF Next

-----------------------------------------------------------------------------
(***************************************************************************)
(* The connection.  An attempt is scheduled or made only for a user who    *)
(* has called connect(); one who has not, or not again, leaves a client    *)
(* that does not try.                                                      *)
(***************************************************************************)
Loops == 0..(Cardinality(Requests) + 1)

Attempts == 0..MaxAttempts

LinkInv ==
    /\ link \in Links
    /\ attempts \in Attempts
    /\ connector \in BOOLEAN /\ trying \in BOOLEAN /\ answering \in BOOLEAN
    /\ loop \in Loops
    /\ link \in {"retrying", "connecting"} => connector
    /\ ~connector /\ trying => link = "down" /\ loop = 0

LEMMA StepKeepsLink ==
    ASSUME RequestsInv, LinkInv, [Next]_vars
    PROVE  LinkInv'
<1>0. MaxAttempts \in Nat /\ IsFiniteSet(Requests)
  BY SSHAssumption
<1>1. Cardinality(Requests) \in Nat /\ Len(running) \in Nat /\ Len(running) <= Cardinality(Requests)
  BY <1>0, LengthBound, FS_CardinalityType DEF RequestsInv
<1>11. 0 \in Loops /\ 1 \in Loops
  BY <1>1 DEF Loops
<1>12. attempts \in Attempts /\ attempts < MaxAttempts => attempts + 1 \in Attempts
  BY <1>0 DEF Attempts
<1>2. ASSUME UNCHANGED <<link, attempts, connector, trying, loop>>, answering' \in BOOLEAN
      PROVE  LinkInv'
  BY <1>2 DEF LinkInv
<1>3. ASSUME StartReset, link' = "down" \/ link' = "closing",
             UNCHANGED <<attempts, connector, trying>>, link # "down"
      PROVE  LinkInv'
  BY <1>11, <1>3 DEF LinkInv, StartReset, Links
<1>4. ASSUME UNCHANGED <<attempts, connector, trying, loop, answering>>, link # "down",
             link' \in {"secure", "up", "dead"}
      PROVE  LinkInv'
  BY <1>4 DEF LinkInv, Links
<1>5. CASE Users
  <2>1. CASE connect
    BY <1>12, <2>1 DEF LinkInv, connect, Links
  <2>2. CASE disconnect
    BY <1>11, <2>2 DEF LinkInv, disconnect, StartReset, Links
  <2>3. ASSUME NEW r \in Requests, Ask(r) PROVE LinkInv'
    BY <1>2, <2>3 DEF Ask, Asks, linkVars, LinkInv
  <2> QED
    BY <1>5, <2>1, <2>2, <2>3 DEF Users
<1>6. CASE Callbacks
  <2>1. ASSUME NEW r \in Requests, ChannelStopped(r) PROVE LinkInv'
    BY <1>2, <2>1 DEF ChannelStopped, linkVars
  <2>2. CASE clientConnectionLost
    BY <1>3, <2>2 DEF clientConnectionLost
  <2>3. CASE ResetStep
    <3>1. loop' \in Loops /\ loop # 0
      BY <1>1, <2>3 DEF ResetStep, Loops
    <3>2. UNCHANGED <<link, attempts, connector, trying>> /\ answering' = TRUE
      BY <2>3 DEF ResetStep, linkVars
    <3> QED
      BY <3>1, <3>2 DEF LinkInv
  <2>4. CASE ResetDone
    <3>1. loop # 0
      BY <1>1, <2>4 DEF ResetDone
    <3> QED
      BY <1>11, <2>4, <3>1 DEF LinkInv, ResetDone, Links
  <2> QED
    BY <1>6, <2>1, <2>2, <2>3, <2>4 DEF Callbacks
<1>7. CASE Server
  <2>1. CASE buildProtocol
    BY <2>1 DEF LinkInv, buildProtocol, Links
  <2>2. CASE connectionSecure \/ serviceStarted
    BY <1>4, <2>2 DEF connectionSecure, serviceStarted
  <2>3. CASE sendDisconnect \/ clientConnectionFailed
    BY <1>3, <2>3 DEF sendDisconnect, clientConnectionFailed
  <2>4. ASSUME NEW r \in Requests,
               channelOpen(r) \/ _cbSFTP(r) \/ openFailed(r) \/ eofReceived(r) \/ closed(r) \/ _cbdone(r)
        PROVE  LinkInv'
    <3>1. NothingElse
      BY <2>4 DEF channelOpen, _cbSFTP, openFailed, eofReceived, closed, _cbdone
    <3> QED
      BY <1>2, <3>1 DEF NothingElse, linkVars, LinkInv
  <2> QED
    BY <1>7, <2>1, <2>2, <2>3, <2>4 DEF Server
<1>8. CASE connectionLost
  BY <1>4, <1>8 DEF connectionLost
<1>9. CASE Timers
  <2>1. CASE retry
    BY <1>12, <2>1 DEF LinkInv, retry, Links
  <2>2. ASSUME NEW r \in Requests, _timeoutCalled(r) PROVE LinkInv'
    BY <1>2, <2>2 DEF _timeoutCalled, NothingElse, linkVars, LinkInv
  <2> QED
    BY <1>9, <2>1, <2>2 DEF Timers
<1>10. CASE UNCHANGED vars
  BY <1>2, <1>10 DEF vars, LinkInv
<1> QED
  BY <1>5, <1>6, <1>7, <1>8, <1>9, <1>10 DEF Next

ClientInv == RequestsInv /\ LinkInv

LEMMA InitEstablishesClient == Init => ClientInv
<1> SUFFICES ASSUME Init PROVE ClientInv
  OBVIOUS
<1>1. Cardinality(Requests) \in Nat /\ MaxAttempts \in Nat
  BY SSHAssumption, FS_CardinalityType
<1>2. LinkInv
  <2>1. 0 \in Attempts /\ 0 \in Loops
    BY <1>1 DEF Attempts, Loops
  <2> QED
    BY <2>1 DEF Init, LinkInv, Links
<1>3. <<>> \in Seq(Requests) /\ IsInjective(<<>>) /\ ToSet(<<>>) = {}
  BY DEF IsInjective, ToSet
<1>4. Asked = {}
  BY DEF Init, Asked
<1>5. RequestsInv
  BY <1>3, <1>4 DEF Init, RequestsInv, Stages, Outcomes
<1> QED
  BY <1>2, <1>5 DEF ClientInv

LEMMA ClientInvHolds == Spec => []ClientInv
<1>1. ClientInv /\ [Next]_vars => ClientInv'
  BY StepKeepsRequests, StepKeepsLink DEF ClientInv
<1> QED
  BY <1>1, InitEstablishesClient, PTL DEF Spec

\* runningDeferreds has each request that was asked and not answered, once
\* (trackDeferred, _cleanupRunningDeferreds).
THEOREM TypeOKHolds == Spec => []TypeOK
<1>1. ClientInv => TypeOK
  BY DEF ClientInv, RequestsInv, LinkInv, TypeOK, Outcomes, Loops, Attempts
<1> QED
  BY <1>1, ClientInvHolds, PTL

\* After disconnect() the client makes no connection unless connect() is called
\* (disconnect, resetConnection, and how Twisted's factory retries).
THEOREM StaysDisconnectedHolds == Spec => StaysDisconnected
<1>1. ClientInv /\ [Next]_vars => [~connector /\ attempts' > attempts => connector']_vars
  <2> SUFFICES ASSUME ClientInv, [Next]_vars, ~connector, attempts' > attempts
               PROVE  connector'
    OBVIOUS
  <2>1. attempts' # attempts
    BY DEF ClientInv, LinkInv, Attempts
  <2>2. connect \/ retry
    BY <2>1 DEF Next, Users, Callbacks, Server, Timers, vars, disconnect, Ask, Asks,
                ChannelStopped, clientConnectionLost, ResetStep, ResetDone, buildProtocol,
                connectionSecure, serviceStarted, sendDisconnect, clientConnectionFailed,
                channelOpen, _cbSFTP, openFailed, eofReceived, closed, _cbdone,
                connectionLost, _timeoutCalled, NothingElse, linkVars
  <2> QED
    BY <2>2 DEF connect, retry, ClientInv, LinkInv
<1> QED
  BY <1>1, ClientInvHolds, PTL DEF Spec, StaysDisconnected

-----------------------------------------------------------------------------
(***************************************************************************)
(* Users who wait for each answer.  The list has one request at most, so   *)
(* the loop of resetConnection, which skips what moves up in the list it   *)
(* walks, misses none: it begins with every request cut off from the old   *)
(* connection, fires that one, and ends on what a callback asks for anew,  *)
(* which waits on the next connection.                                     *)
(***************************************************************************)
OneInv ==
    /\ Len(running) <= 1
    /\ loop \in 0..2
    /\ loop = 1 => /\ ~answering
                   /\ \A r \in Requests : stage[r] \notin {"waiting", "opening", "open", "eof"}
    /\ loop # 1 => \A r \in Asked : Answered(r) \/ stage[r] \notin {"orphan", "cut"}
    /\ \A r \in Requests \ Ftp : Answered(r) => stage[r] \notin {"new", "waiting", "opening"}

\* The two parts that are about single requests.
NoneLeft == \A r \in Requests : answer[r] = "none" => stage[r] \notin {"orphan", "cut"}

CommandsEnd ==
    \A r \in Requests \ Ftp : answer[r] # "none" => stage[r] \notin {"new", "waiting", "opening"}

LEMMA OneParts ==
    OneInv <=> /\ Len(running) <= 1
               /\ loop \in 0..2
               /\ loop = 1 => ~answering /\ \A r \in Requests :
                                  stage[r] \notin {"waiting", "opening", "open", "eof"}
               /\ loop # 1 => NoneLeft
               /\ CommandsEnd
BY DEF OneInv, NoneLeft, CommandsEnd, Answered, Asked

LEMMA OnePartsNext ==
    OneInv' <=> /\ Len(running') <= 1
                /\ loop' \in 0..2
                /\ loop' = 1 => ~answering' /\ \A r \in Requests :
                                   stage'[r] \notin {"waiting", "opening", "open", "eof"}
                /\ loop' # 1 => NoneLeft'
                /\ CommandsEnd'
BY DEF OneInv, NoneLeft, CommandsEnd, Answered, Asked

\* A step that leaves the requests alone.
LEMMA OneFrame ==
    ASSUME OneInv, UNCHANGED <<running, stage, answer>>,
           UNCHANGED <<loop, answering>> \/ (loop' = 0 /\ loop # 1)
    PROVE  OneInv'
<1>1. NoneLeft => NoneLeft'
  BY DEF NoneLeft
<1>2. CommandsEnd => CommandsEnd'
  BY DEF CommandsEnd
<1>3. UNCHANGED <<loop, answering>> => OneInv'
  BY <1>1, <1>2, OneParts, OnePartsNext
<1>4. loop' = 0 /\ loop # 1 => OneInv'
  BY <1>1, <1>2, OneParts, OnePartsNext
<1> QED
  BY <1>3, <1>4

\* A step that changes one request, outside the loop or after its only round.
LEMMA OneWork ==
    ASSUME RequestsInv, OneInv, loop # 1, NEW r \in Requests,
           \A q \in Requests \ {r} : stage'[q] = stage[q] /\ answer'[q] = answer[q],
           answer'[r] = "none" => stage'[r] \notin {"orphan", "cut"},
           r \notin Ftp /\ answer'[r] # "none" => stage'[r] \notin {"new", "waiting", "opening"},
           Len(running') <= 1, UNCHANGED loop
    PROVE  OneInv'
<1>1. NoneLeft'
  BY OneParts DEF NoneLeft
<1>2. CommandsEnd'
  BY OneParts DEF CommandsEnd
<1> QED
  BY <1>1, <1>2, OneParts, OnePartsNext

LEMMA OneReset ==
    ASSUME RequestsInv, OneInv, StartReset
    PROVE  OneInv'
<1>1. /\ UNCHANGED <<running, answer>> /\ loop' = 1 /\ answering' = FALSE
      /\ \A r \in Requests :
            stage'[r] = IF stage[r] = "waiting" THEN "orphan"
                        ELSE IF stage[r] \in {"opening", "open", "eof"} THEN "cut" ELSE stage[r]
  BY DEF StartReset
<1>2. \A r \in Requests : stage'[r] \notin {"waiting", "opening", "open", "eof"}
  BY <1>1
<1>3. CommandsEnd'
  BY <1>1, OneParts DEF CommandsEnd
<1>4. Len(running') <= 1 /\ loop' \in 0..2
  BY <1>1 DEF OneInv
<1> QED
  BY <1>1, <1>2, <1>3, <1>4, OnePartsNext

LEMMA OneStep ==
    ASSUME RequestsInv, OneInv, ResetStep
    PROVE  OneInv'
<1> DEFINE r == running[loop]
<1>1. loop = 1 /\ Len(running) = 1
  <2>1. loop \in 1..Len(running) /\ Len(running) <= 1 /\ Len(running) \in Nat
    BY DEF ResetStep, OneInv, RequestsInv
  <2>2. \A n \in Nat : \A i \in 1..n : n <= 1 => i = 1 /\ n = 1
    OBVIOUS
  <2> QED
    BY ONLY <2>1, <2>2
<1>2. r \in ToSet(running) /\ r \in Requests /\ stage[r] # "new"
  <2>1. r \in ToSet(running)
    BY <1>1 DEF RequestsInv, ToSet
  <2> QED
    BY <2>1 DEF RequestsInv, Asked
<1>3. /\ _cleanupRunningDeferreds(r) /\ answer' = [answer EXCEPT ![r] = "lost"]
      /\ stage' = [stage EXCEPT ![r] = IF r \in Ftp THEN FtpClosed(r) ELSE stage[r]]
      /\ loop' = loop + 1
  BY DEF ResetStep, Fire, RequestsInv
<1> HIDE DEF r
<1>4. Len(running') = 0 /\ loop' = 2
  BY <1>1, <1>2, <1>3, CleanupFacts
<1>5. /\ answer'[r] = "lost"
      /\ \A q \in Requests \ {r} : stage'[q] = stage[q] /\ answer'[q] = answer[q]
      /\ r \notin Ftp => stage'[r] = stage[r]
  BY <1>2, <1>3 DEF RequestsInv
<1>6. \A q \in Requests \ {r} : answer[q] = "none" => stage[q] = "new"
  <2>1. DOMAIN running = {1}
    BY <1>1 DEF RequestsInv
  <2>2. ToSet(running) = {r}
    BY <1>1, <2>1 DEF ToSet, r
  <2> QED
    BY <2>2 DEF RequestsInv, Asked, Answered
<1>7. NoneLeft'
  BY <1>5, <1>6 DEF NoneLeft
<1>8. CommandsEnd'
  <2>1. stage[r] \notin {"new", "waiting", "opening"}
    BY <1>1, <1>2, OneParts
  <2> QED
    BY <1>5, <2>1, OneParts DEF CommandsEnd
<1> QED
  BY <1>4, <1>7, <1>8, OnePartsNext

LEMMA OneDone ==
    ASSUME RequestsInv, OneInv, ResetDone
    PROVE  OneInv'
<1>1. loop > Len(running) /\ loop' = 0 /\ UNCHANGED <<running, stage, answer>>
  BY DEF ResetDone, requestVars
<1>2. CASE loop # 1
  BY <1>1, <1>2, OneFrame
<1>3. CASE loop = 1
  <2>1. Len(running) = 0
    BY <1>1, <1>3 DEF RequestsInv
  <2>2. ToSet(running) = {}
    BY <2>1 DEF RequestsInv, ToSet
  <2>3. \A r \in Requests : answer[r] = "none" => stage[r] = "new"
    BY <2>2 DEF RequestsInv, Asked, Answered
  <2>4. NoneLeft'
    BY <1>1, <2>3 DEF NoneLeft
  <2>5. CommandsEnd'
    BY <1>1, OneParts DEF CommandsEnd
  <2>6. Len(running') <= 1
    BY <1>1 DEF OneInv
  <2> QED
    BY <1>1, <2>4, <2>5, <2>6, OnePartsNext
<1> QED
  BY <1>2, <1>3

LEMMA OneAsk ==
    ASSUME OneAtATime, RequestsInv, OneInv, NEW r \in Requests, Ask(r)
    PROVE  OneInv'
<1>1. /\ running = <<>> /\ running' = Append(running, r) /\ stage[r] = "new"
      /\ UNCHANGED <<loop, answer>>
      /\ stage' = [stage EXCEPT ![r] = IF loop = 0 /\ link = "up" THEN "opening" ELSE "waiting"]
      /\ MayAct
  BY DEF Ask, Asks
<1>2. loop # 1
  BY <1>1 DEF MayAct, Idle, OneInv
<1>3. Len(running') <= 1
  BY <1>1 DEF RequestsInv
<1>4. answer'[r] = "none"
  BY <1>1 DEF RequestsInv
<1>5. /\ stage'[r] \in {"opening", "waiting"}
      /\ \A q \in Requests \ {r} : stage'[q] = stage[q] /\ answer'[q] = answer[q]
  BY <1>1 DEF RequestsInv
<1> QED
  BY <1>1, <1>2, <1>3, <1>4, <1>5, OneWork

\* A request is answered and, if it is a command, its channel closed.
LEMMA OneAnswer ==
    ASSUME RequestsInv, OneInv, loop = 0, UNCHANGED loop, NEW r \in Requests,
           _cleanupRunningDeferreds(r),
           answer'[r] # "none", \A q \in Requests \ {r} : answer'[q] = answer[q],
           \A q \in Requests \ {r} : stage'[q] = stage[q],
           r \notin Ftp => stage'[r] = "closed"
    PROVE  OneInv'
<1>1. Len(running') <= 1
  <2>1. Len(running) <= 1 /\ Len(running) \in Nat
    BY DEF OneInv, RequestsInv
  <2>2. Len(running') <= Len(running) /\ Len(running') \in Nat
    BY CleanupFacts DEF RequestsInv
  <2> QED
    BY ONLY <2>1, <2>2
<1>2. loop # 1
  OBVIOUS
<1> QED
  BY <1>1, <1>2, OneWork

LEMMA OneClose ==
    ASSUME RequestsInv, OneInv, loop = 0, UNCHANGED loop, NEW r \in Requests,
           NEW what \in Outcomes \ {"none"}, FireAndClose(r, what)
    PROVE  OneInv'
<1>1. _cleanupRunningDeferreds(r)
  BY DEF FireAndClose
<1>2. answer'[r] # "none" /\ \A q \in Requests \ {r} : answer'[q] = answer[q]
  BY DEF FireAndClose, RequestsInv, Answered
<1>3. stage'[r] = "closed" /\ \A q \in Requests \ {r} : stage'[q] = stage[q]
  BY DEF FireAndClose, RequestsInv
<1> QED
  BY <1>1, <1>2, <1>3, OneAnswer

\* The steps of channels that answer nothing.
LEMMA OneChannel ==
    ASSUME RequestsInv, OneInv, NEW r \in Requests,
           channelOpen(r) \/ _cbSFTP(r) \/ eofReceived(r) \/ (openFailed(r) /\ r \in Ftp)
    PROVE  OneInv'
<1>1. loop = 0 /\ UNCHANGED loop /\ UNCHANGED <<running, answer>>
  BY DEF channelOpen, _cbSFTP, eofReceived, openFailed, OnUp, Idle, NothingElse
<1>2. \E s \in {"open", "stuck", "eof"} : stage' = [stage EXCEPT ![r] = s]
  BY DEF channelOpen, _cbSFTP, eofReceived, openFailed
<1>3. /\ stage'[r] \in {"open", "stuck", "eof"}
      /\ \A q \in Requests \ {r} : stage'[q] = stage[q] /\ answer'[q] = answer[q]
  BY <1>1, <1>2 DEF RequestsInv
<1>4. Len(running') <= 1
  BY <1>1 DEF OneInv
<1> QED
  BY <1>1, <1>3, <1>4, OneWork

LEMMA OneService ==
    ASSUME RequestsInv, OneInv, serviceStarted
    PROVE  OneInv'
<1>1. /\ loop = 0 /\ UNCHANGED <<running, answer, loop>>
      /\ \A r \in Requests : stage'[r] = IF stage[r] = "waiting" THEN "opening" ELSE stage[r]
  BY DEF serviceStarted, Idle
<1>2. NoneLeft'
  BY <1>1, OneParts DEF NoneLeft
<1>3. CommandsEnd'
  BY <1>1, OneParts DEF CommandsEnd
<1>4. Len(running') <= 1
  BY <1>1 DEF OneInv
<1> QED
  BY <1>1, <1>2, <1>3, <1>4, OnePartsNext

LEMMA StepKeepsOne ==
    ASSUME OneAtATime, ClientInv, OneInv, [Next]_vars
    PROVE  OneInv'
<1>0. RequestsInv
  BY DEF ClientInv
<1>1. CASE Users
  <2>1. CASE connect
    BY <2>1, OneFrame DEF connect, requestVars
  <2>2. CASE disconnect
    BY <1>0, <2>2, OneFrame, OneReset DEF disconnect, requestVars
  <2> QED
    BY <1>0, <1>1, <2>1, <2>2, OneAsk DEF Users
<1>2. CASE Callbacks
  <2>1. ASSUME NEW r \in Requests, ChannelStopped(r) PROVE OneInv'
    BY <1>0, <2>1, OneClose DEF ChannelStopped, Outcomes
  <2>2. CASE clientConnectionLost
    BY <1>0, <2>2, OneReset DEF clientConnectionLost
  <2> QED
    BY <1>0, <1>2, <2>1, <2>2, OneStep, OneDone DEF Callbacks
<1>3. CASE Server
  <2>1. CASE buildProtocol \/ connectionSecure
    BY <2>1, OneFrame DEF buildProtocol, connectionSecure, requestVars
  <2>2. CASE sendDisconnect \/ clientConnectionFailed
    BY <1>0, <2>2, OneReset DEF sendDisconnect, clientConnectionFailed
  <2>3. ASSUME NEW r \in Requests,
               channelOpen(r) \/ _cbSFTP(r) \/ openFailed(r) \/ eofReceived(r) \/ closed(r) \/ _cbdone(r)
        PROVE  OneInv'
    <3>1. loop = 0 /\ UNCHANGED loop
      BY <2>3 DEF channelOpen, _cbSFTP, openFailed, eofReceived, closed, _cbdone,
                  OnUp, Idle, NothingElse
    <3>2. CASE openFailed(r) /\ r \notin Ftp
      BY <1>0, <3>1, <3>2, OneClose DEF openFailed, Outcomes
    <3>3. CASE closed(r)
      BY <1>0, <3>1, <3>3, OneClose DEF closed, Outcomes
    <3>4. CASE _cbdone(r) /\ Answered(r)
      <4>1. /\ UNCHANGED <<running, answer>> /\ r \in Ftp
            /\ stage' = [stage EXCEPT ![r] = "stuck"]
        BY <3>4 DEF _cbdone
      <4>2. /\ answer'[r] # "none"
            /\ \A q \in Requests \ {r} : stage'[q] = stage[q] /\ answer'[q] = answer[q]
        BY <1>0, <3>4, <4>1 DEF RequestsInv, Answered
      <4>3. Len(running') <= 1
        BY <4>1 DEF OneInv
      <4> QED
        BY <1>0, <3>1, <4>1, <4>2, <4>3, OneWork
    <3>5. CASE _cbdone(r) /\ ~Answered(r)
      <4>1. /\ _cleanupRunningDeferreds(r) /\ answer' = [answer EXCEPT ![r] = "result"]
            /\ stage' = [stage EXCEPT ![r] = FtpClosed(r)] /\ r \in Ftp
        BY <3>5 DEF _cbdone, Fire
      <4>2. /\ answer'[r] # "none"
            /\ \A q \in Requests \ {r} : stage'[q] = stage[q] /\ answer'[q] = answer[q]
        BY <1>0, <4>1 DEF RequestsInv
      <4> QED
        BY <1>0, <3>1, <4>1, <4>2, OneAnswer
    <3> QED
      BY <1>0, <2>3, <3>2, <3>3, <3>4, <3>5, OneChannel
  <2> QED
    BY <1>0, <1>3, <2>1, <2>2, <2>3, OneService DEF Server
<1>4. CASE connectionLost
  BY <1>4, OneFrame DEF connectionLost, requestVars
<1>5. CASE Timers
  <2>1. CASE retry
    BY <2>1, OneFrame DEF retry, requestVars
  <2>2. ASSUME NEW r \in Requests, _timeoutCalled(r) PROVE OneInv'
    <3>1. loop = 0 /\ UNCHANGED loop /\ _cleanupRunningDeferreds(r)
      BY <2>2 DEF _timeoutCalled, Idle, NothingElse
    <3>2. answer'[r] # "none" /\ \A q \in Requests \ {r} : answer'[q] = answer[q]
      BY <1>0, <2>2 DEF _timeoutCalled, RequestsInv, Answered
    <3>3. /\ r \notin Ftp => stage'[r] = "closed"
          /\ \A q \in Requests \ {r} : stage'[q] = stage[q]
      BY <1>0, <2>2 DEF _timeoutCalled, RequestsInv
    <3> QED
      BY <1>0, <3>1, <3>2, <3>3, OneAnswer
  <2> QED
    BY <1>5, <2>1, <2>2 DEF Timers
<1>6. CASE UNCHANGED vars
  BY <1>6, OneFrame DEF vars
<1> QED
  BY <1>1, <1>2, <1>3, <1>4, <1>5, <1>6 DEF Next

LEMMA OneInvHolds == OneAtATime => (Spec => []OneInv)
<1>1. Init => OneInv
  BY DEF Init, OneInv, Asked, Answered
<1>2. ASSUME OneAtATime
      PROVE  ClientInv /\ OneInv /\ [Next]_vars => OneInv'
  BY <1>2, StepKeepsOne
<1>3. ASSUME OneAtATime PROVE Spec => []OneInv
  BY <1>1, <1>2, <1>3, ClientInvHolds, PTL DEF Spec
<1> QED
  BY <1>3

\* When resetConnection is done with a lost connection, every request that was
\* on it or waited for it has an answer, if users wait for each answer.
THEOREM NoneForgottenHolds == OneAtATime => (Spec => []NoneForgotten)
<1>1. OneInv => NoneForgotten
  BY DEF OneInv, NoneForgotten
<1> QED
  BY <1>1, OneInvHolds, PTL

\* A command is never sent to the server after its user was told that it
\* failed, if users wait for each answer.
THEOREM NotRunOnceAnsweredHolds == OneAtATime => (Spec => NotRunOnceAnswered)
<1>1. OneInv => [\A r \in Requests : channelOpen(r) => ~Answered(r)]_vars
  BY DEF OneInv, channelOpen
<1> QED
  BY <1>1, OneInvHolds, PTL DEF NotRunOnceAnswered

=============================================================================
