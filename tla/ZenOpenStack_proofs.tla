------------------------ MODULE ZenOpenStack_proofs ------------------------
(***************************************************************************)
(* What the daemon does with events, metrics and object maps, for any      *)
(* number of devices, configurations, requests, vNICs and failures: queues *)
(* keep the settings of their devices, everything posted is sent in order, *)
(* once and to its device or accounted for, and a vNIC is modeled once.    *)
(***************************************************************************)
EXTENDS ZenOpenStack, FiniteSetTheorems, SequenceTheorems, WellFoundedInduction, TLAPS

-----------------------------------------------------------------------------
(***************************************************************************)
(* Least elements, and what Select keeps.                                  *)
(***************************************************************************)
Below == {p \in Nat \X Nat : p[1] < p[2]}

LEMMA BelowIsWellFounded == IsWellFoundedOn(Below, Nat)
<1>1. OpToRel(<, Nat) = Below
  BY Zenon DEF OpToRel, Below
<1> QED
  BY <1>1, NatLessThanWellFounded, Zenon

LEMMA LeastNatural ==
    ASSUME NEW S \in SUBSET Nat, S # {}
    PROVE  \E m \in S : \A x \in S : m <= x
<1>1. PICK m \in S : \A y \in S : ~ (<<y, m>> \in Below)
  BY WFMin, BelowIsWellFounded
<1>2. \A y \in S : ~ (y < m)
  BY <1>1 DEF Below
<1> QED
  BY <1>2

\* Nth counts the members of a set of positions from the least on.
LEMMA NthFacts ==
    ASSUME NEW n \in Nat, NEW at \in SUBSET (1..n)
    PROVE  /\ Cardinality(at) \in Nat
           /\ \A k \in 1..Cardinality(at) : Nth(at, k) \in at
           /\ \A k, l \in 1..Cardinality(at) : k < l => Nth(at, k) < Nth(at, l)
           /\ \A i \in at : \E k \in 1..Cardinality(at) : i = Nth(at, k)
<1> DEFINE upto == [m \in 0..n |-> {j \in at : j <= m}]
           count == [m \in 0..n |-> Cardinality(upto[m])]
<1>0. \A j \in at : j \in 0..n /\ 1 <= j
  BY SMT
<1>1. IsFiniteSet(at) /\ Cardinality(at) \in Nat
  <2>1. IsFiniteSet(1..n)
    BY FS_Interval
  <2> QED
    BY <2>1, FS_Subset, FS_CardinalityType
<1>2. \A m \in 0..n : /\ upto[m] = {j \in at : j <= m}
                      /\ upto[m] \in SUBSET at
                      /\ IsFiniteSet(upto[m])
                      /\ count[m] = Cardinality(upto[m])
                      /\ count[m] \in Nat
  BY <1>1, FS_Subset, FS_CardinalityType
<1>3. \A i \in at : count[i] = Cardinality({j \in at : j <= i})
  BY <1>0
<1> HIDE DEF upto, count
<1>4. ASSUME NEW m \in 0..n, NEW l \in 0..n, m <= l
      PROVE  count[m] <= count[l] /\ (count[m] = count[l] => upto[m] = upto[l])
  <2>1. upto[m] \in SUBSET upto[l]
    <3>1. upto[m] = {j \in at : j <= m} /\ upto[l] = {j \in at : j <= l}
      BY <1>2
    <3>2. \A j \in at : j <= m => j <= l
      BY <1>0, <1>4
    <3> QED
      BY <3>1, <3>2
  <2> QED
    BY <1>2, <2>1, FS_Subset
<1>5. ASSUME NEW m \in 0..n, NEW l \in at, m < l
      PROVE  count[m] < count[l]
  <2>1. l \in 0..n /\ l \in upto[l] /\ l \notin upto[m]
    <3>1. l \in 0..n
      BY <1>0
    <3>2. upto[m] = {j \in at : j <= m} /\ upto[l] = {j \in at : j <= l}
      BY <1>2, <3>1
    <3> QED
      BY <1>5, <3>1, <3>2
  <2>2. count[m] <= count[l] /\ count[m] # count[l]
    BY <1>4, <1>5, <2>1
  <2> QED
    BY <1>2, <2>1, <2>2
<1>6. count[n] = Cardinality(at) /\ count[0] = 0
  <2>0. n \in 0..n /\ 0 \in 0..n
    OBVIOUS
  <2>1. upto[n] = {j \in at : j <= n} /\ upto[0] = {j \in at : j <= 0}
    BY <1>2, <2>0
  <2>2. upto[n] = at
    <3>1. \A j \in at : j <= n
      BY <1>0
    <3> QED
      BY <2>1, <3>1
  <2>3. upto[0] = {}
    <3>1. \A j \in at : ~(j <= 0)
      BY <1>0
    <3> QED
      BY <2>1, <3>1
  <2> QED
    BY <1>2, <2>0, <2>2, <2>3, FS_EmptySet
<1>7. ASSUME NEW k \in 1..Cardinality(at)
      PROVE  \E i \in at : count[i] = k
  <2> DEFINE S == {m \in 0..n : count[m] >= k}
  <2>1. PICK m \in S : \A x \in S : m <= x
    <3>1. n \in S /\ S \in SUBSET Nat
      BY <1>1, <1>6
    <3> QED
      BY <3>1, LeastNatural
  <2>2. m \in 1..n /\ m - 1 \in 0..n /\ count[m] >= k
    <3>1. m \in 0..n /\ m # 0 /\ count[m] >= k
      BY <1>6, <2>1
    <3> QED
      BY <3>1
  <2>3. count[m - 1] < k
    <3>1. m - 1 \notin S
      BY <2>1, <2>2
    <3> QED
      BY <1>2, <2>2, <3>1
  <2>4. upto[m] = {j \in at : j <= m} /\ upto[m - 1] = {j \in at : j <= m - 1}
    BY <1>2, <2>2
  <2>5. /\ m \in at
        /\ upto[m] = upto[m - 1] \cup {m}
        /\ m \notin upto[m - 1]
    <3>1. \A j \in at : j <= m <=> j <= m - 1 \/ j = m
      BY <1>0, <2>2
    <3>2. m \notin at => upto[m] = upto[m - 1]
      BY <2>4, <3>1
    <3>3. m \in at
      BY <1>2, <2>2, <2>3, <3>2
    <3>4. upto[m] = upto[m - 1] \cup {m}
      BY <2>4, <3>1, <3>3
    <3>5. m \notin upto[m - 1]
      BY <2>2, <2>4
    <3> QED
      BY <3>3, <3>4, <3>5
  <2>6. count[m] = count[m - 1] + 1
    <3>1. /\ IsFiniteSet(upto[m - 1])
          /\ count[m] = Cardinality(upto[m])
          /\ count[m - 1] = Cardinality(upto[m - 1])
      BY <1>2, <2>2
    <3> QED
      BY <2>5, <3>1, FS_AddElement
  <2> QED
    BY <1>2, <2>2, <2>3, <2>5, <2>6
<1>8. \A k \in 1..Cardinality(at) : Nth(at, k) \in at /\ count[Nth(at, k)] = k
  BY <1>3, <1>7 DEF Nth
<1>9. ASSUME NEW k \in 1..Cardinality(at), NEW l \in 1..Cardinality(at), k < l
      PROVE  Nth(at, k) < Nth(at, l)
  <2> DEFINE a == Nth(at, k)
             b == Nth(at, l)
  <2>1. a \in at /\ b \in at /\ count[a] = k /\ count[b] = l
    BY <1>8
  <2> HIDE DEF a, b
  <2>2. a \in 0..n /\ b \in 0..n
    BY <1>0, <2>1
  <2>3. b <= a => l <= k
    BY <1>4, <2>1, <2>2
  <2>4. a < b
    BY <1>1, <1>9, <2>2, <2>3
  <2> QED
    BY <2>4 DEF a, b
<1>10. ASSUME NEW i \in at
       PROVE  \E k \in 1..Cardinality(at) : i = Nth(at, k)
  <2> DEFINE b == Nth(at, count[i])
  <2>1. i \in 0..n /\ 1 <= i /\ 0 \in 0..n /\ n \in 0..n
    BY <1>0
  <2>2. count[0] < count[i] /\ count[i] <= count[n]
    BY <1>4, <1>5, <2>1
  <2>3. count[i] \in 1..Cardinality(at)
    BY <1>1, <1>2, <1>6, <2>1, <2>2
  <2>4. b \in at /\ count[b] = count[i]
    BY <1>8, <2>3
  <2> HIDE DEF b
  <2>5. ~(b < i) /\ ~(i < b)
    BY <1>0, <1>2, <1>5, <2>1, <2>4
  <2>6. b = i
    BY <1>0, <2>1, <2>4, <2>5
  <2> QED
    BY <2>3, <2>6 DEF b
<1> QED
  BY <1>1, <1>8, <1>9, <1>10

\* What Select keeps, and in which order.
LEMMA SelectFacts ==
    ASSUME NEW A, NEW s \in Seq(A), NEW T
    PROVE  /\ Select(s, T) \in Seq(A)
           /\ Member(Select(s, T)) = Member(s) \cap T
           /\ \E f \in [DOMAIN Select(s, T) -> DOMAIN s] :
                 /\ \A k \in DOMAIN Select(s, T) : Select(s, T)[k] = s[f[k]]
                 /\ \A k, l \in DOMAIN Select(s, T) : k < l => f[k] < f[l]
<1> DEFINE at == {i \in DOMAIN s : s[i] \in T}
           q == Select(s, T)
           f == [k \in 1..Cardinality(at) |-> Nth(at, k)]
<1>1. Len(s) \in Nat /\ DOMAIN s = 1..Len(s) /\ at \in SUBSET (1..Len(s))
  OBVIOUS
<1>2. /\ Cardinality(at) \in Nat
      /\ \A k \in 1..Cardinality(at) : Nth(at, k) \in at
      /\ \A k, l \in 1..Cardinality(at) : k < l => Nth(at, k) < Nth(at, l)
      /\ \A i \in at : \E k \in 1..Cardinality(at) : i = Nth(at, k)
  BY <1>1, NthFacts
<1>3. q = [k \in 1..Cardinality(at) |-> s[Nth(at, k)]]
  BY DEF Select
<1>4. q \in Seq(A) /\ DOMAIN q = 1..Cardinality(at)
  BY <1>2, <1>3
<1>5. Member(q) = Member(s) \cap T
  <2>1. ASSUME NEW x \in Member(q) PROVE x \in Member(s) \cap T
    BY <1>2, <1>3, <2>1 DEF Member
  <2>2. ASSUME NEW x \in Member(s) \cap T PROVE x \in Member(q)
    <3>1. PICK i \in at : x = s[i]
      BY DEF Member
    <3>2. PICK k \in 1..Cardinality(at) : i = Nth(at, k)
      BY <1>2
    <3>3. k \in DOMAIN q /\ q[k] = x
      BY <1>3, <3>1, <3>2
    <3> QED
      BY <3>3 DEF Member
  <2> QED
    BY <2>1, <2>2
<1>6. f \in [DOMAIN q -> DOMAIN s]
  BY <1>2, <1>4
<1> HIDE DEF at, q
<1>7. /\ \A k \in DOMAIN q : q[k] = s[f[k]]
      /\ \A k, l \in DOMAIN q : k < l => f[k] < f[l]
  BY <1>2, <1>3, <1>4
<1> QED
  BY <1>4, <1>5, <1>6, <1>7 DEF q
-----------------------------------------------------------------------------
(***************************************************************************)
(* Lines: members and order of a concatenation, of a selection, of a queue *)
(* whose first item is taken.                                              *)
(***************************************************************************)
LEMMA MemberConcat ==
    ASSUME NEW A, NEW s \in Seq(A), NEW t \in Seq(A)
    PROVE  Member(s \o t) = Member(s) \cup Member(t)
<1>1. /\ DOMAIN s = 1..Len(s) /\ DOMAIN t = 1..Len(t)
      /\ DOMAIN (s \o t) = 1..(Len(s) + Len(t))
      /\ Len(s) \in Nat /\ Len(t) \in Nat
      /\ \A i \in 1..(Len(s) + Len(t)) :
            (s \o t)[i] = IF i <= Len(s) THEN s[i] ELSE t[i - Len(s)]
  OBVIOUS
<1>2. ASSUME NEW x \in Member(s \o t) PROVE x \in Member(s) \cup Member(t)
  <2>1. PICK i \in 1..(Len(s) + Len(t)) : x = (s \o t)[i]
    BY <1>1, <1>2 DEF Member
  <2>2. CASE i <= Len(s)
    BY <1>1, <2>1, <2>2 DEF Member
  <2>3. CASE i > Len(s)
    <3>1. i - Len(s) \in 1..Len(t) /\ x = t[i - Len(s)]
      BY <1>1, <2>1, <2>3
    <3> QED
      BY <1>1, <3>1 DEF Member
  <2> QED
    BY <1>1, <2>2, <2>3
<1>3. ASSUME NEW i \in 1..Len(s) PROVE s[i] \in Member(s \o t)
  <2>1. i \in 1..(Len(s) + Len(t)) /\ (s \o t)[i] = s[i]
    BY <1>1
  <2> QED
    BY <1>1, <2>1 DEF Member
<1>4. ASSUME NEW i \in 1..Len(t) PROVE t[i] \in Member(s \o t)
  <2>1. Len(s) + i \in 1..(Len(s) + Len(t)) /\ (s \o t)[Len(s) + i] = t[i]
    BY <1>1
  <2> QED
    BY <1>1, <2>1 DEF Member
<1> QED
  BY <1>1, <1>2, <1>3, <1>4 DEF Member

\* The numbers of what was posted.  The name keeps arithmetic out of the steps
\* that are about lines only.
Number == Nat

\* The order that a relation asks of the numbers in a line: all of them, or
\* those of one component.
Before(p) == {q \in Nat \X Nat : p[q[1]].component = p[q[2]].component => q[1] < q[2]}

Always == {q \in Nat \X Nat : q[1] < q[2]}

Ordered(s, R) == \A i, j \in DOMAIN s : i < j => <<s[i], s[j]>> \in R

LEMMA Orders ==
    ASSUME NEW s \in Seq(Number), NEW p
    PROVE  /\ Increasing(s) <=> Ordered(s, Always)
           /\ OrderedByComponent(s, p) <=> Ordered(s, Before(p))
<1>1. \A i \in DOMAIN s : s[i] \in Nat
  BY DEF Number
<1> QED
  BY <1>1 DEF Increasing, OrderedByComponent, Ordered, Always, Before, Number

LEMMA OrderedConcat ==
    ASSUME NEW A, NEW s \in Seq(A), NEW t \in Seq(A), NEW R
    PROVE  Ordered(s \o t, R) <=>
               /\ Ordered(s, R) /\ Ordered(t, R)
               /\ \A x \in Member(s), y \in Member(t) : <<x, y>> \in R
<1>1. /\ DOMAIN s = 1..Len(s) /\ DOMAIN t = 1..Len(t)
      /\ DOMAIN (s \o t) = 1..(Len(s) + Len(t))
      /\ Len(s) \in Nat /\ Len(t) \in Nat
      /\ \A i \in 1..(Len(s) + Len(t)) :
            (s \o t)[i] = IF i <= Len(s) THEN s[i] ELSE t[i - Len(s)]
  OBVIOUS
<1>2. /\ \A i \in 1..Len(s) : i \in 1..(Len(s) + Len(t)) /\ (s \o t)[i] = s[i]
      /\ \A i \in 1..Len(t) : /\ Len(s) + i \in 1..(Len(s) + Len(t))
                              /\ (s \o t)[Len(s) + i] = t[i]
  BY <1>1
<1>3. ASSUME Ordered(s \o t, R)
      PROVE  /\ Ordered(s, R) /\ Ordered(t, R)
             /\ \A x \in Member(s), y \in Member(t) : <<x, y>> \in R
  <2>1. Ordered(s, R)
    BY <1>1, <1>2, <1>3 DEF Ordered
  <2>2. ASSUME NEW i \in DOMAIN t, NEW j \in DOMAIN t, i < j
        PROVE  <<t[i], t[j]>> \in R
    <3>1. Len(s) + i < Len(s) + j
      BY <1>1, <2>2
    <3>2. /\ Len(s) + i \in DOMAIN (s \o t) /\ (s \o t)[Len(s) + i] = t[i]
          /\ Len(s) + j \in DOMAIN (s \o t) /\ (s \o t)[Len(s) + j] = t[j]
      BY <1>1, <1>2
    <3> QED
      BY <1>3, <3>1, <3>2 DEF Ordered
  <2>3. ASSUME NEW i \in DOMAIN s, NEW j \in DOMAIN t
        PROVE  <<s[i], t[j]>> \in R
    <3>1. i < Len(s) + j
      BY <1>1
    <3> QED
      BY <1>1, <1>2, <1>3, <3>1 DEF Ordered
  <2> QED
    BY <2>1, <2>2, <2>3 DEF Ordered, Member
<1>4. ASSUME Ordered(s, R), Ordered(t, R),
             \A x \in Member(s), y \in Member(t) : <<x, y>> \in R
      PROVE  Ordered(s \o t, R)
  <2> SUFFICES ASSUME NEW i \in 1..(Len(s) + Len(t)), NEW j \in 1..(Len(s) + Len(t)), i < j
               PROVE  <<(s \o t)[i], (s \o t)[j]>> \in R
    BY <1>1 DEF Ordered
  <2>1. CASE j <= Len(s)
    <3>1. i \in DOMAIN s /\ j \in DOMAIN s /\ (s \o t)[i] = s[i] /\ (s \o t)[j] = s[j]
      BY <1>1, <2>1
    <3> QED
      BY <1>4, <3>1 DEF Ordered
  <2>2. CASE i <= Len(s) /\ j > Len(s)
    <3>1. i \in DOMAIN s /\ j - Len(s) \in DOMAIN t
      BY <1>1, <2>2
    <3>2. s[i] \in Member(s) /\ t[j - Len(s)] \in Member(t)
      BY <3>1 DEF Member
    <3>3. (s \o t)[i] = s[i] /\ (s \o t)[j] = t[j - Len(s)]
      BY <1>1, <2>2
    <3> QED
      BY <1>4, <3>2, <3>3
  <2>3. CASE i > Len(s)
    <3>1. i - Len(s) \in DOMAIN t /\ j - Len(s) \in DOMAIN t /\ i - Len(s) < j - Len(s)
      BY <1>1, <2>3
    <3>2. (s \o t)[i] = t[i - Len(s)] /\ (s \o t)[j] = t[j - Len(s)]
      BY <1>1, <2>3
    <3>3. <<t[i - Len(s)], t[j - Len(s)]>> \in R
      BY <1>4, <3>1 DEF Ordered
    <3> QED
      BY <3>2, <3>3
  <2>4. j <= Len(s) \/ (i <= Len(s) /\ j > Len(s)) \/ i > Len(s)
    BY <1>1
  <2> QED
    BY <2>1, <2>2, <2>3, <2>4
<1> QED
  BY <1>3, <1>4

\* A line of three parts, in terms of its parts.
Cross(s, t, R) == \A x \in Member(s), y \in Member(t) : <<x, y>> \in R

LEMMA ThreeParts ==
    ASSUME NEW A, NEW a \in Seq(A), NEW b \in Seq(A), NEW c \in Seq(A), NEW R
    PROVE  /\ a \o (b \o c) \in Seq(A)
           /\ Member(a \o (b \o c)) = Member(a) \cup Member(b) \cup Member(c)
           /\ Ordered(a \o (b \o c), R) <=>
                 /\ Ordered(a, R) /\ Ordered(b, R) /\ Ordered(c, R)
                 /\ Cross(a, b, R) /\ Cross(a, c, R) /\ Cross(b, c, R)
<1>1. b \o c \in Seq(A) /\ a \o (b \o c) \in Seq(A)
  OBVIOUS
<1>2. Member(b \o c) = Member(b) \cup Member(c)
  BY MemberConcat
<1>3. Ordered(b \o c, R) <=> Ordered(b, R) /\ Ordered(c, R) /\ Cross(b, c, R)
  BY OrderedConcat DEF Cross
<1> DEFINE d == b \o c
<1>4. d \in Seq(A)
  BY <1>1
<1> HIDE DEF d
<1>5. /\ Member(a \o d) = Member(a) \cup Member(d)
      /\ Ordered(a \o d, R) <=> Ordered(a, R) /\ Ordered(d, R) /\ Cross(a, d, R)
  BY <1>4, MemberConcat, OrderedConcat DEF Cross
<1>6. Member(d) = Member(b) \cup Member(c)
  BY <1>2 DEF d
<1>7. Cross(a, d, R) <=> Cross(a, b, R) /\ Cross(a, c, R)
  BY <1>6 DEF Cross
<1>8. Ordered(a \o d, R) <=> /\ Ordered(a, R) /\ Ordered(b, R) /\ Ordered(c, R)
                             /\ Cross(a, b, R) /\ Cross(a, c, R) /\ Cross(b, c, R)
  BY <1>3, <1>5, <1>7 DEF d
<1>9. Member(a \o d) = Member(a) \cup Member(b) \cup Member(c)
  BY <1>5, <1>6
<1> QED
  BY <1>1, <1>8, <1>9 DEF d

LEMMA SelectOrdered ==
    ASSUME NEW A, NEW s \in Seq(A), NEW T, NEW R, Ordered(s, R)
    PROVE  Ordered(Select(s, T), R)
<1> DEFINE q == Select(s, T)
<1>1. PICK f \in [DOMAIN q -> DOMAIN s] :
          /\ \A k \in DOMAIN q : q[k] = s[f[k]]
          /\ \A k, l \in DOMAIN q : k < l => f[k] < f[l]
  BY SelectFacts
<1> HIDE DEF q
<1>2. Ordered(q, R)
  BY <1>1 DEF Ordered
<1> QED
  BY <1>2 DEF q

LEMMA FirstTaken ==
    ASSUME NEW A, NEW q \in Seq(A), q # <<>>
    PROVE  /\ <<Head(q)>> \in Seq(A) /\ Tail(q) \in Seq(A)
           /\ <<Head(q)>> \o Tail(q) = q
<1>1. Head(q) \in A /\ Tail(q) \in Seq(A) /\ <<Head(q)>> \in Seq(A)
  OBVIOUS
<1>2. Len(<<Head(q)>> \o Tail(q)) = Len(q)
  BY <1>1
<1>3. \A i \in 1..Len(q) : (<<Head(q)>> \o Tail(q))[i] = q[i]
  BY <1>1
<1>4. <<Head(q)>> \o Tail(q) \in Seq(A)
  BY <1>1
<1> QED
  BY <1>1, <1>2, <1>3, <1>4, SeqEqual

-----------------------------------------------------------------------------
(***************************************************************************)
(* The map queues of registered devices exist and are configured.          *)
(***************************************************************************)
\* Appending maps never disturbs the settings of a registered device: the web
\* handler appends for registered devices, the vNIC task for any.
LEMMA AppendKeepsInv ==
    ASSUME QueuesConfigured, NEW d, NEW ns, AppendMaps(d, ns), UNCHANGED configs
    PROVE  QueuesConfigured'
<1>1. CASE ns = <<>>
  BY <1>1 DEF AppendMaps, QueuesConfigured
<1>2. CASE ns # <<>>
  <2>1. MAP_QUEUE' = WithQueue(d, MapQueue(Queue(d).settings, Queue(d).held \o ns))
    BY <1>2 DEF AppendMaps
  <2>2. \A x \in DOMAIN MAP_QUEUE :
            x \in DOMAIN MAP_QUEUE' /\ MAP_QUEUE'[x].settings = MAP_QUEUE[x].settings
    BY <2>1 DEF WithQueue, MapQueue, Queue
  <2> QED
    BY <2>2 DEF QueuesConfigured
<1> QED
  BY <1>1, <1>2

\* A pushed configuration makes or changes one queue.
LEMMA UpdateKeepsInv ==
    ASSUME QueuesConfigured, NEW d, NEW cfg, _updateConfig(d, cfg)
    PROVE  QueuesConfigured'
<1>1. MAP_QUEUE' = WithQueue(d, MapQueue(cfg.settings, Queue(d).held))
  BY DEF _updateConfig
<1>2. configs' = [x \in DOMAIN configs \cup {d} |-> IF x = d THEN cfg ELSE configs[x]]
  BY DEF _updateConfig, set_config
<1> QED
  BY <1>1, <1>2 DEF QueuesConfigured, WithQueue, MapQueue

\* The map task empties queues and deletes those of unregistered devices only.
LEMMA DrainKeepsInv ==
    ASSUME QueuesConfigured, NEW ready, StartMapTask(ready)
    PROVE  QueuesConfigured'
<1>1. MAP_QUEUE' =
          [d \in KeptQueues(ready) |-> MapQueue(MAP_QUEUE[d].settings, Held(d, ready))]
  BY DEF StartMapTask
<1>2. configs' = configs
  BY DEF StartMapTask, MapTaskUntouched, registryVars
<1>3. DOMAIN configs \subseteq KeptQueues(ready)
  BY DEF QueuesConfigured, KeptQueues, has_device
<1> QED
  BY <1>1, <1>2, <1>3 DEF QueuesConfigured, MapQueue

\* A step that changes neither the registry nor the queues.
LEMMA FrameKeepsInv ==
    ASSUME QueuesConfigured, UNCHANGED <<configs, MAP_QUEUE>>
    PROVE  QueuesConfigured'
BY DEF QueuesConfigured

LEMMA StepKeepsInv ==
    ASSUME QueuesConfigured, [Next]_vars
    PROVE  QueuesConfigured'
<1> USE DEF registryVars, queueVars, mapVars, vnicVars, boundVars
<1>1. ASSUME NEW d \in Devices, NEW cfg \in Configs, _updateConfig(d, cfg)
      PROVE  QueuesConfigured'
  BY <1>1, UpdateKeepsInv
<1>2. ASSUME NEW d \in Devices, _deleteDevice(d)
      PROVE  QueuesConfigured'
  <2>1. /\ MAP_QUEUE' = MAP_QUEUE
        /\ configs' = [x \in DOMAIN configs \ {d} |-> configs[x]]
    BY <1>2 DEF _deleteDevice, remove_device
  <2> QED
    BY <2>1 DEF QueuesConfigured
<1>3. ASSUME NEW d \in Devices, NEW samples \in SamplePayloads, PostSamples(d, samples)
      PROVE  QueuesConfigured'
  <2>1. UNCHANGED <<configs, MAP_QUEUE>>
    BY <1>3 DEF PostSamples
  <2> QED
    BY <2>1, FrameKeepsInv
<1>4. ASSUME NEW d \in Devices, NEW events \in EventPayloads, PostEvents(d, events)
      PROVE  QueuesConfigured'
  <2>1. UNCHANGED configs /\ \E ns : AppendMaps(d, ns)
    BY <1>4 DEF PostEvents
  <2> QED
    BY <2>1, AppendKeepsInv
<1>5. CASE Tick
  <2>1. UNCHANGED <<configs, MAP_QUEUE>>
    BY <1>5 DEF Tick
  <2> QED
    BY <2>1, FrameKeepsInv
<1>6. ASSUME NEW k \in Kinds, QueueTask(k)
      PROVE  QueuesConfigured'
  <2>1. UNCHANGED <<configs, MAP_QUEUE>>
    BY <1>6 DEF QueueTask, StartQueueTask, ItemSent, SendFails, QueueTaskUntouched
  <2> QED
    BY <2>1, FrameKeepsInv
<1>7. CASE MapTask
  <2>1. CASE MapsApplied \/ MapCallFails
    <3>1. UNCHANGED <<configs, MAP_QUEUE>>
      BY <2>1 DEF MapsApplied, MapCallFails, MapTaskUntouched
    <3> QED
      BY <3>1, FrameKeepsInv
  <2> QED
    BY <1>7, <2>1, DrainKeepsInv DEF MapTask
<1>8. CASE VnicTask
  <2>1. CASE StartVnicTask
    <3>1. UNCHANGED <<configs, MAP_QUEUE>>
      BY <2>1 DEF StartVnicTask, VnicTaskUntouched
    <3> QED
      BY <3>1, FrameKeepsInv
  <2>2. CASE NextDevice \/ NextVnic \/ NextInstance
    <3>1. \A s : WalkOn(s) => UNCHANGED <<configs, MAP_QUEUE>>
      BY DEF WalkOn, VnicTaskUntouched
    <3>2. \E s : WalkOn(s)
      BY <2>2 DEF NextDevice, NextVnic, NextInstance
    <3> QED
      BY <3>1, <3>2, FrameKeepsInv
  <2>3. CASE Probe
    <3>1. UNCHANGED configs
      BY <2>3 DEF Probe, VnicTaskUntouched
    <3>2. \/ \E ns : AppendMaps(scan.device, ns)
          \/ UNCHANGED MAP_QUEUE
      BY <2>3 DEF Probe
    <3> QED
      BY <3>1, <3>2, AppendKeepsInv, FrameKeepsInv
  <2> QED
    BY <1>8, <2>1, <2>2, <2>3 DEF VnicTask, VnicWalk
<1>9. CASE UNCHANGED vars
  BY <1>9, FrameKeepsInv DEF vars
<1> QED
  BY <1>1, <1>2, <1>3, <1>4, <1>5, <1>6, <1>7, <1>8, <1>9 DEF Next, Handler

\* The queue of every registered device exists and has the settings of its
\* last configuration (_updateConfig, OpenStackMapTask, OpenStackVnicTask).
THEOREM QueuesConfiguredHolds == Spec => []QueuesConfigured
<1>1. Init => QueuesConfigured
  BY DEF Init, RegistryInit, QueuesConfigured
<1>2. QueuesConfigured /\ [Next]_vars => QueuesConfigured'
  BY StepKeepsInv
<1> QED
  BY <1>1, <1>2, PTL DEF Spec

-----------------------------------------------------------------------------
(***************************************************************************)
(* What is posted, and the two queues of items: the invariant needs the    *)
(* types of what SentInOrder talks about, and that a lost number is one    *)
(* that was posted.                                                        *)
(***************************************************************************)
Tags == Kinds \cup {"map"}

Posting == [device : Devices, component : Components \cup Resources,
            parent : Instances \cup {None}, to : SUBSET Tags]

PostedInv ==
    /\ posted \in Seq(Posting)
    /\ lost \subseteq Tags \X (1..Len(posted))

QueueInv ==
    /\ QUEUE \in [Kinds -> Seq(Number)]
    /\ sending \in [Kinds -> Seq(Number)]
    /\ delivered \in [Kinds -> Seq(Number)]

\* The numbers that items get which go to k.
NewFor(items, k) == {Len(posted) + i : i \in {x \in DOMAIN items : k \in items[x].to}}

\* Posting items numbers them from Len(posted) + 1 on and changes no other.
LEMMA PostFacts ==
    ASSUME PostedInv, NEW items \in Seq(Posting),
           posted' = posted \o items, lost' = lost
    PROVE  /\ PostedInv'
           /\ \A n \in 1..Len(posted) : n \in 1..Len(posted') /\ posted'[n] = posted[n]
           /\ \A i \in DOMAIN items : /\ Len(posted) + i \in 1..Len(posted')
                                      /\ posted'[Len(posted) + i] = items[i]
           /\ \A n \in 1..Len(posted') : n > Len(posted) =>
                  n - Len(posted) \in DOMAIN items
           /\ \A k \in Tags :
                 /\ LostFrom(k)' = LostFrom(k)
                 /\ SentTo(k)' = SentTo(k) \cup NewFor(items, k)
<1>1. /\ Len(posted) \in Nat /\ Len(items) \in Nat /\ DOMAIN items = 1..Len(items)
      /\ posted' \in Seq(Posting) /\ Len(posted') = Len(posted) + Len(items)
      /\ \A n \in 1..(Len(posted) + Len(items)) :
            posted'[n] = IF n <= Len(posted) THEN posted[n] ELSE items[n - Len(posted)]
  BY DEF PostedInv
<1>2. \A n \in 1..Len(posted) : n \in 1..Len(posted') /\ posted'[n] = posted[n]
  BY <1>1
<1>3. \A i \in DOMAIN items : /\ Len(posted) + i \in 1..Len(posted')
                              /\ posted'[Len(posted) + i] = items[i]
  BY <1>1
<1>4. \A n \in 1..Len(posted') : n > Len(posted) => n - Len(posted) \in DOMAIN items
  BY <1>1
<1>5. PostedInv'
  <2>1. \A q \in lost : q \in Tags \X (1..Len(posted'))
    BY <1>2 DEF PostedInv
  <2> QED
    BY <1>1, <2>1 DEF PostedInv
<1>6. ASSUME NEW k \in Tags
      PROVE  LostFrom(k)' = LostFrom(k)
  <2>1. \A n : <<k, n>> \in lost => n \in 1..Len(posted)
    BY DEF PostedInv
  <2> QED
    BY <1>2, <2>1 DEF LostFrom
<1>7. ASSUME NEW k \in Tags
      PROVE  SentTo(k)' = SentTo(k) \cup NewFor(items, k)
  <2>1. ASSUME NEW n \in SentTo(k)' PROVE n \in SentTo(k) \cup NewFor(items, k)
    <3>1. n \in 1..Len(posted') /\ k \in posted'[n].to
      BY DEF SentTo
    <3>2. CASE n <= Len(posted)
      BY <1>1, <1>2, <3>1, <3>2 DEF SentTo
    <3>3. CASE n > Len(posted)
      <4>1. /\ n - Len(posted) \in DOMAIN items
            /\ n = Len(posted) + (n - Len(posted))
        BY <1>1, <1>4, <3>1, <3>3
      <4>2. items[n - Len(posted)] = posted'[n]
        BY <1>3, <4>1
      <4> QED
        BY <3>1, <4>1, <4>2 DEF NewFor
    <3> QED
      BY <1>1, <3>1, <3>2, <3>3
  <2>2. SentTo(k) \subseteq SentTo(k)'
    BY <1>2 DEF SentTo
  <2>3. NewFor(items, k) \subseteq SentTo(k)'
    BY <1>3 DEF SentTo, NewFor
  <2> QED
    BY <2>1, <2>2, <2>3
<1> QED
  BY <1>2, <1>3, <1>4, <1>5, <1>6, <1>7

\* What SentInOrder says of a line, by its parts: what was sent, what is being
\* sent, what is queued.
LEMMA LineParts ==
    ASSUME NEW a \in Seq(Number), NEW b \in Seq(Number), NEW c \in Seq(Number)
    PROVE  /\ Member(a \o (b \o c)) = Member(a) \cup Member(b) \cup Member(c)
           /\ Increasing(a \o (b \o c)) <=>
                 /\ Ordered(a, Always) /\ Ordered(b, Always) /\ Ordered(c, Always)
                 /\ Cross(a, b, Always) /\ Cross(a, c, Always) /\ Cross(b, c, Always)
<1> DEFINE line == a \o (b \o c)
<1>1. line \in Seq(Number)
  BY ThreeParts
<1> HIDE DEF line
<1>2. Increasing(line) <=> Ordered(line, Always)
  BY <1>1, Orders
<1> QED
  BY <1>2, ThreeParts DEF line

\* Items are posted and put at the ends of the queues they go to.
LEMMA PostKeepsOrder ==
    ASSUME PostedInv, QueueInv, SentInOrder,
           NEW items \in Seq(Posting), posted' = posted \o items, lost' = lost,
           NEW ns \in [Kinds -> Seq(Number)],
           \A k \in Kinds : Increasing(ns[k]) /\ Member(ns[k]) = NewFor(items, k),
           QUEUE' = [k \in Kinds |-> QUEUE[k] \o ns[k]],
           UNCHANGED <<sending, delivered>>
    PROVE  PostedInv' /\ QueueInv' /\ SentInOrder'
<1>1. PostedInv'
  BY PostFacts
<1>2. QueueInv'
  BY DEF QueueInv
<1>3. ASSUME NEW k \in Kinds
      PROVE  /\ Increasing(Line(k)')
             /\ Member(Line(k)') \cap LostFrom(k)' = {}
             /\ Member(Line(k)') \cup LostFrom(k)' = SentTo(k)'
  <2>1. /\ QUEUE[k] \in Seq(Number) /\ ns[k] \in Seq(Number) /\ Len(posted) \in Nat
        /\ QUEUE'[k] = QUEUE[k] \o ns[k]
    BY DEF QueueInv, PostedInv
  <2>2. /\ LostFrom(k)' = LostFrom(k)
        /\ SentTo(k)' = SentTo(k) \cup NewFor(items, k)
    BY PostFacts DEF Tags
  <2>3. /\ Increasing(Line(k))
        /\ Member(Line(k)) \cap LostFrom(k) = {}
        /\ Member(Line(k)) \cup LostFrom(k) = SentTo(k)
    BY DEF SentInOrder
  <2>4. \A n \in SentTo(k) \cup LostFrom(k) : n \in Nat /\ n <= Len(posted)
    BY <2>1 DEF SentTo, LostFrom
  <2>5. \A n \in NewFor(items, k) : n \in Nat /\ n > Len(posted)
    BY <2>1 DEF NewFor
  <2>6. /\ Member(QUEUE[k] \o ns[k]) = Member(QUEUE[k]) \cup NewFor(items, k)
        /\ Ordered(QUEUE[k] \o ns[k], Always) <=>
               /\ Ordered(QUEUE[k], Always) /\ Ordered(ns[k], Always)
               /\ Cross(QUEUE[k], ns[k], Always)
    BY <2>1, MemberConcat, OrderedConcat DEF Cross
  <2>7. Ordered(ns[k], Always) /\ Member(ns[k]) = NewFor(items, k)
    BY <2>1, Orders
  <2>8. \A n \in Member(Line(k)), m \in Member(ns[k]) : <<n, m>> \in Always
    BY <2>1, <2>3, <2>4, <2>5, <2>7 DEF Always
  <2>9. /\ Member(Line(k)') = Member(Line(k)) \cup NewFor(items, k)
        /\ Increasing(Line(k)')
    <3>1. /\ delivered[k] \in Seq(Number) /\ sending[k] \in Seq(Number)
          /\ QUEUE[k] \in Seq(Number) /\ QUEUE'[k] \in Seq(Number)
      BY <1>2 DEF QueueInv
    <3>2. /\ Line(k) = delivered[k] \o (sending[k] \o QUEUE[k])
          /\ Line(k)' = delivered[k] \o (sending[k] \o QUEUE'[k])
      BY DEF Line
    <3>3. /\ Member(Line(k)) = Member(delivered[k]) \cup Member(sending[k]) \cup Member(QUEUE[k])
          /\ Ordered(delivered[k], Always) /\ Ordered(sending[k], Always)
          /\ Ordered(QUEUE[k], Always)
          /\ Cross(delivered[k], sending[k], Always)
          /\ Cross(delivered[k], QUEUE[k], Always)
          /\ Cross(sending[k], QUEUE[k], Always)
      BY <2>3, <3>1, <3>2, LineParts
    <3>4. /\ Ordered(QUEUE'[k], Always)
          /\ Cross(delivered[k], QUEUE'[k], Always)
          /\ Cross(sending[k], QUEUE'[k], Always)
      BY <2>1, <2>6, <2>7, <2>8, <3>3 DEF Cross
    <3>5. Increasing(Line(k)')
      BY <3>1, <3>2, <3>3, <3>4, LineParts
    <3>6. Member(delivered[k] \o (sending[k] \o QUEUE'[k]))
              = Member(delivered[k]) \cup Member(sending[k]) \cup Member(QUEUE'[k])
      BY ONLY <3>1, LineParts
    <3>7. Member(QUEUE'[k]) = Member(QUEUE[k]) \cup NewFor(items, k)
      BY <2>1, <2>6
    <3> QED
      BY <3>2, <3>3, <3>5, <3>6, <3>7
  <2>10. NewFor(items, k) \cap LostFrom(k) = {}
    BY <2>1, <2>4, <2>5
  <2> QED
    BY <2>2, <2>3, <2>9, <2>10
<1> QED
  BY <1>1, <1>2, <1>3 DEF SentInOrder

\* SentInOrder by the parts of the lines, now and after a step.
InLine(a, b, c, R) ==
    /\ Ordered(a, R) /\ Ordered(b, R) /\ Ordered(c, R)
    /\ Cross(a, b, R) /\ Cross(a, c, R) /\ Cross(b, c, R)

LEMMA InOrderNow ==
    ASSUME QueueInv, SentInOrder, NEW k \in Kinds
    PROVE  /\ InLine(delivered[k], sending[k], QUEUE[k], Always)
           /\ (Member(delivered[k]) \cup Member(sending[k]) \cup Member(QUEUE[k])) \cap LostFrom(k) = {}
           /\ Member(delivered[k]) \cup Member(sending[k]) \cup Member(QUEUE[k]) \cup LostFrom(k)
                 = SentTo(k)
<1>1. /\ delivered[k] \in Seq(Number) /\ sending[k] \in Seq(Number) /\ QUEUE[k] \in Seq(Number)
  BY DEF QueueInv
<1>2. Line(k) = delivered[k] \o (sending[k] \o QUEUE[k])
  BY DEF Line
<1>3. Increasing(Line(k)) <=> InLine(delivered[k], sending[k], QUEUE[k], Always)
  BY <1>1, <1>2, LineParts DEF InLine
<1>4. Member(Line(k)) = Member(delivered[k]) \cup Member(sending[k]) \cup Member(QUEUE[k])
  BY <1>1, <1>2, LineParts
<1> QED
  BY <1>3, <1>4 DEF SentInOrder

LEMMA InOrderNext ==
    ASSUME QueueInv', NEW k \in Kinds,
           InLine(delivered'[k], sending'[k], QUEUE'[k], Always),
           (Member(delivered'[k]) \cup Member(sending'[k]) \cup Member(QUEUE'[k]))
               \cap LostFrom(k)' = {},
           Member(delivered'[k]) \cup Member(sending'[k]) \cup Member(QUEUE'[k])
               \cup LostFrom(k)' = SentTo(k)'
    PROVE  /\ Increasing(Line(k)')
           /\ Member(Line(k)') \cap LostFrom(k)' = {}
           /\ Member(Line(k)') \cup LostFrom(k)' = SentTo(k)'
<1>1. /\ delivered'[k] \in Seq(Number) /\ sending'[k] \in Seq(Number) /\ QUEUE'[k] \in Seq(Number)
  BY DEF QueueInv
<1>2. Line(k)' = delivered'[k] \o (sending'[k] \o QUEUE'[k])
  BY DEF Line
<1>3. Increasing(Line(k)')
  BY <1>1, <1>2, LineParts DEF InLine
<1>4. Member(Line(k)') = Member(delivered'[k]) \cup Member(sending'[k]) \cup Member(QUEUE'[k])
  BY <1>1, <1>2, LineParts
<1> QED
  BY <1>3, <1>4

\* Taking the first item splits the queue.
LEMMA PopFacts ==
    ASSUME QueueInv, NEW k \in Kinds, PopLeft(k)
    PROVE  /\ sending' = [sending EXCEPT ![k] = <<Head(QUEUE[k])>>]
           /\ QUEUE' = [QUEUE EXCEPT ![k] = Tail(QUEUE[k])]
           /\ <<Head(QUEUE[k])>> \in Seq(Number) /\ Tail(QUEUE[k]) \in Seq(Number)
           /\ Member(QUEUE[k]) = Member(sending'[k]) \cup Member(QUEUE'[k])
           /\ Ordered(QUEUE[k], Always) <=>
                 /\ Ordered(sending'[k], Always) /\ Ordered(QUEUE'[k], Always)
                 /\ Cross(sending'[k], QUEUE'[k], Always)
<1> DEFINE q == QUEUE[k]
           h == <<Head(q)>>
           t == Tail(q)
<1>1. q \in Seq(Number) /\ q # <<>>
  BY DEF QueueInv, PopLeft
<1>2. /\ sending' = [sending EXCEPT ![k] = h] /\ QUEUE' = [QUEUE EXCEPT ![k] = t]
      /\ sending'[k] = h /\ QUEUE'[k] = t
  BY DEF PopLeft, QueueInv
<1> HIDE DEF q
<1>3. h \in Seq(Number) /\ t \in Seq(Number) /\ h \o t = q
  BY <1>1, FirstTaken
<1> HIDE DEF h, t
<1>4. /\ Member(h \o t) = Member(h) \cup Member(t)
      /\ Ordered(h \o t, Always) <=> Ordered(h, Always) /\ Ordered(t, Always) /\ Cross(h, t, Always)
  BY <1>3, MemberConcat, OrderedConcat DEF Cross
<1>5. /\ Member(q) = Member(h) \cup Member(t)
      /\ Ordered(q, Always) <=> Ordered(h, Always) /\ Ordered(t, Always) /\ Cross(h, t, Always)
  BY <1>3, <1>4
<1> QED
  BY <1>2, <1>3, <1>5 DEF q, h, t

LEMMA NothingToSend ==
    /\ <<>> \in Seq(Number) /\ Member(<<>>) = {}
    /\ \A R : Ordered(<<>>, R)
    /\ \A s, R : Cross(s, <<>>, R) /\ Cross(<<>>, s, R)
BY DEF Member, Ordered, Cross

\* A step of the task of one queue.
LEMMA QueueTaskKeepsOrder ==
    ASSUME PostedInv, QueueInv, SentInOrder, NEW k \in Kinds, QueueTask(k)
    PROVE  PostedInv' /\ QueueInv' /\ SentInOrder'
<1> DEFINE dl == delivered[k]
           sd == sending[k]
           q == QUEUE[k]
<1>1. posted' = posted
  BY DEF QueueTask, StartQueueTask, ItemSent, SendFails, QueueTaskUntouched
<1>2. /\ dl \in Seq(Number) /\ sd \in Seq(Number) /\ q \in Seq(Number)
  BY DEF QueueInv
<1>3. /\ InLine(dl, sd, q, Always)
      /\ (Member(dl) \cup Member(sd) \cup Member(q)) \cap LostFrom(k) = {}
      /\ Member(dl) \cup Member(sd) \cup Member(q) \cup LostFrom(k) = SentTo(k)
  BY InOrderNow
<1>4. /\ dl \o sd \in Seq(Number)
      /\ Member(dl \o sd) = Member(dl) \cup Member(sd)
      /\ Ordered(dl \o sd, Always) <=>
             Ordered(dl, Always) /\ Ordered(sd, Always) /\ Cross(dl, sd, Always)
  BY <1>2, MemberConcat, OrderedConcat DEF Cross
<1>5. /\ Len(posted) \in Nat
      /\ Member(sd) \subseteq 1..Len(posted)
      /\ \A j \in Kinds : SentTo(j)' = SentTo(j)
  BY <1>1, <1>3 DEF PostedInv, SentTo
<1>6. CASE StartQueueTask(k)
  <2>1. PopLeft(k) /\ sd = <<>> /\ UNCHANGED <<delivered, lost>>
    BY <1>6 DEF StartQueueTask
  <2>2. QueueInv'
    BY <2>1, PopFacts DEF QueueInv
  <2>3. InLine(delivered'[k], sending'[k], QUEUE'[k], Always)
    BY <1>3, <2>1, PopFacts, NothingToSend DEF InLine, Cross
  <2>4. Member(delivered'[k]) \cup Member(sending'[k]) \cup Member(QUEUE'[k])
            = Member(dl) \cup Member(sd) \cup Member(q)
    BY <2>1, PopFacts, NothingToSend
  <2>5. \A j \in Kinds : LostFrom(j)' = LostFrom(j)
    BY <1>1, <2>1 DEF LostFrom
  <2>6. \A j \in Kinds \ {k} :
            delivered'[j] = delivered[j] /\ sending'[j] = sending[j] /\ QUEUE'[j] = QUEUE[j]
    BY <2>1, PopFacts DEF QueueInv
  <2>7. PostedInv'
    BY <1>1, <2>1 DEF PostedInv
  <2> QED
    BY <1>3, <1>5, <2>2, <2>3, <2>4, <2>5, <2>6, <2>7, InOrderNow, InOrderNext DEF SentInOrder
<1>7. CASE ItemSent(k)
  <2>1. delivered' = [delivered EXCEPT ![k] = dl \o sd] /\ UNCHANGED lost
    BY <1>7 DEF ItemSent
  <2>2. delivered'[k] = dl \o sd
    BY <2>1 DEF QueueInv
  <2>3. ASSUME PopLeft(k)
        PROVE  /\ QueueInv'
               /\ InLine(delivered'[k], sending'[k], QUEUE'[k], Always)
               /\ Member(delivered'[k]) \cup Member(sending'[k]) \cup Member(QUEUE'[k])
                     = Member(dl) \cup Member(sd) \cup Member(q)
               /\ \A j \in Kinds \ {k} : /\ delivered'[j] = delivered[j]
                                        /\ sending'[j] = sending[j]
                                        /\ QUEUE'[j] = QUEUE[j]
    <3>1. QueueInv'
      BY <1>4, <2>1, <2>3, PopFacts DEF QueueInv
    <3>2. InLine(delivered'[k], sending'[k], QUEUE'[k], Always)
      BY <1>3, <1>4, <2>2, <2>3, PopFacts DEF InLine, Cross
    <3>3. Member(delivered'[k]) \cup Member(sending'[k]) \cup Member(QUEUE'[k])
              = Member(dl) \cup Member(sd) \cup Member(q)
      BY <1>4, <2>2, <2>3, PopFacts
    <3>4. \A j \in Kinds \ {k} :
              delivered'[j] = delivered[j] /\ sending'[j] = sending[j] /\ QUEUE'[j] = QUEUE[j]
      BY <2>1, <2>3, PopFacts DEF QueueInv
    <3> QED
      BY <3>1, <3>2, <3>3, <3>4
  <2>4. ASSUME q = <<>>, sending' = [sending EXCEPT ![k] = <<>>], UNCHANGED QUEUE
        PROVE  /\ QueueInv'
               /\ InLine(delivered'[k], sending'[k], QUEUE'[k], Always)
               /\ Member(delivered'[k]) \cup Member(sending'[k]) \cup Member(QUEUE'[k])
                     = Member(dl) \cup Member(sd) \cup Member(q)
               /\ \A j \in Kinds \ {k} : /\ delivered'[j] = delivered[j]
                                        /\ sending'[j] = sending[j]
                                        /\ QUEUE'[j] = QUEUE[j]
    <3>1. QueueInv' /\ sending'[k] = <<>> /\ QUEUE'[k] = <<>>
      BY <1>4, <2>1, <2>4, NothingToSend DEF QueueInv
    <3>2. InLine(delivered'[k], sending'[k], QUEUE'[k], Always)
      BY <1>3, <1>4, <2>2, <3>1, NothingToSend DEF InLine
    <3>3. Member(delivered'[k]) \cup Member(sending'[k]) \cup Member(QUEUE'[k])
              = Member(dl) \cup Member(sd) \cup Member(q)
      BY <1>4, <2>2, <2>4, <3>1, NothingToSend
    <3>4. \A j \in Kinds \ {k} :
              delivered'[j] = delivered[j] /\ sending'[j] = sending[j] /\ QUEUE'[j] = QUEUE[j]
      BY <2>1, <2>4 DEF QueueInv
    <3> QED
      BY <3>1, <3>2, <3>3, <3>4
  <2>5. /\ QueueInv'
        /\ InLine(delivered'[k], sending'[k], QUEUE'[k], Always)
        /\ Member(delivered'[k]) \cup Member(sending'[k]) \cup Member(QUEUE'[k])
              = Member(dl) \cup Member(sd) \cup Member(q)
        /\ \A j \in Kinds \ {k} :
              delivered'[j] = delivered[j] /\ sending'[j] = sending[j] /\ QUEUE'[j] = QUEUE[j]
    BY <1>7, <2>3, <2>4 DEF ItemSent
  <2>6. \A j \in Kinds : LostFrom(j)' = LostFrom(j)
    BY <1>1, <2>1 DEF LostFrom
  <2>7. PostedInv'
    BY <1>1, <2>1 DEF PostedInv
  <2> QED
    BY <1>3, <1>5, <2>5, <2>6, <2>7, InOrderNow, InOrderNext DEF SentInOrder
<1>8. CASE SendFails(k)
  <2>1. /\ lost' = lost \cup {<<k, n>> : n \in Member(sd)}
        /\ sending' = [sending EXCEPT ![k] = <<>>]
        /\ UNCHANGED <<QUEUE, delivered>>
    BY <1>8 DEF SendFails
  <2>2. QueueInv' /\ sending'[k] = <<>>
    BY <2>1, NothingToSend DEF QueueInv
  <2>3. InLine(delivered'[k], sending'[k], QUEUE'[k], Always)
    BY <1>3, <2>1, <2>2, NothingToSend DEF InLine
  <2>4. Member(delivered'[k]) \cup Member(sending'[k]) \cup Member(QUEUE'[k])
            = Member(dl) \cup Member(q)
    BY <2>1, <2>2, NothingToSend
  <2>5. LostFrom(k)' = LostFrom(k) \cup Member(sd)
    BY <1>1, <1>5, <2>1 DEF LostFrom
  <2>6. (Member(dl) \cup Member(q)) \cap Member(sd) = {}
    <3>1. \A x : <<x, x>> \notin Always
      BY DEF Always
    <3> QED
      BY <1>3, <3>1 DEF InLine, Cross
  <2>7. \A j \in Kinds \ {k} :
            /\ delivered'[j] = delivered[j] /\ sending'[j] = sending[j] /\ QUEUE'[j] = QUEUE[j]
            /\ LostFrom(j)' = LostFrom(j)
    BY <1>1, <2>1 DEF QueueInv, LostFrom
  <2>8. PostedInv'
    <3>1. k \in Tags
      BY DEF Tags
    <3> QED
      BY <1>1, <1>5, <2>1, <3>1 DEF PostedInv
  <2> QED
    BY <1>3, <1>5, <2>2, <2>3, <2>4, <2>5, <2>6, <2>7, <2>8, InOrderNow, InOrderNext DEF SentInOrder
<1> QED
  BY <1>6, <1>7, <1>8 DEF QueueTask

-----------------------------------------------------------------------------
(***************************************************************************)
(* Object maps.  The line of a device is what zenhub applied, what the map *)
(* task has drained, what its queue holds; the invariant needs their types *)
(* and that the call under way is about maps that have been drained.       *)
(***************************************************************************)
MapInv ==
    /\ DOMAIN MAP_QUEUE \subseteq Devices
    /\ \A d \in DOMAIN MAP_QUEUE : MAP_QUEUE[d].held \in Seq(Number)
    /\ DOMAIN maps \subseteq Devices
    /\ \A d \in DOMAIN maps : maps[d] \in Seq(Number)
    /\ applied \in [Devices -> Seq(Number)]
    /\ calling # None => calling \in DOMAIN maps

GotSet(d) == Member(applied[d]) \cup Member(Calling(d)) \cup Member(Queue(d).held)

\* MapsInOrder by the parts of the lines.
MapLines ==
    /\ \A d \in Devices :
          /\ \A n \in GotSet(d) : posted[n].device = d
          /\ InLine(applied[d], Calling(d), Queue(d).held, Before(posted))
          /\ GotSet(d) \cap LostFrom("map") = {}
    /\ SentTo("map") = LostFrom("map") \cup UNION {GotSet(d) : d \in Devices}

LEMMA PartTypes ==
    MapInv => \A d \in Devices : /\ applied[d] \in Seq(Number)
                                 /\ Calling(d) \in Seq(Number)
                                 /\ Queue(d).held \in Seq(Number)
BY NothingToSend DEF MapInv, Calling, Queue, MapQueue

LEMMA MapLinesNow == MapInv => (MapsInOrder <=> MapLines)
<1> SUFFICES ASSUME MapInv PROVE MapsInOrder <=> MapLines
  OBVIOUS
<1>1. ASSUME NEW d \in Devices
      PROVE  /\ Member(Got(d)) = GotSet(d)
             /\ OrderedByComponent(Got(d), posted)
                   <=> InLine(applied[d], Calling(d), Queue(d).held, Before(posted))
  <2>1. /\ applied[d] \in Seq(Number) /\ Calling(d) \in Seq(Number)
        /\ Queue(d).held \in Seq(Number)
    BY PartTypes
  <2>2. /\ Got(d) \in Seq(Number)
        /\ Member(Got(d)) = GotSet(d)
        /\ Ordered(Got(d), Before(posted))
              <=> InLine(applied[d], Calling(d), Queue(d).held, Before(posted))
    BY <2>1, ThreeParts DEF Got, GotSet, InLine
  <2>3. OrderedByComponent(Got(d), posted) <=> Ordered(Got(d), Before(posted))
    BY <2>2, Orders
  <2> QED
    BY <2>2, <2>3
<1>2. {Member(Got(d)) : d \in Devices} = {GotSet(d) : d \in Devices}
  BY <1>1
<1> QED
  BY <1>1, <1>2 DEF MapsInOrder, MapLines

LEMMA MapLinesNext == MapInv' => (MapsInOrder' <=> MapLines')
BY MapLinesNow, PTL

\* What was posted before a step keeps its order when more is posted.
LEMMA BeforeStays ==
    ASSUME NEW p, NEW q, NEW m \in Nat, \A n \in 1..m : p[n] = q[n],
           NEW a \in Seq(Number), NEW b \in Seq(Number), NEW c \in Seq(Number),
           Member(a) \cup Member(b) \cup Member(c) \subseteq 1..m,
           InLine(a, b, c, Before(p))
    PROVE  InLine(a, b, c, Before(q))
<1>1. \A x, y \in 1..m : <<x, y>> \in Before(p) => <<x, y>> \in Before(q)
  BY DEF Before
<1>2. /\ \A i \in DOMAIN a : a[i] \in 1..m
      /\ \A i \in DOMAIN b : b[i] \in 1..m
      /\ \A i \in DOMAIN c : c[i] \in 1..m
  BY DEF Member
<1>3. Ordered(a, Before(q)) /\ Ordered(b, Before(q)) /\ Ordered(c, Before(q))
  BY <1>1, <1>2 DEF InLine, Ordered
<1>4. Cross(a, b, Before(q)) /\ Cross(a, c, Before(q)) /\ Cross(b, c, Before(q))
  BY <1>1 DEF InLine, Cross
<1> QED
  BY <1>3, <1>4 DEF InLine

\* A step that changes neither what was posted nor the lines.
LEMMA FrameKeepsMaps ==
    ASSUME MapLines, posted' = posted, LostFrom("map")' = LostFrom("map"),
           \A d \in Devices : /\ applied'[d] = applied[d]
                              /\ Calling(d)' = Calling(d)
                              /\ Queue(d)'.held = Queue(d).held
    PROVE  MapLines'
<1>1. \A d \in Devices : GotSet(d)' = GotSet(d)
  BY DEF GotSet
<1>2. SentTo("map")' = SentTo("map")
  BY DEF SentTo
<1>3. {GotSet(d)' : d \in Devices} = {GotSet(d) : d \in Devices}
  BY <1>1
<1> QED
  BY <1>1, <1>2, <1>3 DEF MapLines

\* The numbers in the lines were posted for maps.
LEMMA GotWerePosted ==
    ASSUME PostedInv, MapLines, NEW d \in Devices
    PROVE  GotSet(d) \subseteq SentTo("map") /\ SentTo("map") \subseteq 1..Len(posted)
BY DEF MapLines, SentTo

\* What appending to a queue does to the queues.
LEMMA AppendFacts ==
    ASSUME MapInv, NEW d \in Devices, NEW ns \in Seq(Number), AppendMaps(d, ns)
    PROVE  /\ DOMAIN MAP_QUEUE' \subseteq Devices
           /\ \A x \in DOMAIN MAP_QUEUE' : MAP_QUEUE'[x].held \in Seq(Number)
           /\ Queue(d)'.held = Queue(d).held \o ns
           /\ \A x \in Devices \ {d} : Queue(x)'.held = Queue(x).held
<1>1. CASE ns = <<>>
  <2>1. MAP_QUEUE' = MAP_QUEUE
    BY <1>1 DEF AppendMaps
  <2>2. Queue(d).held \in Seq(Number)
    BY PartTypes
  <2>3. Queue(d).held \o ns = Queue(d).held
    BY <1>1, <2>2
  <2> QED
    BY <2>1, <2>3 DEF MapInv, Queue
<1>2. CASE ns # <<>>
  <2>1. MAP_QUEUE' = [x \in DOMAIN MAP_QUEUE \cup {d} |->
                         IF x = d THEN MapQueue(Queue(d).settings, Queue(d).held \o ns)
                         ELSE MAP_QUEUE[x]]
    BY <1>2 DEF AppendMaps, WithQueue
  <2>2. Queue(d).held \o ns \in Seq(Number)
    BY PartTypes
  <2>3. /\ DOMAIN MAP_QUEUE' = DOMAIN MAP_QUEUE \cup {d}
        /\ MAP_QUEUE'[d].held = Queue(d).held \o ns
        /\ \A x \in DOMAIN MAP_QUEUE \ {d} : MAP_QUEUE'[x] = MAP_QUEUE[x]
    BY <2>1 DEF MapQueue
  <2>4. /\ Queue(d)'.held = Queue(d).held \o ns
        /\ \A x \in Devices \ {d} : Queue(x)'.held = Queue(x).held
    BY <2>3 DEF Queue
  <2>5. /\ DOMAIN MAP_QUEUE' \subseteq Devices
        /\ \A x \in DOMAIN MAP_QUEUE' : MAP_QUEUE'[x].held \in Seq(Number)
    BY <2>2, <2>3 DEF MapInv
  <2> QED
    BY <2>4, <2>5
<1> QED
  BY <1>1, <1>2

\* Items are posted for a device and their maps put at the end of its queue.
LEMMA PostKeepsMaps ==
    ASSUME PostedInv, MapInv, MapLines, NEW d \in Devices,
           NEW items \in Seq(Posting), \A i \in DOMAIN items : items[i].device = d,
           posted' = posted \o items, lost' = lost,
           NEW ns \in Seq(Number), Increasing(ns), Member(ns) = NewFor(items, "map"),
           AppendMaps(d, ns), UNCHANGED <<maps, calling, applied>>
    PROVE  MapInv' /\ MapLines'
<1>1. MapInv'
  BY AppendFacts DEF MapInv
<1>2. /\ Len(posted) \in Nat
      /\ \A n \in 1..Len(posted) : posted'[n] = posted[n]
      /\ \A i \in DOMAIN items : posted'[Len(posted) + i] = items[i]
      /\ LostFrom("map")' = LostFrom("map")
      /\ SentTo("map")' = SentTo("map") \cup Member(ns)
  <2>1. "map" \in Tags /\ Len(posted) \in Nat
    BY DEF Tags, PostedInv
  <2>2. /\ \A n \in 1..Len(posted) : posted'[n] = posted[n]
        /\ \A i \in DOMAIN items : posted'[Len(posted) + i] = items[i]
    BY PostFacts
  <2>3. /\ LostFrom("map")' = LostFrom("map")
        /\ SentTo("map")' = SentTo("map") \cup NewFor(items, "map")
    BY <2>1, PostFacts
  <2> QED
    BY <2>1, <2>2, <2>3
<1>3. \A n \in Member(ns) : n \in Nat /\ n > Len(posted) /\ posted'[n].device = d
  BY <1>2 DEF NewFor
<1>4. ASSUME NEW x \in Devices
      PROVE  /\ applied[x] \in Seq(Number) /\ Calling(x) \in Seq(Number)
             /\ Queue(x).held \in Seq(Number)
             /\ GotSet(x) \subseteq 1..Len(posted)
             /\ InLine(applied[x], Calling(x), Queue(x).held, Before(posted'))
  <2>1. /\ applied[x] \in Seq(Number) /\ Calling(x) \in Seq(Number)
        /\ Queue(x).held \in Seq(Number)
    BY PartTypes
  <2>2. GotSet(x) \subseteq 1..Len(posted)
    BY GotWerePosted
  <2>3. InLine(applied[x], Calling(x), Queue(x).held, Before(posted))
    BY DEF MapLines
  <2>4. InLine(applied[x], Calling(x), Queue(x).held, Before(posted'))
    BY <1>2, <2>1, <2>2, <2>3, BeforeStays DEF GotSet
  <2> QED
    BY <2>1, <2>2, <2>4
<1>5. /\ \A x \in Devices : applied'[x] = applied[x] /\ Calling(x)' = Calling(x)
      /\ \A x \in Devices \ {d} : Queue(x)'.held = Queue(x).held
      /\ Queue(d)'.held = Queue(d).held \o ns
  BY AppendFacts DEF Calling
<1>6. /\ Member(Queue(d).held \o ns) = Member(Queue(d).held) \cup Member(ns)
      /\ Ordered(Queue(d).held \o ns, Before(posted')) <=>
             /\ Ordered(Queue(d).held, Before(posted')) /\ Ordered(ns, Before(posted'))
             /\ Cross(Queue(d).held, ns, Before(posted'))
  BY <1>4, MemberConcat, OrderedConcat DEF Cross
<1>7. Ordered(ns, Before(posted'))
  <2>1. Always \subseteq Before(posted')
    BY DEF Always, Before
  <2> QED
    BY <2>1, Orders DEF Ordered
<1>8. \A x \in GotSet(d), y \in Member(ns) : <<x, y>> \in Before(posted')
  <2> SUFFICES ASSUME NEW x \in GotSet(d), NEW y \in Member(ns)
               PROVE  <<x, y>> \in Before(posted')
    OBVIOUS
  <2>1. x \in 1..Len(posted) /\ y \in Nat /\ y > Len(posted)
    BY <1>3, <1>4
  <2>2. x \in Nat /\ x < y
    BY <1>2, <2>1
  <2> QED
    BY <2>1, <2>2 DEF Before
<1>9. InLine(applied'[d], Calling(d)', Queue(d)'.held, Before(posted'))
  BY <1>4, <1>5, <1>6, <1>7, <1>8 DEF InLine, Cross, GotSet
<1>10. /\ GotSet(d)' = GotSet(d) \cup Member(ns)
       /\ \A x \in Devices \ {d} : GotSet(x)' = GotSet(x)
  BY <1>5, <1>6 DEF GotSet
<1>11. ASSUME NEW x \in Devices
       PROVE  /\ \A n \in GotSet(x)' : posted'[n].device = x
              /\ InLine(applied'[x], Calling(x)', Queue(x)'.held, Before(posted'))
              /\ GotSet(x)' \cap LostFrom("map")' = {}
  <2>1. \A n \in GotSet(x) : posted'[n].device = x
    BY <1>2, <1>4 DEF MapLines
  <2>2. GotSet(x) \cap LostFrom("map")' = {}
    BY <1>2 DEF MapLines
  <2>3. \A n \in LostFrom("map")' : n <= Len(posted)
    BY <1>2 DEF LostFrom
  <2>4. Member(ns) \cap LostFrom("map")' = {}
    BY <1>2, <1>3, <2>3
  <2>5. CASE x = d
    BY <1>3, <1>9, <1>10, <2>1, <2>2, <2>4, <2>5
  <2>6. CASE x # d
    BY <1>4, <1>5, <1>10, <2>1, <2>2, <2>6
  <2> QED
    BY <2>5, <2>6
<1>12. UNION {GotSet(x)' : x \in Devices}
          = Member(ns) \cup (UNION {GotSet(x) : x \in Devices})
  <2>1. ASSUME NEW n
        PROVE  (\E x \in Devices : n \in GotSet(x)')
                  <=> (\E x \in Devices : n \in GotSet(x)) \/ n \in Member(ns)
    BY <1>10
  <2>2. \A n : n \in UNION {GotSet(x)' : x \in Devices} <=> \E x \in Devices : n \in GotSet(x)'
    OBVIOUS
  <2>3. \A n : n \in UNION {GotSet(x) : x \in Devices} <=> \E x \in Devices : n \in GotSet(x)
    OBVIOUS
  <2> QED
    BY <2>1, <2>2, <2>3
<1>13. SentTo("map")' = LostFrom("map")' \cup UNION {GotSet(x)' : x \in Devices}
  <2>1. SentTo("map") = LostFrom("map") \cup UNION {GotSet(x) : x \in Devices}
    BY DEF MapLines
  <2>2. SentTo("map")' = SentTo("map") \cup Member(ns) /\ LostFrom("map")' = LostFrom("map")
    BY <1>2
  <2> QED
    BY <1>12, <2>1, <2>2
<1> QED
  BY <1>1, <1>11, <1>13 DEF MapLines

\* A pushed configuration keeps the maps its queue holds.
LEMMA UpdateKeepsMaps ==
    ASSUME MapInv, MapLines, NEW d \in Devices, NEW cfg, _updateConfig(d, cfg)
    PROVE  MapInv' /\ MapLines'
<1>1. /\ MAP_QUEUE' = [x \in DOMAIN MAP_QUEUE \cup {d} |->
                          IF x = d THEN MapQueue(cfg.settings, Queue(d).held) ELSE MAP_QUEUE[x]]
      /\ UNCHANGED <<maps, calling, applied, posted, lost>>
  BY DEF _updateConfig, WithQueue
<1>2. Queue(d).held \in Seq(Number)
  BY PartTypes
<1>3. MapInv'
  BY <1>1, <1>2 DEF MapInv, MapQueue
<1>4. \A x \in Devices : Queue(x)'.held = Queue(x).held
  BY <1>1 DEF Queue, MapQueue
<1>5. LostFrom("map")' = LostFrom("map")
  BY <1>1 DEF LostFrom
<1> QED
  BY <1>1, <1>3, <1>4, <1>5, FrameKeepsMaps DEF Calling

\* Draining splits a queue by component: what is due comes before what is held,
\* and each keeps its order.
LEMMA DrainFacts ==
    ASSUME PostedInv, MapInv, MapLines, NEW ready, NEW d \in DOMAIN MAP_QUEUE
    PROVE  LET q == MAP_QUEUE[d].held
               due == Due(d, ready)
               hld == Held(d, ready)
           IN  /\ due \in Seq(Number) /\ hld \in Seq(Number)
               /\ Member(q) = Member(due) \cup Member(hld)
               /\ Member(due) \cap Member(hld) = {}
               /\ Ordered(due, Before(posted)) /\ Ordered(hld, Before(posted))
               /\ Cross(due, hld, Before(posted))
<1> DEFINE q == MAP_QUEUE[d].held
           due == Due(d, ready)
           hld == Held(d, ready)
           D == {c \in Components \cup Resources : <<d, c>> \in ready}
           H == {c \in Components \cup Resources : <<d, c>> \notin ready}
           of(C) == {n \in DOMAIN posted : posted[n].component \in C}
<1>1. d \in Devices /\ q \in Seq(Number) /\ q = Queue(d).held
  BY DEF MapInv, Queue
<1>2. due = Select(q, of(D)) /\ hld = Select(q, of(H))
  BY DEF Due, Held, Pick
<1>3. \A n \in Member(q) : n \in DOMAIN posted /\ n \in Nat /\ (n \in of(D) <=> n \notin of(H))
  <2>1. Member(q) \subseteq 1..Len(posted)
    BY <1>1, GotWerePosted DEF GotSet
  <2>2. \A n \in 1..Len(posted) : n \in Nat /\ n \in DOMAIN posted
                                 /\ posted[n].component \in Components \cup Resources
    <3>1. DOMAIN posted = 1..Len(posted) /\ \A n \in 1..Len(posted) : posted[n] \in Posting
      BY DEF PostedInv
    <3> QED
      BY <3>1 DEF Posting
  <2> QED
    BY <2>1, <2>2
<1>4. \A x \in of(D), y \in of(H) : posted[x].component # posted[y].component
  OBVIOUS
<1>5. Ordered(q, Before(posted))
  BY <1>1 DEF MapLines, InLine
<1> HIDE DEF q, of, D, H
<1>6. /\ due \in Seq(Number) /\ Member(due) = Member(q) \cap of(D)
      /\ hld \in Seq(Number) /\ Member(hld) = Member(q) \cap of(H)
  BY <1>1, <1>2, SelectFacts
<1>7. Ordered(due, Before(posted)) /\ Ordered(hld, Before(posted))
  BY <1>1, <1>2, <1>5, SelectOrdered
<1> HIDE DEF due, hld
<1>8. Cross(due, hld, Before(posted))
  BY <1>3, <1>4, <1>6 DEF Cross, Before
<1>9. Member(q) = Member(due) \cup Member(hld) /\ Member(due) \cap Member(hld) = {}
  BY <1>3, <1>6
<1> QED
  BY <1>6, <1>7, <1>8, <1>9 DEF q, due, hld

\* The parts of the lines after the map task has drained the queues.
LEMMA StartFacts ==
    ASSUME PostedInv, MapInv, MapLines, NEW ready, StartMapTask(ready), NEW d \in Devices
    PROVE  /\ applied'[d] = applied[d]
           /\ Calling(d) = <<>>
           /\ d \in DOMAIN MAP_QUEUE =>
                 /\ Queue(d).held = MAP_QUEUE[d].held
                 /\ Calling(d)' = Due(d, ready)
                 /\ Queue(d)'.held = IF d \in KeptQueues(ready) THEN Held(d, ready) ELSE <<>>
           /\ d \notin DOMAIN MAP_QUEUE =>
                 Queue(d).held = <<>> /\ Calling(d)' = <<>> /\ Queue(d)'.held = <<>>
<1>1. /\ maps = [x \in {} |-> <<>>]
      /\ MAP_QUEUE' = [x \in KeptQueues(ready) |-> MapQueue(MAP_QUEUE[x].settings, Held(x, ready))]
      /\ maps' = [x \in {y \in DOMAIN MAP_QUEUE : Due(y, ready) # <<>>} |-> Due(x, ready)]
      /\ applied' = applied
  BY DEF StartMapTask, Drained
<1>2. KeptQueues(ready) \subseteq DOMAIN MAP_QUEUE
  BY DEF KeptQueues
<1>3. Calling(d) = <<>>
  BY <1>1 DEF Calling
<1>4. Calling(d)' = IF d \in DOMAIN MAP_QUEUE THEN Due(d, ready) ELSE <<>>
  BY <1>1 DEF Calling
<1>5. /\ d \in KeptQueues(ready) => Queue(d)'.held = Held(d, ready)
      /\ d \notin KeptQueues(ready) => Queue(d)'.held = <<>>
  BY <1>1 DEF Queue, MapQueue
<1>6. /\ d \in DOMAIN MAP_QUEUE => Queue(d).held = MAP_QUEUE[d].held
      /\ d \notin DOMAIN MAP_QUEUE => Queue(d).held = <<>>
  BY DEF Queue, MapQueue
<1> QED
  BY <1>1, <1>2, <1>3, <1>4, <1>5, <1>6

\* A step of the map task moves each number of a line within the line or, when
\* it leaves it, counts it as lost.
LEMMA MapTaskAccounts ==
    ASSUME PostedInv, MapLines, posted' = posted, NEW gone,
           \A d \in Devices :
              /\ InLine(applied'[d], Calling(d)', Queue(d)'.held, Before(posted))
              /\ GotSet(d) = GotSet(d)' \cup gone[d]
              /\ GotSet(d)' \cap gone[d] = {},
           LostFrom("map")' = LostFrom("map") \cup (UNION {gone[d] : d \in Devices})
    PROVE  MapLines'
<1>1. SentTo("map")' = SentTo("map")
  BY DEF SentTo
<1>2. ASSUME NEW d \in Devices
      PROVE  /\ \A n \in GotSet(d)' : posted'[n].device = d
             /\ InLine(applied'[d], Calling(d)', Queue(d)'.held, Before(posted'))
             /\ GotSet(d)' \cap LostFrom("map")' = {}
  <2>1. \A e \in Devices : \A n \in GotSet(e) : posted[n].device = e /\ n \notin LostFrom("map")
    BY DEF MapLines
  <2>2. ASSUME NEW e \in Devices, NEW n \in gone[e] PROVE n \notin GotSet(d)'
    <3>1. posted[n].device = e
      BY <2>1, <2>2
    <3>2. e # d => n \notin GotSet(d)
      BY <2>1, <3>1
    <3> QED
      BY <2>2, <3>2
  <2>3. GotSet(d)' \subseteq GotSet(d)
    OBVIOUS
  <2> QED
    BY <2>1, <2>2, <2>3
<1>3. SentTo("map")' = LostFrom("map")' \cup UNION {GotSet(d)' : d \in Devices}
  <2>1. \A n : n \in SentTo("map") <=> \/ n \in LostFrom("map")
                                      \/ \E d \in Devices : n \in GotSet(d)
    BY DEF MapLines
  <2>2. \A n : n \in LostFrom("map")' <=> \/ n \in LostFrom("map")
                                         \/ \E d \in Devices : n \in gone[d]
    OBVIOUS
  <2>3. \A n : (\E d \in Devices : n \in GotSet(d)) <=> \/ \E d \in Devices : n \in GotSet(d)'
                                                     \/ \E d \in Devices : n \in gone[d]
    OBVIOUS
  <2>4. \A n : n \in SentTo("map")' <=> \/ n \in LostFrom("map")'
                                       \/ \E d \in Devices : n \in GotSet(d)'
    BY <1>1, <2>1, <2>2, <2>3
  <2> QED
    BY <2>4
<1> QED
  BY <1>2, <1>3 DEF MapLines

LEMMA StartKeepsMaps ==
    ASSUME PostedInv, MapInv, MapLines, NEW ready, StartMapTask(ready)
    PROVE  PostedInv' /\ MapInv' /\ MapLines'
<1> DEFINE dropped == DOMAIN MAP_QUEUE \ KeptQueues(ready)
           gone == [d \in Devices |-> IF d \in dropped THEN Member(Held(d, ready)) ELSE {}]
<1>1. /\ posted' = posted
      /\ MAP_QUEUE' = [d \in KeptQueues(ready) |-> MapQueue(MAP_QUEUE[d].settings, Held(d, ready))]
      /\ maps' = [d \in {x \in DOMAIN MAP_QUEUE : Due(x, ready) # <<>>} |-> Due(d, ready)]
      /\ lost' = lost \cup {<<"map", n>> : n \in UNION {Member(Held(d, ready)) : d \in dropped}}
      /\ calling' \in IF DOMAIN maps' = {} THEN {None} ELSE DOMAIN maps'
      /\ applied' = applied
  BY DEF StartMapTask, MapTaskUntouched, Drained
<1>2. DOMAIN MAP_QUEUE \subseteq Devices /\ KeptQueues(ready) \subseteq DOMAIN MAP_QUEUE
  BY DEF MapInv, KeptQueues
<1>3. MapInv'
  <2>1. \A d \in DOMAIN MAP_QUEUE : Due(d, ready) \in Seq(Number) /\ Held(d, ready) \in Seq(Number)
    BY DrainFacts
  <2>2. DOMAIN maps' \subseteq Devices /\ \A d \in DOMAIN maps' : maps'[d] \in Seq(Number)
    BY <1>1, <1>2, <2>1
  <2>3. DOMAIN MAP_QUEUE' \subseteq Devices /\ \A d \in DOMAIN MAP_QUEUE' : MAP_QUEUE'[d].held \in Seq(Number)
    BY <1>1, <1>2, <2>1 DEF MapQueue
  <2>4. calling' # None => calling' \in DOMAIN maps'
    BY <1>1
  <2> QED
    BY <1>1, <2>2, <2>3, <2>4 DEF MapInv
<1>4. ASSUME NEW d \in Devices
      PROVE  /\ InLine(applied'[d], Calling(d)', Queue(d)'.held, Before(posted))
             /\ GotSet(d) = GotSet(d)' \cup gone[d]
             /\ GotSet(d)' \cap gone[d] = {}
             /\ gone[d] \subseteq SentTo("map")
  <2> DEFINE R == Before(posted)
             a == applied[d]
             q == Queue(d).held
             due == Due(d, ready)
             hld == Held(d, ready)
  <2>1. /\ Ordered(a, R) /\ Ordered(q, R) /\ Cross(a, q, R)
        /\ GotSet(d) = Member(a) \cup Member(q)
    BY StartFacts, NothingToSend DEF MapLines, InLine, GotSet
  <2>2. Member(a) \cap Member(q) = {}
    <3>1. \A n : <<n, n>> \notin R
      BY DEF Before
    <3> QED
      BY <2>1, <3>1 DEF Cross
  <2>3. CASE d \in DOMAIN MAP_QUEUE
    <3>1. /\ Member(q) = Member(due) \cup Member(hld) /\ Member(due) \cap Member(hld) = {}
          /\ Ordered(due, R) /\ Ordered(hld, R) /\ Cross(due, hld, R)
      BY <2>3, DrainFacts, StartFacts
    <3>2. Cross(a, due, R) /\ Cross(a, hld, R)
      BY <2>1, <3>1 DEF Cross
    <3>3. /\ applied'[d] = a /\ Calling(d)' = due
          /\ Queue(d)'.held = IF d \in KeptQueues(ready) THEN hld ELSE <<>>
      BY <2>3, StartFacts
    <3>4. GotSet(d)' = Member(a) \cup Member(due)
                          \cup (IF d \in KeptQueues(ready) THEN Member(hld) ELSE {})
      BY <3>3, NothingToSend DEF GotSet
    <3>5. gone[d] = IF d \in KeptQueues(ready) THEN {} ELSE Member(hld)
      BY <2>3
    <3>6. GotSet(d) \subseteq SentTo("map")
      BY GotWerePosted
    <3> HIDE DEF a, q, due, hld, R, gone
    <3>7. InLine(applied'[d], Calling(d)', Queue(d)'.held, R)
      <4>1. InLine(a, due, hld, R) /\ InLine(a, due, <<>>, R)
        BY <2>1, <3>1, <3>2, NothingToSend DEF InLine
      <4> QED
        BY <3>3, <4>1
    <3>8. /\ GotSet(d) = GotSet(d)' \cup gone[d]
          /\ GotSet(d)' \cap gone[d] = {}
      BY <2>1, <2>2, <3>1, <3>4, <3>5
    <3> QED
      BY <3>6, <3>7, <3>8 DEF R
  <2>4. CASE d \notin DOMAIN MAP_QUEUE
    <3>1. q = <<>> /\ applied'[d] = a /\ Calling(d)' = <<>> /\ Queue(d)'.held = <<>>
      BY <2>4, StartFacts
    <3>2. gone[d] = {} /\ GotSet(d)' = Member(a)
      BY <2>4, <3>1, NothingToSend DEF GotSet
    <3> HIDE DEF gone, a, q, R
    <3>3. InLine(a, <<>>, <<>>, R) /\ GotSet(d) = Member(a)
      <4>1. InLine(a, <<>>, <<>>, R)
        BY <2>1, NothingToSend DEF InLine
      <4>2. q = <<>>
        BY <3>1
      <4> QED
        BY <2>1, <4>1, <4>2, NothingToSend
    <3>4. InLine(applied'[d], Calling(d)', Queue(d)'.held, R)
      BY <3>1, <3>3
    <3> QED
      BY <3>2, <3>3, <3>4 DEF R
  <2> QED
    BY <2>3, <2>4
<1> HIDE DEF gone
<1>5. /\ LostFrom("map")' = LostFrom("map") \cup (UNION {gone[d] : d \in Devices})
      /\ PostedInv'
  <2>1. \A n : (\E d \in dropped : n \in Member(Held(d, ready))) <=> \E d \in Devices : n \in gone[d]
    BY <1>2 DEF gone
  <2>2. \A n : <<"map", n>> \in lost' <=> \/ <<"map", n>> \in lost
                                         \/ \E d \in Devices : n \in gone[d]
    BY <1>1, <2>1
  <2>3. \A d \in Devices : gone[d] \subseteq 1..Len(posted)
    BY <1>4 DEF SentTo
  <2>4. LostFrom("map")' = LostFrom("map") \cup (UNION {gone[d] : d \in Devices})
    BY <1>1, <2>2, <2>3 DEF LostFrom
  <2>5. \A q \in lost' : q \in lost \/ \E n \in 1..Len(posted) : q = <<"map", n>>
    BY <1>1, <2>1, <2>3
  <2>6. PostedInv'
    BY <1>1, <2>5 DEF PostedInv, Tags
  <2> QED
    BY <2>4, <2>6
<1> QED
  BY <1>1, <1>3, <1>4, <1>5, MapTaskAccounts

\* A call that ends appends its maps to what zenhub applied.
LEMMA AppliedKeepsMaps ==
    ASSUME PostedInv, MapInv, MapLines, MapsApplied
    PROVE  PostedInv' /\ MapInv' /\ MapLines'
<1> DEFINE gone == [d \in Devices |-> {}]
<1>1. /\ posted' = posted /\ MAP_QUEUE' = MAP_QUEUE /\ lost' = lost
      /\ applied' = [applied EXCEPT ![calling] = applied[calling] \o maps[calling]]
      /\ maps' = [d \in DOMAIN maps \ {calling} |-> maps[d]]
      /\ calling' \in IF DOMAIN maps' = {} THEN {None} ELSE DOMAIN maps'
      /\ calling \in DOMAIN maps
  BY DEF MapsApplied, MapTaskUntouched, Remaining, MapInv
<1>2. /\ calling \in Devices
      /\ applied[calling] \in Seq(Number) /\ maps[calling] \in Seq(Number)
      /\ applied[calling] \o maps[calling] \in Seq(Number)
      /\ applied'[calling] = applied[calling] \o maps[calling]
      /\ \A d \in Devices \ {calling} : applied'[d] = applied[d]
  BY <1>1 DEF MapInv
<1>3. MapInv'
  BY <1>1, <1>2 DEF MapInv
<1>4. /\ \A d \in Devices : d = calling => Calling(d) = maps[d] /\ Calling(d)' = <<>>
      /\ \A d \in Devices \ {calling} : Calling(d)' = Calling(d)
      /\ \A d \in Devices : Queue(d)'.held = Queue(d).held
  <2>1. DOMAIN maps' = DOMAIN maps \ {calling} /\ \A d \in DOMAIN maps' : maps'[d] = maps[d]
    BY <1>1
  <2>2. \A d \in Devices : d = calling => Calling(d) = maps[d] /\ Calling(d)' = <<>>
    BY <1>1, <2>1 DEF Calling
  <2>3. \A d \in Devices \ {calling} : Calling(d)' = Calling(d)
    BY <2>1 DEF Calling
  <2>4. \A d \in Devices : Queue(d)'.held = Queue(d).held
    BY <1>1 DEF Queue
  <2> QED
    BY <2>2, <2>3, <2>4
<1>5. ASSUME NEW R
      PROVE  /\ Member(applied[calling] \o maps[calling])
                    = Member(applied[calling]) \cup Member(maps[calling])
             /\ Ordered(applied[calling] \o maps[calling], R) <=>
                    /\ Ordered(applied[calling], R) /\ Ordered(maps[calling], R)
                    /\ Cross(applied[calling], maps[calling], R)
  BY <1>2, MemberConcat, OrderedConcat DEF Cross
<1>6. ASSUME NEW d \in Devices
      PROVE  /\ InLine(applied'[d], Calling(d)', Queue(d)'.held, Before(posted))
             /\ GotSet(d) = GotSet(d)' \cup gone[d]
             /\ GotSet(d)' \cap gone[d] = {}
  <2>1. InLine(applied[d], Calling(d), Queue(d).held, Before(posted))
    BY DEF MapLines
  <2>2. CASE d = calling
    <3> DEFINE a == applied[calling]
               m == maps[calling]
               all == a \o m
               q == Queue(calling).held
               R == Before(posted)
    <3>1. /\ applied'[d] = all /\ Calling(d)' = <<>> /\ Queue(d)'.held = q
          /\ applied[d] = a /\ Calling(d) = m /\ Queue(d).held = q
      BY <1>2, <1>4, <2>2
    <3>2. /\ Member(all) = Member(a) \cup Member(m)
          /\ Ordered(all, R) <=> Ordered(a, R) /\ Ordered(m, R) /\ Cross(a, m, R)
      BY <1>5
    <3>3. InLine(a, m, q, R)
      BY <2>1, <3>1
    <3> HIDE DEF a, m, all, q, R
    <3>4. InLine(all, <<>>, q, R)
      <4>1. Ordered(all, R) /\ Ordered(q, R)
        BY <3>2, <3>3 DEF InLine
      <4>2. Cross(all, q, R)
        BY <3>2, <3>3 DEF InLine, Cross
      <4> QED
        BY <4>1, <4>2, NothingToSend DEF InLine
    <3>5. GotSet(d)' = GotSet(d)
      BY <3>1, <3>2, NothingToSend DEF GotSet
    <3>6. InLine(applied'[d], Calling(d)', Queue(d)'.held, R)
      BY <3>1, <3>4
    <3> QED
      BY <3>5, <3>6 DEF R
  <2>3. CASE d # calling
    BY <1>2, <1>4, <2>1, <2>3 DEF GotSet
  <2> QED
    BY <2>2, <2>3
<1>7. LostFrom("map")' = LostFrom("map") \cup (UNION {gone[d] : d \in Devices})
  BY <1>1 DEF LostFrom
<1>8. PostedInv'
  BY <1>1 DEF PostedInv
<1> HIDE DEF gone
<1> QED
  BY <1>1, <1>3, <1>6, <1>7, <1>8, MapTaskAccounts

\* A call that fails loses what has been drained and not sent, of every device.
LEMMA CallFailsKeepsMaps ==
    ASSUME PostedInv, MapInv, MapLines, MapCallFails
    PROVE  PostedInv' /\ MapInv' /\ MapLines'
<1> DEFINE gone == [d \in Devices |-> Member(Calling(d))]
<1>1. /\ posted' = posted /\ MAP_QUEUE' = MAP_QUEUE /\ applied' = applied
      /\ lost' = lost \cup {<<"map", n>> : n \in UNION {Member(maps[d]) : d \in DOMAIN maps}}
      /\ maps' = [d \in {} |-> <<>>] /\ calling' = None
  BY DEF MapCallFails, MapTaskUntouched
<1>2. MapInv'
  BY <1>1 DEF MapInv
<1>3. \A d \in Devices : Calling(d)' = <<>> /\ Queue(d)'.held = Queue(d).held
  BY <1>1 DEF Calling, Queue
<1>4. ASSUME NEW d \in Devices
      PROVE  /\ InLine(applied'[d], Calling(d)', Queue(d)'.held, Before(posted))
             /\ GotSet(d) = GotSet(d)' \cup gone[d]
             /\ GotSet(d)' \cap gone[d] = {}
             /\ gone[d] \subseteq 1..Len(posted)
  <2>1. InLine(applied[d], Calling(d), Queue(d).held, Before(posted))
    BY DEF MapLines
  <2>2. InLine(applied'[d], Calling(d)', Queue(d)'.held, Before(posted))
    BY <1>1, <1>3, <2>1, NothingToSend DEF InLine
  <2>3. \A n : <<n, n>> \notin Before(posted)
    BY DEF Before
  <2>4. Member(Calling(d)) \cap (Member(applied[d]) \cup Member(Queue(d).held)) = {}
    BY <2>1, <2>3 DEF InLine, Cross
  <2>5. GotSet(d)' = Member(applied[d]) \cup Member(Queue(d).held)
    BY <1>1, <1>3, NothingToSend DEF GotSet
  <2>6. gone[d] \subseteq 1..Len(posted)
    BY GotWerePosted DEF GotSet
  <2> QED
    BY <2>2, <2>4, <2>5, <2>6 DEF GotSet
<1>5. \A n : (\E d \in DOMAIN maps : n \in Member(maps[d])) <=> \E d \in Devices : n \in gone[d]
  BY NothingToSend DEF MapInv, Calling
<1> HIDE DEF gone
<1>6. \A n : <<"map", n>> \in lost' <=> <<"map", n>> \in lost \/ \E d \in Devices : n \in gone[d]
  BY <1>1, <1>5
<1>7. LostFrom("map")' = LostFrom("map") \cup (UNION {gone[d] : d \in Devices})
  BY <1>1, <1>4, <1>6 DEF LostFrom
<1>8. PostedInv'
  <2>1. \A q \in lost' : q \in lost \/ \E n \in 1..Len(posted) : q = <<"map", n>>
    BY <1>1, <1>4, <1>5
  <2> QED
    BY <1>1, <2>1 DEF PostedInv, Tags
<1> QED
  BY <1>1, <1>2, <1>4, <1>7, <1>8, MapTaskAccounts

\* Sending maps leaves the events and metrics alone, and what it loses is maps.
LEMMA FrameKeepsOrder ==
    ASSUME QueueInv, SentInOrder, posted' = posted, UNCHANGED <<QUEUE, sending, delivered>>,
           \A k \in Kinds : \A n : <<k, n>> \in lost' <=> <<k, n>> \in lost
    PROVE  QueueInv' /\ SentInOrder'
<1>1. QueueInv'
  BY DEF QueueInv
<1>2. \A k \in Kinds : LostFrom(k)' = LostFrom(k) /\ SentTo(k)' = SentTo(k) /\ Line(k)' = Line(k)
  BY DEF LostFrom, SentTo, Line
<1> QED
  BY <1>1, <1>2 DEF SentInOrder

LEMMA MapTaskKeepsOrder ==
    ASSUME QueueInv, SentInOrder, MapTask
    PROVE  QueueInv' /\ SentInOrder'
<1>1. posted' = posted /\ UNCHANGED <<QUEUE, sending, delivered>>
  BY DEF MapTask, StartMapTask, MapsApplied, MapCallFails, MapTaskUntouched, queueVars
<1>2. \E N : lost' = lost \cup {<<"map", n>> : n \in N}
  <2>1. CASE MapsApplied
    <3>1. lost' = lost \cup {<<"map", n>> : n \in {}}
      BY <2>1 DEF MapsApplied
    <3> QED
      BY <3>1
  <2> QED
    BY <2>1 DEF MapTask, StartMapTask, MapCallFails
<1>3. \A k \in Kinds : \A n : <<k, n>> \in lost' <=> <<k, n>> \in lost
  BY <1>2 DEF Kinds
<1> QED
  BY <1>1, <1>3, FrameKeepsOrder

-----------------------------------------------------------------------------
(***************************************************************************)
(* Every handler that posts, and the vNIC task when it finds a parent,     *)
(* posts items for one device and puts their numbers, in their order, at   *)
(* the ends of the queues they go to.                                      *)
(***************************************************************************)
Posts(d, items, ns, ms) ==
    /\ \A i \in DOMAIN items : items[i].device = d
    /\ posted' = posted \o items /\ lost' = lost
    /\ \A k \in Kinds : Increasing(ns[k]) /\ Member(ns[k]) = NewFor(items, k)
    /\ QUEUE' = [k \in Kinds |-> QUEUE[k] \o ns[k]]
    /\ Increasing(ms) /\ Member(ms) = NewFor(items, "map")
    /\ AppendMaps(d, ms)
    /\ UNCHANGED <<sending, delivered, maps, calling, applied>>

LEMMA PostsKeepInv ==
    ASSUME PostedInv, QueueInv, SentInOrder, MapInv, MapLines,
           NEW d \in Devices, NEW items \in Seq(Posting),
           NEW ns \in [Kinds -> Seq(Number)], NEW ms \in Seq(Number),
           Posts(d, items, ns, ms)
    PROVE  PostedInv' /\ QueueInv' /\ SentInOrder' /\ MapInv' /\ MapLines'
<1>1. PostedInv' /\ QueueInv' /\ SentInOrder'
  BY PostKeepsOrder DEF Posts
<1>2. MapInv' /\ MapLines'
  BY PostKeepsMaps DEF Posts
<1> QED
  BY <1>1, <1>2

\* Counting on from n.
LEMMA CountOn ==
    ASSUME NEW n \in Nat, NEW l \in Nat
    PROVE  LET s == [i \in 1..l |-> n + i]
           IN  s \in Seq(Number) /\ Increasing(s) /\ Member(s) = {n + i : i \in 1..l}
<1> DEFINE s == [i \in 1..l |-> n + i]
<1>1. s \in Seq(Number)
  BY DEF Number
<1>2. Increasing(s)
  BY DEF Increasing
<1>3. Member(s) = {n + i : i \in 1..l}
  BY DEF Member
<1> QED
  BY <1>1, <1>2, <1>3

\* The numbers of the items that go to k, in their order.
LEMMA NumbersFacts ==
    ASSUME PostedInv, NEW items \in Seq(Posting), NEW k
    PROVE  /\ Numbers(items, k) \in Seq(Number)
           /\ Increasing(Numbers(items, k))
           /\ Member(Numbers(items, k)) = NewFor(items, k)
<1> DEFINE s == [i \in DOMAIN items |-> Len(posted) + i]
           T == {Len(posted) + i : i \in {x \in DOMAIN items : k \in items[x].to}}
<1>1. Len(posted) \in Nat /\ Len(items) \in Nat /\ DOMAIN items = 1..Len(items)
  BY DEF PostedInv
<1>2. s \in Seq(Number) /\ Increasing(s) /\ Member(s) = {Len(posted) + i : i \in DOMAIN items}
  BY <1>1, CountOn
<1>3. T = NewFor(items, k) /\ T \subseteq Member(s)
  BY <1>2 DEF NewFor
<1>4. Numbers(items, k) = Select(s, T)
  BY DEF Numbers
<1> HIDE DEF s, T
<1>5. Select(s, T) \in Seq(Number) /\ Member(Select(s, T)) = Member(s) \cap T
  BY <1>2, SelectFacts
<1>6. Ordered(Select(s, T), Always)
  BY <1>2, Orders, SelectOrdered
<1>7. Increasing(Select(s, T))
  BY <1>5, <1>6, Orders
<1> QED
  BY <1>3, <1>4, <1>5, <1>7

\* Nothing is appended: the queues are as they were.
LEMMA NothingAppended ==
    ASSUME QueueInv, NEW k \in Kinds
    PROVE  QUEUE[k] \o <<>> = QUEUE[k]
<1> DEFINE q == QUEUE[k]
<1>1. q \in Seq(Number)
  BY DEF QueueInv
<1> HIDE DEF q
<1>2. q \o <<>> = q
  BY <1>1
<1> QED
  BY <1>2 DEF q

\* CeilometerV1Samples: the samples that are stored go to the metric queue.
LEMMA SamplesPosted ==
    ASSUME PostedInv, QueueInv, NEW d \in Devices, NEW samples \in SamplePayloads,
           PostSamples(d, samples)
    PROVE  \E items \in Seq(Posting), ns \in [Kinds -> Seq(Number)], ms \in Seq(Number) :
              /\ Posts(d, items, ns, ms)
              /\ \A i \in DOMAIN items : items[i].to = {"metric"}
<1> DEFINE known == {r \in Resources : get_datapoints(d, r) # {}}
           stored == Select(samples, known)
           items == [i \in DOMAIN stored |-> Item(d, stored[i], None, {"metric"})]
           numbers == [i \in DOMAIN stored |-> Len(posted) + i]
           ns == [k \in Kinds |-> IF k = "metric" THEN numbers ELSE <<>>]
<1>1. /\ posted' = posted \o items /\ lost' = lost
      /\ QUEUE' = [QUEUE EXCEPT !["metric"] = QUEUE["metric"] \o numbers]
      /\ UNCHANGED <<sending, delivered, MAP_QUEUE, maps, calling, applied>>
  BY DEF PostSamples, mapVars
<1>2. stored \in Seq(Resources \cup {Malformed}) /\ Member(stored) \subseteq Resources
  <2>1. samples \in Seq(Resources \cup {Malformed})
    BY PayloadAssumption
  <2>2. /\ stored \in Seq(Resources \cup {Malformed})
        /\ Member(stored) = Member(samples) \cap known
    BY <2>1, SelectFacts
  <2> QED
    BY <2>2
<1> HIDE DEF known, stored
<1>3. Len(stored) \in Nat /\ DOMAIN stored = 1..Len(stored) /\ Len(posted) \in Nat
  BY <1>2 DEF PostedInv
<1>4. items \in Seq(Posting) /\ DOMAIN items = 1..Len(stored)
  <2>1. \A i \in 1..Len(stored) : Item(d, stored[i], None, {"metric"}) \in Posting
    BY <1>2, <1>3 DEF Item, Posting, Tags, Kinds, Member
  <2> QED
    BY <1>3, <2>1
<1>5. \A i \in DOMAIN items : items[i].device = d /\ items[i].to = {"metric"}
  BY DEF Item
<1>6. /\ numbers \in Seq(Number) /\ Increasing(numbers)
      /\ Member(numbers) = {Len(posted) + i : i \in 1..Len(stored)}
  BY <1>3, CountOn
<1>7. /\ NewFor(items, "metric") = Member(numbers)
      /\ NewFor(items, "event") = {} /\ NewFor(items, "map") = {}
  <2>1. /\ {x \in DOMAIN items : "metric" \in items[x].to} = 1..Len(stored)
        /\ {x \in DOMAIN items : "event" \in items[x].to} = {}
        /\ {x \in DOMAIN items : "map" \in items[x].to} = {}
    BY <1>4, <1>5
  <2> HIDE DEF items, numbers
  <2> QED
    BY <1>6, <2>1 DEF NewFor
<1> HIDE DEF items, numbers
<1>8. <<>> \in Seq(Number) /\ Increasing(<<>>) /\ Member(<<>>) = {}
  BY NothingToSend DEF Increasing
<1>9. ns \in [Kinds -> Seq(Number)]
  BY <1>6, <1>8
<1>10. \A k \in Kinds : Increasing(ns[k]) /\ Member(ns[k]) = NewFor(items, k)
  BY <1>6, <1>7, <1>8 DEF Kinds
<1>11. QUEUE' = [k \in Kinds |-> QUEUE[k] \o ns[k]]
  BY <1>1, NothingAppended DEF QueueInv, Kinds
<1>12. AppendMaps(d, <<>>)
  BY <1>1 DEF AppendMaps
<1>13. Posts(d, items, ns, <<>>)
  BY <1>1, <1>5, <1>7, <1>8, <1>10, <1>11, <1>12 DEF Posts
<1> QED
  BY <1>4, <1>5, <1>8, <1>9, <1>13

\* What precedes the first malformed event is a sequence of events.
LEMMA AcceptedFacts ==
    ASSUME NEW events \in EventPayloads
    PROVE  Accepted(events) \in Seq(OpenStackEvent)
<1> DEFINE good == {i \in 0..Len(events) : \A j \in 1..i : events[j] # Malformed}
           last == CHOOSE i \in good : \A j \in good : j <= i
           left == {Len(events) - i : i \in good}
<1>1. /\ events \in Seq(OpenStackEvent \cup {Malformed})
      /\ Len(events) \in Nat /\ DOMAIN events = 1..Len(events)
  BY PayloadAssumption
<1>2. \E i \in good : \A j \in good : j <= i
  <2>1. left \in SUBSET Nat /\ left # {}
    <3>1. 0 \in good
      BY <1>1
    <3>2. \A i \in good : Len(events) - i \in Nat
      BY <1>1
    <3> QED
      BY <3>1, <3>2
  <2>2. PICK m \in left : \A x \in left : m <= x
    BY <2>1, LeastNatural
  <2>3. PICK i \in good : m = Len(events) - i
    BY <2>2
  <2>4. \A j \in good : Len(events) - i <= Len(events) - j
    BY <2>2, <2>3
  <2>5. \A j \in good : j <= i
    BY <1>1, <2>4
  <2> QED
    BY <2>5
<1>3. last \in good
  BY <1>2
<1>4. last \in 0..Len(events) /\ \A j \in 1..last : events[j] # Malformed
  BY <1>3
<1>5. \A j \in 1..last : events[j] \in OpenStackEvent
  BY <1>1, <1>4
<1> HIDE DEF last
<1>6. SubSeq(events, 1, last) \in Seq(OpenStackEvent)
  BY <1>1, <1>4, <1>5
<1> QED
  BY <1>6 DEF Accepted, last

\* CeilometerV1Events: an event goes to the event queue and to the map queue
\* of its device, or to one of them, or nowhere.
LEMMA EventsPosted ==
    ASSUME PostedInv, QueueInv, NEW d \in Devices, NEW events \in EventPayloads,
           PostEvents(d, events)
    PROVE  \E items \in Seq(Posting), ns \in [Kinds -> Seq(Number)], ms \in Seq(Number) :
              /\ Posts(d, items, ns, ms)
              /\ \A i \in DOMAIN items : items[i].component \in Components
<1> DEFINE handled == Accepted(events)
           items == [i \in DOMAIN handled |->
                        Item(d, handled[i].component, None, Destinations(d, handled[i]))]
           ns == [k \in Kinds |-> IF k = "event" THEN Numbers(items, "event") ELSE <<>>]
           ms == Numbers(items, "map")
<1>1. /\ posted' = posted \o items /\ lost' = lost
      /\ QUEUE' = [QUEUE EXCEPT !["event"] = QUEUE["event"] \o Numbers(items, "event")]
      /\ AppendMaps(d, ms)
      /\ UNCHANGED <<sending, delivered, maps, calling, applied>>
  BY DEF PostEvents
<1>2. handled \in Seq(OpenStackEvent)
  BY AcceptedFacts
<1> HIDE DEF handled
<1>3. \A i \in DOMAIN handled : handled[i].component \in Components
  <2>1. \A i \in DOMAIN handled : handled[i] \in OpenStackEvent
    BY <1>2
  <2> QED
    BY <2>1 DEF OpenStackEvent
<1>4. \A i \in DOMAIN handled : Destinations(d, handled[i]) \subseteq {"event", "map"}
  BY DEF Destinations
<1>5. /\ items \in Seq(Posting)
      /\ \A i \in DOMAIN items : /\ items[i].device = d
                                 /\ items[i].component \in Components
                                 /\ items[i].to \subseteq {"event", "map"}
  <2>1. Len(handled) \in Nat /\ DOMAIN handled = 1..Len(handled)
    BY <1>2
  <2>2. \A i \in DOMAIN handled :
            Item(d, handled[i].component, None, Destinations(d, handled[i])) \in Posting
    BY <1>3, <1>4 DEF Item, Posting, Tags, Kinds
  <2>3. items \in Seq(Posting)
    BY <2>1, <2>2
  <2> QED
    BY <1>3, <1>4, <2>3 DEF Item
<1> HIDE DEF items
<1>6. \A k : /\ Numbers(items, k) \in Seq(Number) /\ Increasing(Numbers(items, k))
             /\ Member(Numbers(items, k)) = NewFor(items, k)
  BY <1>5, NumbersFacts
<1>7. NewFor(items, "metric") = {}
  BY <1>5 DEF NewFor
<1>8. <<>> \in Seq(Number) /\ Increasing(<<>>) /\ Member(<<>>) = {}
  BY NothingToSend DEF Increasing
<1>9. ns \in [Kinds -> Seq(Number)]
  BY <1>6, <1>8
<1>10. \A k \in Kinds : Increasing(ns[k]) /\ Member(ns[k]) = NewFor(items, k)
  BY <1>6, <1>7, <1>8 DEF Kinds
<1>11. QUEUE' = [k \in Kinds |-> QUEUE[k] \o ns[k]]
  BY <1>1, NothingAppended DEF QueueInv, Kinds
<1>12. Posts(d, items, ns, ms)
  BY <1>1, <1>5, <1>6, <1>10, <1>11 DEF Posts
<1> QED
  BY <1>5, <1>6, <1>9, <1>12

-----------------------------------------------------------------------------
(***************************************************************************)
(* The vNIC task.  A vNIC for which a map was posted is marked as modeled; *)
(* the one the task is looking for is not, whatever was posted while the   *)
(* task had yielded.                                                       *)
(***************************************************************************)
Probing == {"instance", "yielded", "probe"}

Walking == {"vnic"} \cup Probing

VnicsInv ==
    /\ DOMAIN VNICS \subseteq Devices
    /\ \A d \in DOMAIN VNICS : /\ DOMAIN VNICS[d] = {"potential", "modeled"}
                               /\ DOMAIN VNICS[d].potential \subseteq Vnics

ScanInv ==
    /\ scan.pc \in {"idle", "device"} \cup Walking
    /\ scan.pc # "idle" => scan.devices \subseteq DOMAIN VNICS
    /\ scan.pc \in Walking =>
          /\ scan.device \in DOMAIN VNICS
          /\ {"pc", "i", "vnics"} \subseteq DOMAIN scan
          /\ scan.vnics \subseteq DOMAIN VNICS[scan.device].potential
    /\ scan.pc \in Probing =>
          /\ "instances" \in DOMAIN scan
          /\ scan.instances \subseteq Instances
          /\ scan.vnic \in Vnics \ VNICS[scan.device].modeled

Marked ==
    \A n \in VnicMaps :
        /\ posted[n].device \in DOMAIN VNICS
        /\ posted[n].component \in VNICS[posted[n].device].modeled

VnicInv == VnicsInv /\ ScanInv /\ Marked /\ OncePerVnic

\* The dictionaries only grow, and no vNIC is marked.
VnicsGrow ==
    \A d \in DOMAIN VNICS :
        /\ d \in DOMAIN VNICS'
        /\ VNICS'[d].modeled = VNICS[d].modeled
        /\ DOMAIN VNICS[d].potential \subseteq DOMAIN VNICS'[d].potential

LEMMA ScanStays == ScanInv /\ VnicsGrow /\ UNCHANGED scan => ScanInv'
<1> SUFFICES ASSUME ScanInv, VnicsGrow, UNCHANGED scan PROVE ScanInv'
  OBVIOUS
<1>1. scan.pc \in Walking =>
          /\ scan.device \in DOMAIN VNICS'
          /\ VNICS'[scan.device].modeled = VNICS[scan.device].modeled
          /\ scan.vnics \subseteq DOMAIN VNICS'[scan.device].potential
  BY DEF ScanInv, VnicsGrow
<1>2. DOMAIN VNICS \subseteq DOMAIN VNICS'
  BY DEF VnicsGrow
<1> QED
  BY <1>1, <1>2 DEF ScanInv, Walking

\* What is posted without a map of a vNIC changes nothing of this.
LEMMA OtherPostsKeepMarked ==
    ASSUME PostedInv, Marked, OncePerVnic, VnicsGrow,
           NEW items \in Seq(Posting), posted' = posted \o items, lost' = lost,
           \A i \in DOMAIN items : "map" \in items[i].to => items[i].component \notin Vnics
    PROVE  Marked' /\ OncePerVnic'
<1>1. /\ \A n \in 1..Len(posted) : posted'[n] = posted[n]
      /\ \A i \in DOMAIN items : posted'[Len(posted) + i] = items[i]
      /\ SentTo("map")' = SentTo("map") \cup NewFor(items, "map")
  <2>1. "map" \in Tags
    BY DEF Tags
  <2> QED
    BY <2>1, PostFacts
<1>2. \A n \in VnicMaps : posted'[n] = posted[n]
  BY <1>1 DEF VnicMaps, SentTo
<1>3. \A n \in NewFor(items, "map") : posted'[n].component \notin Vnics
  BY <1>1 DEF NewFor
<1>4. VnicMaps' \subseteq VnicMaps
  <2> SUFFICES ASSUME NEW n \in VnicMaps' PROVE n \in VnicMaps
    OBVIOUS
  <2>1. n \in SentTo("map")' /\ posted'[n].component \in Vnics
    BY DEF VnicMaps
  <2>2. n \in SentTo("map")
    BY <1>1, <1>3, <2>1
  <2>3. posted'[n] = posted[n]
    BY <1>1, <2>2 DEF SentTo
  <2> QED
    BY <2>1, <2>2, <2>3 DEF VnicMaps
<1>5. Marked'
  BY <1>2, <1>4 DEF Marked, VnicsGrow
<1>6. OncePerVnic'
  <2> SUFFICES ASSUME NEW m \in VnicMaps', NEW n \in VnicMaps',
                      posted'[m].device = posted'[n].device,
                      posted'[m].component = posted'[n].component
               PROVE  m = n
    BY DEF OncePerVnic
  <2>1. m \in VnicMaps /\ n \in VnicMaps /\ posted'[m] = posted[m] /\ posted'[n] = posted[n]
    BY <1>2, <1>4
  <2>2. posted[m].device = posted[n].device /\ posted[m].component = posted[n].component
    BY <2>1
  <2> QED
    BY <2>1, <2>2 DEF OncePerVnic
<1> QED
  BY <1>5, <1>6

\* New potential vNICs.
LEMMA AddFacts ==
    ASSUME VnicsInv, NEW d \in Devices, NEW new \in SUBSET Vnics, AddPotential(d, new)
    PROVE  VnicsInv' /\ VnicsGrow
<1>1. CASE new = {}
  BY <1>1 DEF AddPotential, VnicsInv, VnicsGrow
<1>2. CASE new # {}
  <2> DEFINE v == VnicsOf(d)
             grown == [r \in DOMAIN v.potential \cup new |->
                          IF r \in DOMAIN v.potential THEN v.potential[r] ELSE now]
             w == [v EXCEPT !.potential = grown]
  <2>1. VNICS' = [x \in DOMAIN VNICS \cup {d} |-> IF x # d THEN VNICS[x] ELSE w]
    BY <1>2 DEF AddPotential
  <2>2. DOMAIN v = {"potential", "modeled"} /\ DOMAIN v.potential \subseteq Vnics
    BY DEF VnicsInv, VnicsOf
  <2>3. d \in DOMAIN VNICS => v = VNICS[d]
    BY DEF VnicsOf
  <2>4. DOMAIN grown = DOMAIN v.potential \cup new
    OBVIOUS
  <2> HIDE DEF v, grown
  <2>5. /\ DOMAIN w = {"potential", "modeled"} /\ w.modeled = v.modeled
        /\ w.potential = grown
    BY <2>2
  <2> HIDE DEF w
  <2>6. VnicsInv'
    BY <2>1, <2>2, <2>4, <2>5 DEF VnicsInv
  <2>7. VnicsGrow
    BY <2>1, <2>3, <2>4, <2>5 DEF VnicsGrow
  <2> QED
    BY <2>6, <2>7
<1> QED
  BY <1>1, <1>2

\* A step that touches nothing of the vNIC task and posts nothing.
LEMMA FrameKeepsVnics ==
    VnicInv /\ UNCHANGED <<VNICS, scan, posted>> => VnicInv'
<1> SUFFICES ASSUME VnicInv, UNCHANGED <<VNICS, scan, posted>> PROVE VnicInv'
  OBVIOUS
<1>1. VnicMaps' = VnicMaps
  BY DEF VnicMaps, SentTo
<1>2. VnicsInv' /\ ScanInv'
  BY DEF VnicInv, VnicsInv, ScanInv
<1>3. Marked' /\ OncePerVnic'
  BY <1>1 DEF VnicInv, Marked, OncePerVnic
<1> QED
  BY <1>2, <1>3 DEF VnicInv

\* A step of the walk that finds nothing.
LEMMA WalkKeepsVnics ==
    ASSUME VnicInv, UNCHANGED <<VNICS, posted>>, ScanInv'
    PROVE  VnicInv'
<1>1. VnicMaps' = VnicMaps
  BY DEF VnicMaps, SentTo
<1>2. VnicsInv'
  BY DEF VnicInv, VnicsInv
<1>3. Marked' /\ OncePerVnic'
  BY <1>1 DEF VnicInv, Marked, OncePerVnic
<1> QED
  BY <1>2, <1>3 DEF VnicInv

LEMMA BackIsScanInv ==
    ASSUME ScanInv, scan.pc \in Probing, scan' = BackToVnics,
           NEW V, DOMAIN V = DOMAIN VNICS, VNICS' = V,
           \A d \in DOMAIN V : DOMAIN V[d].potential = DOMAIN VNICS[d].potential
    PROVE  ScanInv'
<1>1. /\ scan'.pc = "vnic" /\ scan'.devices = scan.devices /\ scan'.device = scan.device
      /\ scan'.vnics = scan.vnics /\ {"pc", "i", "vnics"} \subseteq DOMAIN scan'
  BY DEF BackToVnics
<1>2. scan.pc \in Walking /\ scan.pc # "idle"
  BY DEF Walking, Probing
<1>3. "vnic" \in Walking /\ "vnic" \notin Probing
  BY DEF Walking, Probing
<1> QED
  BY <1>1, <1>2, <1>3 DEF ScanInv

LEMMA StartKeepsScan == ScanInv /\ StartVnicTask => ScanInv'
<1> SUFFICES ASSUME StartVnicTask PROVE ScanInv'
  OBVIOUS
<1>1. scan'.pc = "device" /\ scan'.devices = DOMAIN VNICS /\ VNICS' = VNICS
  BY DEF StartVnicTask
<1>2. "device" \notin Walking /\ "device" \notin Probing
  BY DEF Walking, Probing
<1> QED
  BY <1>1, <1>2 DEF ScanInv

LEMMA NextDeviceKeepsScan == ScanInv /\ NextDevice => ScanInv'
<1> SUFFICES ASSUME ScanInv, NextDevice PROVE ScanInv'
  OBVIOUS
<1>0. /\ "idle" \notin Walking /\ "idle" \notin Probing /\ "vnic" \notin Probing
      /\ "vnic" \in Walking
  BY DEF Walking, Probing
<1>1. CASE WalkOn(Asleep)
  <2>1. scan'.pc = "idle"
    BY <1>1 DEF WalkOn, Asleep
  <2> QED
    BY <1>0, <2>1 DEF ScanInv
<1>2. ASSUME NEW d \in scan.devices,
             WalkOn([pc |-> "vnic", now |-> scan.now, i |-> scan.i,
                     devices |-> scan.devices \ {d}, size |-> scan.size,
                     device |-> d, vnics |-> DOMAIN VNICS[d].potential,
                     count |-> Cardinality(DOMAIN VNICS[d].potential)])
      PROVE  ScanInv'
  <2>1. /\ scan'.pc = "vnic" /\ scan'.devices = scan.devices \ {d} /\ scan'.device = d
        /\ scan'.vnics = DOMAIN VNICS[d].potential
        /\ {"pc", "i", "vnics"} \subseteq DOMAIN scan'
        /\ VNICS' = VNICS
    BY <1>2 DEF WalkOn
  <2>2. scan.devices \subseteq DOMAIN VNICS
    BY DEF NextDevice, ScanInv
  <2> QED
    BY <1>0, <2>1, <2>2 DEF ScanInv
<1> QED
  BY <1>1, <1>2 DEF NextDevice

LEMMA NextVnicKeepsScan == VnicInv /\ NextVnic => ScanInv'
<1> SUFFICES ASSUME VnicsInv, ScanInv, NextVnic PROVE ScanInv'
  BY DEF VnicInv
<1>0. /\ "idle" \notin Walking /\ "idle" \notin Probing
      /\ "device" \notin Walking /\ "device" \notin Probing
      /\ "vnic" \in Walking /\ "vnic" \notin Probing
      /\ "instance" \in Walking /\ "instance" \in Probing
  BY DEF Walking, Probing
<1>1. /\ scan.pc = "vnic" /\ scan.devices \subseteq DOMAIN VNICS
      /\ scan.device \in DOMAIN VNICS /\ {"pc", "i", "vnics"} \subseteq DOMAIN scan
      /\ scan.vnics \subseteq DOMAIN VNICS[scan.device].potential
  BY <1>0 DEF NextVnic, ScanInv
<1>2. CASE WalkOn(Asleep)
  <2>1. scan'.pc = "idle"
    BY <1>2 DEF WalkOn, Asleep
  <2> QED
    BY <1>0, <2>1 DEF ScanInv
<1>3. CASE WalkOn([pc |-> "device", now |-> scan.now, i |-> scan.i,
                   devices |-> scan.devices, size |-> scan.size])
  <2>1. scan'.pc = "device" /\ scan'.devices = scan.devices /\ VNICS' = VNICS
    BY <1>3 DEF WalkOn
  <2> QED
    BY <1>0, <1>1, <2>1 DEF ScanInv
<1>4. ASSUME NEW r \in scan.vnics, Skipped(r), WalkOn([scan EXCEPT !.vnics = @ \ {r}])
      PROVE  ScanInv'
  <2>1. /\ scan'.pc = "vnic" /\ scan'.devices = scan.devices /\ scan'.device = scan.device
        /\ scan'.vnics = scan.vnics \ {r} /\ DOMAIN scan' = DOMAIN scan /\ VNICS' = VNICS
    BY <1>1, <1>4 DEF WalkOn
  <2> QED
    BY <1>0, <1>1, <2>1 DEF ScanInv
<1>5. ASSUME NEW r \in scan.vnics, ~Skipped(r),
             WalkOn([pc |-> "instance", now |-> scan.now, i |-> scan.i,
                     devices |-> scan.devices, size |-> scan.size,
                     device |-> scan.device, vnics |-> scan.vnics \ {r},
                     count |-> scan.count,
                     vnic |-> r, instances |-> device_instances(scan.device)])
      PROVE  ScanInv'
  <2>1. /\ scan'.pc = "instance" /\ scan'.devices = scan.devices /\ scan'.device = scan.device
        /\ scan'.vnics = scan.vnics \ {r} /\ scan'.vnic = r
        /\ scan'.instances = device_instances(scan.device)
        /\ {"pc", "i", "vnics", "instances"} \subseteq DOMAIN scan' /\ VNICS' = VNICS
    BY <1>5 DEF WalkOn
  <2>2. r \in Vnics \ VNICS[scan.device].modeled
    BY <1>1, <1>5 DEF Skipped, Walked, VnicsInv
  <2>3. device_instances(scan.device) \subseteq Instances
    BY DEF device_instances
  <2> QED
    BY <1>0, <1>1, <2>1, <2>2, <2>3 DEF ScanInv
<1> QED
  BY <1>2, <1>3, <1>4, <1>5 DEF NextVnic

LEMMA NextInstanceKeepsScan == ScanInv /\ NextInstance => ScanInv'
<1> SUFFICES ASSUME ScanInv, NextInstance PROVE ScanInv'
  OBVIOUS
<1>1. scan.pc = "instance" /\ VNICS' = VNICS
  BY DEF NextInstance, WalkOn
<1>2. CASE scan' = BackToVnics
  <2>1. scan.pc \in Probing
    BY <1>1 DEF Probing
  <2> QED
    BY <1>1, <1>2, <2>1, BackIsScanInv
<1>3. ASSUME NEW i, NEW pc \in {"yielded", "probe"},
             scan' = [scan EXCEPT !.i = i, !.pc = pc]
      PROVE  ScanInv'
  <2>1. "instance" \in Walking /\ "instance" \in Probing /\ pc \in Walking /\ pc \in Probing
    BY DEF Walking, Probing
  <2>2. {"pc", "i", "vnics"} \subseteq DOMAIN scan
    BY <1>1, <2>1 DEF ScanInv
  <2>3. /\ scan'.pc = pc /\ scan'.devices = scan.devices /\ scan'.device = scan.device
        /\ scan'.vnics = scan.vnics /\ scan'.vnic = scan.vnic
        /\ scan'.instances = scan.instances /\ DOMAIN scan' = DOMAIN scan
    BY <1>3, <2>2
  <2> QED
    BY <1>1, <2>1, <2>3 DEF ScanInv
<1> QED
  BY <1>2, <1>3 DEF NextInstance, WalkOn

\* The vNIC that has been found is marked and its map posted, the first for it.
LEMMA FoundKeepsVnics ==
    ASSUME PostedInv, VnicInv, scan.pc \in Probing,
           NEW u \in scan.instances, VnicFound(u), scan' = BackToVnics, lost' = lost,
           NEW p, NEW items \in Seq(Posting),
           items = <<Item(scan.device, scan.vnic, p, {"map"})>>,
           posted' = posted \o items
    PROVE  VnicInv'
<1> DEFINE d == scan.device
           r == scan.vnic
           new == Len(posted) + 1
<1>1. /\ d \in DOMAIN VNICS /\ r \in Vnics \ VNICS[d].modeled
      /\ DOMAIN VNICS[d] = {"potential", "modeled"}
  BY DEF VnicInv, VnicsInv, ScanInv, Walking
<1>2. /\ DOMAIN VNICS' = DOMAIN VNICS
      /\ \A x \in DOMAIN VNICS \ {d} : VNICS'[x] = VNICS[x]
      /\ VNICS'[d] = [VNICS[d] EXCEPT !.modeled = VNICS[d].modeled \cup {r}]
  BY <1>1 DEF VnicFound
<1>3. /\ VNICS'[d].modeled = VNICS[d].modeled \cup {r}
      /\ VNICS'[d].potential = VNICS[d].potential
      /\ DOMAIN VNICS'[d] = {"potential", "modeled"}
  BY <1>1, <1>2
<1>4. VnicsInv'
  BY <1>1, <1>2, <1>3 DEF VnicInv, VnicsInv
<1>5. ScanInv'
  <2>1. \A x \in DOMAIN VNICS' : DOMAIN VNICS'[x].potential = DOMAIN VNICS[x].potential
    BY <1>2, <1>3
  <2>2. ScanInv
    BY DEF VnicInv
  <2> QED
    BY <1>2, <2>1, <2>2, BackIsScanInv
<1>6. /\ DOMAIN items = {1} /\ items[1].device = d /\ items[1].component = r
      /\ items[1].to = {"map"}
  BY DEF Item
<1>7. /\ \A n \in 1..Len(posted) : posted'[n] = posted[n]
      /\ posted'[new] = items[1]
      /\ SentTo("map")' = SentTo("map") \cup {new}
      /\ Len(posted) \in Nat
  <2>1. "map" \in Tags /\ Len(posted) \in Nat
    BY DEF Tags, PostedInv
  <2>2. NewFor(items, "map") = {new}
    <3>1. {x \in DOMAIN items : "map" \in items[x].to} = {1}
      BY <1>6
    <3> QED
      BY <3>1 DEF NewFor
  <2>3. /\ \A n \in 1..Len(posted) : posted'[n] = posted[n]
        /\ \A i \in DOMAIN items : posted'[Len(posted) + i] = items[i]
        /\ \A k \in Tags : SentTo(k)' = SentTo(k) \cup NewFor(items, k)
    BY PostFacts
  <2> QED
    BY <1>6, <2>1, <2>2, <2>3
<1> HIDE DEF d, r, new
<1>8. \A n \in VnicMaps : posted'[n] = posted[n]
  BY <1>7 DEF VnicMaps, SentTo
<1>9. \A n \in VnicMaps' : n = new \/ n \in VnicMaps
  <2> SUFFICES ASSUME NEW n \in VnicMaps', n # new PROVE n \in VnicMaps
    OBVIOUS
  <2>1. n \in SentTo("map") /\ posted'[n].component \in Vnics
    BY <1>7 DEF VnicMaps
  <2>2. posted'[n] = posted[n]
    BY <1>7, <2>1 DEF SentTo
  <2> QED
    BY <2>1, <2>2 DEF VnicMaps
<1>10. posted'[new].device = d /\ posted'[new].component = r
  BY <1>6, <1>7
<1>11. \A n \in VnicMaps :
           /\ posted'[n].device \in DOMAIN VNICS
           /\ posted'[n].component \in VNICS[posted'[n].device].modeled
           /\ ~(posted'[n].device = d /\ posted'[n].component = r)
  BY <1>1, <1>8 DEF VnicInv, Marked
<1>12. Marked'
  <2> SUFFICES ASSUME NEW n \in VnicMaps'
               PROVE  /\ posted'[n].device \in DOMAIN VNICS'
                      /\ posted'[n].component \in VNICS'[posted'[n].device].modeled
    BY DEF Marked
  <2>1. CASE n = new
    BY <1>1, <1>2, <1>3, <1>10, <2>1
  <2>2. CASE n \in VnicMaps
    BY <1>2, <1>3, <1>11, <2>2
  <2> QED
    BY <1>9, <2>1, <2>2
<1>13. OncePerVnic'
  <2> SUFFICES ASSUME NEW m \in VnicMaps', NEW n \in VnicMaps',
                      posted'[m].device = posted'[n].device,
                      posted'[m].component = posted'[n].component
               PROVE  m = n
    BY DEF OncePerVnic
  <2>1. CASE m \in VnicMaps /\ n \in VnicMaps
    <3>1. posted'[m] = posted[m] /\ posted'[n] = posted[n]
      BY <1>8, <2>1
    <3>2. posted[m].device = posted[n].device /\ posted[m].component = posted[n].component
      BY <3>1
    <3> QED
      BY <2>1, <3>2 DEF VnicInv, OncePerVnic
  <2>2. CASE m = new \/ n = new
    BY <1>9, <1>10, <1>11, <2>2
  <2> QED
    BY <1>9, <2>1, <2>2
<1> QED
  BY <1>4, <1>5, <1>12, <1>13 DEF VnicInv

\* The map of the vNIC goes to the queue of its device.
LEMMA FoundPosts ==
    ASSUME PostedInv, QueueInv, VnicInv, Probe,
           NEW u \in scan.instances, NEW p \in Instances \cup {None},
           posted' = Append(posted, Item(scan.device, scan.vnic, p, {"map"})),
           AppendMaps(scan.device, <<Len(posted) + 1>>)
    PROVE  LET items == <<Item(scan.device, scan.vnic, p, {"map"})>> IN
           /\ scan.device \in Devices /\ items \in Seq(Posting)
           /\ posted' = posted \o items /\ lost' = lost
           /\ \E ns \in [Kinds -> Seq(Number)], ms \in Seq(Number) :
                 Posts(scan.device, items, ns, ms)
<1> DEFINE new == Item(scan.device, scan.vnic, p, {"map"})
           items == <<new>>
           ns == [k \in Kinds |-> <<>>]
           ms == <<Len(posted) + 1>>
<1>1. scan.device \in Devices /\ scan.vnic \in Vnics
  BY DEF Probe, VnicInv, VnicsInv, ScanInv, Walking, Probing
<1>2. new \in Posting
  BY <1>1 DEF Item, Posting, Tags, Kinds, Resources
<1>3. new.device = scan.device /\ new.to = {"map"}
  BY DEF Item
<1> HIDE DEF new
<1>4. items \in Seq(Posting) /\ DOMAIN items = {1} /\ items[1] = new
  BY <1>2
<1>5. posted' = posted \o items /\ Len(posted) \in Nat
  BY DEF PostedInv, new
<1>6. NewFor(items, "event") = {} /\ NewFor(items, "metric") = {}
      /\ NewFor(items, "map") = {Len(posted) + 1}
  <2>1. /\ {x \in DOMAIN items : "event" \in items[x].to} = {}
        /\ {x \in DOMAIN items : "metric" \in items[x].to} = {}
        /\ {x \in DOMAIN items : "map" \in items[x].to} = {1}
    BY <1>3, <1>4
  <2> QED
    BY <2>1 DEF NewFor
<1>7. ms \in Seq(Number) /\ Increasing(ms) /\ Member(ms) = {Len(posted) + 1}
  BY <1>5 DEF Number, Increasing, Member
<1>8. <<>> \in Seq(Number) /\ Increasing(<<>>) /\ Member(<<>>) = {}
  BY NothingToSend DEF Increasing
<1> HIDE DEF items, ms
<1>9. /\ ns \in [Kinds -> Seq(Number)]
      /\ \A k \in Kinds : Increasing(ns[k]) /\ Member(ns[k]) = NewFor(items, k)
  BY <1>6, <1>8 DEF Kinds
<1>10. /\ QUEUE' = QUEUE /\ lost' = lost
       /\ UNCHANGED <<sending, delivered, maps, calling, applied>>
  BY DEF Probe, VnicTaskUntouched, queueVars
<1>11. QUEUE' = [k \in Kinds |-> QUEUE[k] \o ns[k]]
  BY <1>10, NothingAppended DEF QueueInv
<1>12. Posts(scan.device, items, ns, ms)
  BY <1>3, <1>4, <1>5, <1>6, <1>7, <1>9, <1>10, <1>11 DEF Posts, ms
<1> QED
  BY <1>1, <1>4, <1>5, <1>7, <1>9, <1>10, <1>12 DEF items, new

-----------------------------------------------------------------------------
(***************************************************************************)
(* The invariant of the daemon, and the steps that keep it.                *)
(***************************************************************************)
LinesInv == PostedInv /\ QueueInv /\ SentInOrder /\ MapInv /\ MapLines

DaemonInv == LinesInv /\ VnicInv

\* A step that posts nothing, sends nothing and loses nothing.
LEMMA FrameKeepsLines ==
    ASSUME LinesInv, posted' = posted, lost' = lost,
           UNCHANGED <<QUEUE, sending, delivered, MAP_QUEUE, maps, calling, applied>>
    PROVE  LinesInv'
<1>1. PostedInv' /\ MapInv'
  BY DEF LinesInv, PostedInv, MapInv
<1>2. QueueInv' /\ SentInOrder'
  BY FrameKeepsOrder DEF LinesInv
<1>3. MapLines'
  <2>1. LostFrom("map")' = LostFrom("map")
    BY DEF LostFrom
  <2> QED
    BY <2>1, FrameKeepsMaps DEF LinesInv, Calling, Queue
<1> QED
  BY <1>1, <1>2, <1>3 DEF LinesInv

LEMMA UpdateKeepsInvariant ==
    ASSUME DaemonInv, NEW d \in Devices, NEW cfg, _updateConfig(d, cfg)
    PROVE  DaemonInv'
<1>1. UNCHANGED <<posted, lost, QUEUE, sending, delivered, VNICS, scan>>
  BY DEF _updateConfig, queueVars, vnicVars
<1>2. PostedInv'
  BY <1>1 DEF DaemonInv, LinesInv, PostedInv
<1>3. QueueInv' /\ SentInOrder'
  BY <1>1, FrameKeepsOrder DEF DaemonInv, LinesInv
<1>4. MapInv' /\ MapLines'
  BY UpdateKeepsMaps DEF DaemonInv, LinesInv
<1>5. VnicInv'
  BY <1>1, FrameKeepsVnics DEF DaemonInv
<1> QED
  BY <1>2, <1>3, <1>4, <1>5 DEF DaemonInv, LinesInv

LEMMA SamplesKeepInvariant ==
    ASSUME DaemonInv, NEW d \in Devices, NEW samples \in SamplePayloads, PostSamples(d, samples)
    PROVE  DaemonInv'
<1>1. PICK items \in Seq(Posting), ns \in [Kinds -> Seq(Number)], ms \in Seq(Number) :
          /\ Posts(d, items, ns, ms)
          /\ \A i \in DOMAIN items : items[i].to = {"metric"}
  BY SamplesPosted DEF DaemonInv, LinesInv
<1>2. LinesInv'
  BY <1>1, PostsKeepInv DEF DaemonInv, LinesInv
<1>3. AddPotential(d, Unknown(d, samples)) /\ UNCHANGED scan
  BY DEF PostSamples
<1>4. VnicsInv' /\ VnicsGrow
  BY <1>3, AddFacts DEF DaemonInv, VnicInv, Unknown
<1>5. ScanInv'
  BY <1>3, <1>4, ScanStays DEF DaemonInv, VnicInv
<1>6. Marked' /\ OncePerVnic'
  <2>1. \A i \in DOMAIN items : "map" \notin items[i].to
    BY <1>1
  <2> QED
    BY <1>1, <1>4, <2>1, OtherPostsKeepMarked DEF DaemonInv, LinesInv, VnicInv, Posts
<1> QED
  BY <1>2, <1>4, <1>5, <1>6 DEF DaemonInv, VnicInv

LEMMA EventsKeepInvariant ==
    ASSUME DaemonInv, NEW d \in Devices, NEW events \in EventPayloads, PostEvents(d, events)
    PROVE  DaemonInv'
<1>1. PICK items \in Seq(Posting), ns \in [Kinds -> Seq(Number)], ms \in Seq(Number) :
          /\ Posts(d, items, ns, ms)
          /\ \A i \in DOMAIN items : items[i].component \in Components
  BY EventsPosted DEF DaemonInv, LinesInv
<1>2. LinesInv'
  BY <1>1, PostsKeepInv DEF DaemonInv, LinesInv
<1>3. UNCHANGED <<VNICS, scan>>
  BY DEF PostEvents, vnicVars
<1>4. VnicsGrow
  BY <1>3 DEF VnicsGrow
<1>5. VnicsInv' /\ ScanInv'
  BY <1>3, <1>4, ScanStays DEF DaemonInv, VnicInv, VnicsInv
<1>6. Marked' /\ OncePerVnic'
  <2>1. \A i \in DOMAIN items : items[i].component \notin Vnics
    BY <1>1, PayloadAssumption
  <2> QED
    BY <1>1, <1>4, <2>1, OtherPostsKeepMarked DEF DaemonInv, LinesInv, VnicInv, Posts
<1> QED
  BY <1>2, <1>5, <1>6 DEF DaemonInv, VnicInv

LEMMA QueueTaskKeepsInvariant ==
    ASSUME DaemonInv, NEW k \in Kinds, QueueTask(k)
    PROVE  DaemonInv'
<1>1. UNCHANGED <<posted, MAP_QUEUE, maps, calling, applied, VNICS, scan>>
  BY DEF QueueTask, StartQueueTask, ItemSent, SendFails, QueueTaskUntouched, mapVars, vnicVars
<1>2. PostedInv' /\ QueueInv' /\ SentInOrder'
  BY QueueTaskKeepsOrder DEF DaemonInv, LinesInv
<1>3. LostFrom("map")' = LostFrom("map")
  <2>1. \/ lost' = lost
        \/ lost' = lost \cup {<<k, n>> : n \in Member(sending[k])}
    BY DEF QueueTask, StartQueueTask, ItemSent, SendFails
  <2>2. k # "map"
    BY DEF Kinds
  <2>3. \A n : <<"map", n>> \in lost' <=> <<"map", n>> \in lost
    BY <2>1, <2>2
  <2> QED
    BY <1>1, <2>3 DEF LostFrom
<1>4. MapInv' /\ MapLines'
  BY <1>1, <1>3, FrameKeepsMaps DEF DaemonInv, LinesInv, MapInv, Calling, Queue
<1>5. VnicInv'
  BY <1>1, FrameKeepsVnics DEF DaemonInv
<1> QED
  BY <1>2, <1>4, <1>5 DEF DaemonInv, LinesInv

LEMMA MapTaskKeepsInvariant ==
    ASSUME DaemonInv, MapTask
    PROVE  DaemonInv'
<1>1. QueueInv' /\ SentInOrder'
  BY MapTaskKeepsOrder DEF DaemonInv, LinesInv
<1>2. PostedInv' /\ MapInv' /\ MapLines'
  BY StartKeepsMaps, AppliedKeepsMaps, CallFailsKeepsMaps DEF DaemonInv, LinesInv, MapTask
<1>3. UNCHANGED <<posted, VNICS, scan>>
  BY DEF MapTask, StartMapTask, MapsApplied, MapCallFails, MapTaskUntouched, vnicVars
<1>4. VnicInv'
  BY <1>3, FrameKeepsVnics DEF DaemonInv
<1> QED
  BY <1>1, <1>2, <1>4 DEF DaemonInv, LinesInv

\* A step of the walk that posts nothing.
LEMMA WalkKeepsInvariant ==
    ASSUME DaemonInv, UNCHANGED <<VNICS, MAP_QUEUE, posted>>, VnicTaskUntouched, ScanInv'
    PROVE  DaemonInv'
<1>1. LinesInv'
  BY FrameKeepsLines DEF DaemonInv, VnicTaskUntouched, queueVars
<1>2. VnicInv'
  BY WalkKeepsVnics DEF DaemonInv
<1> QED
  BY <1>1, <1>2 DEF DaemonInv

LEMMA ProbeKeepsInvariant ==
    ASSUME DaemonInv, Probe
    PROVE  DaemonInv'
<1>0. /\ scan.pc \in Probing /\ scan.pc \in Walking /\ scan.pc # "idle"
      /\ "instance" \in Probing /\ "instance" \in Walking
  BY DEF Probe, Probing, Walking
<1>1. ASSUME NEW u \in scan.instances, VnicFound(u), scan' = BackToVnics,
             posted' = Append(posted, Item(scan.device, scan.vnic,
                                IF has_resource(scan.device, u) THEN u ELSE None, {"map"})),
             AppendMaps(scan.device, <<Len(posted) + 1>>)
      PROVE  DaemonInv'
  <2> DEFINE p == IF has_resource(scan.device, u) THEN u ELSE None
             items == <<Item(scan.device, scan.vnic, p, {"map"})>>
  <2>1. p \in Instances \cup {None}
    BY <1>0 DEF DaemonInv, VnicInv, ScanInv
  <2>2. /\ scan.device \in Devices /\ items \in Seq(Posting)
        /\ posted' = posted \o items /\ lost' = lost
        /\ \E ns \in [Kinds -> Seq(Number)], ms \in Seq(Number) :
              Posts(scan.device, items, ns, ms)
    BY <1>1, <2>1, FoundPosts DEF DaemonInv, LinesInv
  <2>3. LinesInv'
    BY <2>2, PostsKeepInv DEF DaemonInv, LinesInv
  <2>4. VnicInv'
    BY <1>0, <1>1, <2>2, FoundKeepsVnics DEF DaemonInv, LinesInv
  <2> QED
    BY <2>3, <2>4 DEF DaemonInv
<1>2. ASSUME NEW u \in scan.instances,
             scan' = [scan EXCEPT !.pc = "instance", !.instances = @ \ {u}],
             UNCHANGED <<VNICS, MAP_QUEUE, posted>>
      PROVE  DaemonInv'
  <2>1. {"pc", "i", "vnics", "instances"} \subseteq DOMAIN scan
    BY <1>0 DEF DaemonInv, VnicInv, ScanInv
  <2>2. /\ scan'.pc = "instance" /\ scan'.devices = scan.devices
        /\ scan'.device = scan.device /\ scan'.vnics = scan.vnics
        /\ scan'.vnic = scan.vnic /\ scan'.instances = scan.instances \ {u}
        /\ DOMAIN scan' = DOMAIN scan
    BY <1>2, <2>1
  <2>3. ScanInv'
    BY <1>0, <1>2, <2>2 DEF DaemonInv, VnicInv, ScanInv
  <2> QED
    BY <1>2, <2>3, WalkKeepsInvariant DEF Probe
<1> QED
  BY <1>1, <1>2 DEF Probe

LEMMA VnicTaskKeepsInvariant ==
    ASSUME DaemonInv, VnicTask
    PROVE  DaemonInv'
<1>1. CASE Probe
  BY <1>1, ProbeKeepsInvariant
<1>2. CASE StartVnicTask
  <2>1. ScanInv'
    BY <1>2, StartKeepsScan DEF DaemonInv, VnicInv
  <2> QED
    BY <1>2, <2>1, WalkKeepsInvariant DEF StartVnicTask
<1>3. CASE NextDevice \/ NextVnic \/ NextInstance
  <2>1. ScanInv'
    BY <1>3, NextDeviceKeepsScan, NextVnicKeepsScan, NextInstanceKeepsScan DEF DaemonInv, VnicInv
  <2>2. \E s : WalkOn(s)
    BY <1>3 DEF NextDevice, NextVnic, NextInstance
  <2>3. UNCHANGED <<VNICS, MAP_QUEUE, posted>> /\ VnicTaskUntouched
    BY <2>2 DEF WalkOn
  <2> QED
    BY <2>1, <2>3, WalkKeepsInvariant
<1> QED
  BY <1>1, <1>2, <1>3 DEF VnicTask, VnicWalk

LEMMA StepKeepsInvariant ==
    ASSUME DaemonInv, [Next]_vars
    PROVE  DaemonInv'
<1>1. ASSUME NEW d \in Devices, _deleteDevice(d) PROVE DaemonInv'
  BY <1>1, FrameKeepsLines, FrameKeepsVnics
     DEF DaemonInv, _deleteDevice, queueVars, mapVars, vnicVars
<1>2. CASE Tick
  BY <1>2, FrameKeepsLines, FrameKeepsVnics DEF DaemonInv, Tick, queueVars, mapVars
<1>3. CASE UNCHANGED vars
  BY <1>3, FrameKeepsLines, FrameKeepsVnics DEF DaemonInv, vars, queueVars, mapVars, vnicVars
<1>4. CASE Handler
  BY <1>1, <1>2, <1>4, UpdateKeepsInvariant, SamplesKeepInvariant, EventsKeepInvariant DEF Handler
<1>5. CASE \E k \in Kinds : QueueTask(k)
  BY <1>5, QueueTaskKeepsInvariant
<1> QED
  BY <1>3, <1>4, <1>5, MapTaskKeepsInvariant, VnicTaskKeepsInvariant DEF Next

LEMMA InitEstablishesInvariant == Init => DaemonInv
<1> SUFFICES ASSUME Init PROVE DaemonInv
  OBVIOUS
<1>1. PostedInv
  BY DEF Init, PostedInv
<1>2. QueueInv
  BY NothingToSend DEF Init, QueueInv
<1>3. /\ \A k : LostFrom(k) = {} /\ SentTo(k) = {}
      /\ Len(posted) = 0
  BY DEF Init, LostFrom, SentTo
<1>4. SentInOrder
  <2>1. \A k \in Kinds : delivered[k] = <<>> /\ sending[k] = <<>> /\ QUEUE[k] = <<>>
    BY DEF Init
  <2>2. <<>> \o (<<>> \o <<>>) = <<>>
    OBVIOUS
  <2>3. \A k \in Kinds : Line(k) = <<>>
    BY <2>1, <2>2 DEF Line
  <2> QED
    BY <1>3, <2>3, NothingToSend DEF SentInOrder, Increasing
<1>5. MapInv
  BY NothingToSend DEF Init, MapInv
<1>6. MapLines
  <2>1. \A d \in Devices : applied[d] = <<>> /\ Calling(d) = <<>> /\ Queue(d).held = <<>>
    BY DEF Init, Calling, Queue, MapQueue
  <2>2. \A d \in Devices : GotSet(d) = {}
    BY <2>1, NothingToSend DEF GotSet
  <2>3. UNION {GotSet(d) : d \in Devices} = {}
    BY <2>2
  <2> QED
    BY <1>3, <2>1, <2>2, <2>3, NothingToSend DEF MapLines, InLine
<1>7. VnicsInv
  BY DEF Init, VnicsInv
<1>8. ScanInv
  BY DEF Init, Asleep, ScanInv, Walking, Probing
<1>9. Marked /\ OncePerVnic
  BY <1>3 DEF Marked, OncePerVnic, VnicMaps
<1> QED
  BY <1>1, <1>2, <1>4, <1>5, <1>6, <1>7, <1>8, <1>9 DEF DaemonInv, LinesInv, VnicInv

LEMMA DaemonInvHolds == Spec => []DaemonInv
<1>1. DaemonInv /\ [Next]_vars => DaemonInv'
  BY StepKeepsInvariant
<1> QED
  BY <1>1, InitEstablishesInvariant, PTL DEF Spec

\* Events and metrics reach zenhub in the order they were accepted in, each
\* once, or were lost in a call that failed (OpenStackEventTask and
\* OpenStackPerfTask, with the handlers that fill their queues).
THEOREM SentInOrderHolds == Spec => []SentInOrder
<1>1. DaemonInv => SentInOrder
  BY DEF DaemonInv, LinesInv
<1> QED
  BY <1>1, DaemonInvHolds, PTL

\* Object maps reach the device they were posted for, at most once, those of
\* one component in order, or are accounted for (OpenStackMapTask, with the
\* handlers and the vNIC task that fill the queues).
THEOREM MapsInOrderHolds == Spec => []MapsInOrder
<1>1. DaemonInv => MapsInOrder
  BY MapLinesNow DEF DaemonInv, LinesInv
<1> QED
  BY <1>1, DaemonInvHolds, PTL

\* No vNIC is modeled twice, whatever is posted while the task has yielded
\* (OpenStackVnicTask).
THEOREM OncePerVnicHolds == Spec => []OncePerVnic
<1>1. DaemonInv => OncePerVnic
  BY DEF DaemonInv, VnicInv
<1> QED
  BY <1>1, DaemonInvHolds, PTL

=============================================================================
