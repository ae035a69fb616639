--------------------------- MODULE Services_proofs ---------------------------
(***************************************************************************)
(* Proofs about the parts of Services: the budgets of candidates, the      *)
(* capacity of the cache of shares, the TLS context, the start of the      *)
(* program, HTTP, the socket file, the event stream, the log files and the *)
(* targets of miners, each with an inductive invariant (that of the blocks *)
(* of jobs is in BlockTemplate_proofs); and about their composition, of    *)
(* which every step is one of the part that runs.                          *)
(***************************************************************************)
EXTENDS Services, GlobalShareCache_proofs, BlockTemplate_proofs

(***************************************************************************)
(* The budgets of candidates: a window holds the ages of those candidates  *)
(* that went on and are younger than it is long.                           *)
(***************************************************************************)

\* Numbers that are counted from another start.
LEMMA ShiftedCount ==
    ASSUME NEW n \in Nat, NEW S \in SUBSET Nat, IsFiniteSet(S), \A s \in S : n <= s
    PROVE  Cardinality({i \in Nat : i + n \in S}) = Cardinality(S)
<1> DEFINE T == {i \in Nat : i + n \in S}
<1> DEFINE f == [s \in S |-> s - n]
<1>1. f \in [S -> T]
  <2>1. ASSUME NEW s \in S PROVE s - n \in T
    BY n <= s
  <2> QED BY <2>1
<1>2. \A s, t \in S : f[s] = f[t] => s = t
  OBVIOUS
<1>3. \A i \in T : \E s \in S : f[s] = i
  <2>1. ASSUME NEW i \in T PROVE \E s \in S : f[s] = i
    <3>1. i + n \in S /\ f[i + n] = i
      OBVIOUS
    <3> QED BY <3>1
  <2> QED BY <2>1
<1>4. f \in Bijection(S, T)
  <2>1. f \in Injection(S, T)
    BY <1>1, <1>2 DEF Injection, IsInjective
  <2>2. f \in Surjection(S, T)
    BY <1>1, <1>3 DEF Surjection
  <2> QED BY <2>1, <2>2 DEF Bijection
<1> HIDE DEF f, T
<1>5. Cardinality(T) = Cardinality(S)
  BY <1>4, FS_Bijection DEF ExistsBijection
<1> QED BY <1>5 DEF T

(***************************************************************************)
(* Windows                                                                 *)
(***************************************************************************)

Ages == 0..kCandidateWindow

\* Older entries are in front.
Sorted(w) == \A i, j \in 1..Len(w) : i <= j => w[j] <= w[i]

YoungIn(w, a) == {i \in 1..Len(w) : w[i] < a}

WindowOK(w) == w \in Seq(Ages) /\ Sorted(w)

LEMMA YoungCount ==
    ASSUME NEW w, w \in Seq(Ages), NEW a \in Int
    PROVE  IsFiniteSet(YoungIn(w, a)) /\ Cardinality(YoungIn(w, a)) \in Nat
<1>1. Len(w) \in Nat
  OBVIOUS
<1>2. IsFiniteSet(1..Len(w))
  BY <1>1, FS_Interval
<1> QED BY <1>2, FS_Subset, FS_CardinalityType DEF YoungIn

\* The loop of expire leaves a window from its first young entry on.
LEMMA Popped ==
    ASSUME NEW w, w \in Seq(Ages)
    PROVE  /\ popped(w) \in 0..Len(w)
           /\ \A i \in 1..popped(w) : ~Young(w[i])
           /\ popped(w) < Len(w) => Young(w[popped(w) + 1])
<1>1. \E n \in 0..Len(w) : (\A i \in 1..n : ~Young(w[i])) /\ (n < Len(w) => Young(w[n + 1]))
  <2> DEFINE S == {i \in 1..Len(w) : Young(w[i])}
  <2>0. Len(w) \in Nat
    OBVIOUS
  <2>1. CASE S = {}
    <3>1. (\A i \in 1..Len(w) : ~Young(w[i])) /\ Len(w) \in 0..Len(w)
      BY <2>0, <2>1
    <3> QED BY <2>0, <3>1
  <2>2. CASE S # {}
    <3>1. S \in SUBSET Nat
      BY <2>0
    <3>2. PICK n \in S : \A m \in S : n <= m
      BY <2>2, <3>1, LeastNumber
    <3>3. n \in 1..Len(w) /\ Young(w[n]) /\ n - 1 \in 0..Len(w) /\ (n - 1) + 1 = n
      BY <2>0, <3>2
    <3>4. \A i \in 1..(n - 1) : ~Young(w[i])
      BY <2>0, <3>2, <3>3
    <3> QED BY <3>3, <3>4
  <2> QED BY <2>1, <2>2
<1> QED BY <1>1 DEF popped

LEMMA Expired ==
    ASSUME NEW w, WindowOK(w)
    PROVE  /\ WindowOK(expire(w))
           /\ Len(expire(w)) = Cardinality(YoungIn(w, kCandidateWindow))
           /\ \A a \in Ages : Cardinality(YoungIn(expire(w), a)) = Cardinality(YoungIn(w, a))
<1> USE DEF WindowOK
<1>0. Len(w) \in Nat /\ w \in Seq(Ages) /\ kCandidateWindow \in Nat
  BY BudgetAssumption
<1>1. PICK n \in 0..Len(w) : n = popped(w)
  BY Popped
<1>2. \A i \in 1..n : ~(w[i] < kCandidateWindow)
  BY <1>1, Popped DEF Young
<1>3. n < Len(w) => w[n + 1] < kCandidateWindow
  BY <1>1, Popped DEF Young
<1>4. /\ expire(w) \in Seq(Ages) /\ Len(expire(w)) = Len(w) - n
      /\ \A i \in 1..(Len(w) - n) : expire(w)[i] = w[i + n] /\ i + n \in 1..Len(w)
  <2>1. expire(w) = SubSeq(w, n + 1, Len(w)) /\ n \in Nat
    BY <1>0, <1>1 DEF expire
  <2>2. Len(SubSeq(w, n + 1, Len(w))) = Len(w) - n
    BY <1>0, <2>1
  <2>3. ASSUME NEW i \in 1..(Len(w) - n) PROVE SubSeq(w, n + 1, Len(w))[i] = w[i + n] /\ i + n \in 1..Len(w)
    BY <1>0, <2>1
  <2>4. SubSeq(w, n + 1, Len(w)) \in Seq(Ages)
    BY <1>0, <2>1
  <2> QED BY <2>1, <2>2, <2>3, <2>4
<1> DEFINE e == expire(w)
<1>h. e = expire(w)
  OBVIOUS
<1> HIDE DEF e
<1>5. Sorted(e)
  <2>1. ASSUME NEW i \in 1..Len(e), NEW j \in 1..Len(e), i <= j PROVE e[j] <= e[i]
    <3>1. e[i] = w[i + n] /\ e[j] = w[j + n] /\ i + n \in 1..Len(w) /\ j + n \in 1..Len(w) /\ i + n <= j + n
      BY <1>0, <1>4, <1>h, <2>1
    <3> QED BY <3>1 DEF Sorted
  <2> QED BY <2>1 DEF Sorted
<1>6. ASSUME NEW a \in Ages PROVE Cardinality(YoungIn(e, a)) = Cardinality(YoungIn(w, a))
  <2>1. \A s \in YoungIn(w, a) : s \in Nat /\ n <= s /\ ~(s \in 1..n)
    <3>1. ASSUME NEW s \in YoungIn(w, a) PROVE s \in Nat /\ n <= s /\ ~(s \in 1..n)
      <4>1. s \in 1..Len(w) /\ w[s] < a /\ w[s] \in Ages /\ a <= kCandidateWindow
        BY <1>0 DEF YoungIn, Ages
      <4>2. w[s] < kCandidateWindow
        BY <1>0, <4>1 DEF Ages
      <4>3. ~(s \in 1..n)
        BY <1>2, <4>2
      <4> QED BY <1>0, <4>1, <4>3
    <3> QED BY <3>1
  <2>2. YoungIn(e, a) = {i \in Nat : i + n \in YoungIn(w, a)}
    <3>1. ASSUME NEW i \in YoungIn(e, a) PROVE i \in Nat /\ i + n \in YoungIn(w, a)
      BY <1>0, <1>4, <1>h DEF YoungIn
    <3>2. ASSUME NEW i \in Nat, i + n \in YoungIn(w, a) PROVE i \in YoungIn(e, a)
      <4>1. i + n \in 1..Len(w) /\ w[i + n] < a /\ ~(i + n \in 1..n)
        BY <2>1, <3>2 DEF YoungIn
      <4>2. i \in 1..(Len(w) - n)
        BY <1>0, <4>1
      <4> QED BY <1>4, <1>h, <4>1, <4>2 DEF YoungIn
    <3> QED BY <3>1, <3>2
  <2>3. IsFiniteSet(YoungIn(w, a)) /\ YoungIn(w, a) \in SUBSET Nat
    <3>1. a \in Int
      BY <1>0 DEF Ages
    <3>2. IsFiniteSet(YoungIn(w, a))
      BY <1>0, <3>1, YoungCount
    <3>3. YoungIn(w, a) \in SUBSET Nat
      <4>1. \A s \in YoungIn(w, a) : s \in Nat
        BY <2>1
      <4> QED BY <4>1
    <3> QED BY <3>2, <3>3
  <2>4. n \in Nat /\ \A s \in YoungIn(w, a) : n <= s
    BY <1>0, <2>1
  <2>5. Cardinality({i \in Nat : i + n \in YoungIn(w, a)}) = Cardinality(YoungIn(w, a))
    BY <2>3, <2>4, ShiftedCount
  <2> QED BY <2>2, <2>5
<1>7. Len(e) = Cardinality(YoungIn(e, kCandidateWindow))
  <2>1. ASSUME NEW i \in 1..Len(e) PROVE e[i] < kCandidateWindow
    <3>1. e[i] = w[i + n] /\ i + n \in 1..Len(w) /\ n + 1 \in 1..Len(w) /\ n + 1 <= i + n /\ n < Len(w)
      BY <1>0, <1>4, <1>h
    <3>2. w[i + n] <= w[n + 1] /\ w[i + n] \in Ages /\ w[n + 1] \in Ages
      BY <1>0, <3>1 DEF Sorted
    <3> QED BY <1>0, <1>3, <3>1, <3>2 DEF Ages
  <2>2. YoungIn(e, kCandidateWindow) = 1..Len(e)
    BY <2>1 DEF YoungIn
  <2>3. Len(e) \in Nat
    BY <1>4, <1>h
  <2>4. Cardinality(1..Len(e)) = Len(e)
    <3> DEFINE n0 == Len(e)
    <3>1. n0 \in Nat
      BY <2>3
    <3> HIDE DEF n0
    <3>2. 1 \in Int /\ n0 \in Int
      BY <3>1
    <3>3. Cardinality(1..n0) = IF 1 > n0 THEN 0 ELSE n0 - 1 + 1
      BY <3>2, FS_Interval
    <3>4. Cardinality(1..n0) = n0
      BY <3>1, <3>3
    <3> QED BY <3>4 DEF n0
  <2> QED BY <2>2, <2>4
<1>8. kCandidateWindow \in Ages
  BY <1>0 DEF Ages
<1> QED BY <1>4, <1>5, <1>6, <1>7, <1>8, <1>h

LEMMA Counted ==
    ASSUME NEW w, WindowOK(w)
    PROVE  /\ WindowOK(Append(w, 0))
           /\ \A a \in Ages : Cardinality(YoungIn(Append(w, 0), a)) =
                              Cardinality(YoungIn(w, a)) + (IF a = 0 THEN 0 ELSE 1)
<1> USE DEF WindowOK
<1> DEFINE v == Append(w, 0)
<1>0. w \in Seq(Ages) /\ Len(w) \in Nat /\ 0 \in Ages /\ kCandidateWindow \in Nat
  BY BudgetAssumption DEF Ages
<1>1. v \in Seq(Ages) /\ Len(v) = Len(w) + 1 /\ v[Len(w) + 1] = 0 /\ \A i \in 1..Len(w) : v[i] = w[i]
  BY <1>0
<1>h. v = Append(w, 0)
  OBVIOUS
<1> HIDE DEF v
<1>2. Sorted(v)
  <2>1. ASSUME NEW i \in 1..Len(v), NEW j \in 1..Len(v), i <= j PROVE v[j] <= v[i]
    <3>1. CASE j = Len(v)
      <4>1. v[j] = 0 /\ v[i] \in Ages
        BY <1>1, <3>1
      <4> QED BY <1>0, <4>1 DEF Ages
    <3>2. CASE j # Len(v)
      <4>1. i \in 1..Len(w) /\ j \in 1..Len(w)
        BY <1>0, <1>1, <2>1, <3>2
      <4> QED BY <1>1, <2>1, <4>1 DEF Sorted
    <3> QED BY <3>1, <3>2
  <2> QED BY <2>1 DEF Sorted
<1>3. ASSUME NEW a \in Ages
      PROVE  Cardinality(YoungIn(v, a)) = Cardinality(YoungIn(w, a)) + (IF a = 0 THEN 0 ELSE 1)
  <2>1. IsFiniteSet(YoungIn(w, a)) /\ Cardinality(YoungIn(w, a)) \in Nat /\ a \in Nat
    BY <1>0, YoungCount DEF Ages
  <2>2. CASE a = 0
    <3>1. YoungIn(v, a) = {} /\ YoungIn(w, a) = {}
      BY <1>0, <1>1, <2>2 DEF YoungIn, Ages
    <3>2. Cardinality(YoungIn(v, a)) = 0 /\ Cardinality(YoungIn(w, a)) = 0
      BY <3>1, FS_EmptySet
    <3> QED BY <2>2, <3>2
  <2>3. CASE a # 0
    <3>1. YoungIn(v, a) = YoungIn(w, a) \cup {Len(w) + 1}
      <4>1. 0 < a
        BY <2>1, <2>3
      <4> QED BY <1>0, <1>1, <4>1 DEF YoungIn
    <3>2. Len(w) + 1 \notin YoungIn(w, a)
      BY <1>0 DEF YoungIn
    <3> QED BY <2>1, <2>3, <3>1, <3>2, FS_AddElement
  <2> QED BY <2>2, <2>3
<1> QED BY <1>1, <1>2, <1>3, <1>h

LEMMA Aged ==
    ASSUME NEW w, WindowOK(w)
    PROVE  /\ WindowOK(Older(w))
           /\ YoungIn(Older(w), 0) = {}
           /\ \A a \in Ages : a # 0 => YoungIn(Older(w), a) = YoungIn(w, a - 1)
<1> USE DEF WindowOK
<1> DEFINE v == Older(w)
<1>0. w \in Seq(Ages) /\ Len(w) \in Nat /\ DOMAIN w = 1..Len(w) /\ kCandidateWindow \in Nat
  BY BudgetAssumption
<1>1. v = [i \in 1..Len(w) |-> IF w[i] < kCandidateWindow THEN w[i] + 1 ELSE w[i]]
  BY <1>0 DEF Older
<1>2. \A i \in 1..Len(w) : w[i] \in Ages /\ (IF w[i] < kCandidateWindow THEN w[i] + 1 ELSE w[i]) \in Ages
  BY <1>0 DEF Ages
<1>3. v \in Seq(Ages) /\ Len(v) = Len(w) /\ \A i \in 1..Len(w) : v[i] = IF w[i] < kCandidateWindow THEN w[i] + 1 ELSE w[i]
  BY <1>0, <1>1, <1>2
<1>h. v = Older(w)
  OBVIOUS
<1> HIDE DEF v
<1>4. Sorted(v)
  <2>1. ASSUME NEW i \in 1..Len(v), NEW j \in 1..Len(v), i <= j PROVE v[j] <= v[i]
    <3>1. w[j] <= w[i] /\ w[i] \in Ages /\ w[j] \in Ages
      BY <1>2, <1>3, <2>1 DEF Sorted
    <3> QED BY <1>0, <1>3, <3>1 DEF Ages
  <2> QED BY <2>1 DEF Sorted
<1>5. YoungIn(v, 0) = {}
  BY <1>0, <1>2, <1>3 DEF YoungIn, Ages
<1>6. ASSUME NEW a \in Ages, a # 0 PROVE YoungIn(v, a) = YoungIn(w, a - 1)
  BY <1>0, <1>2, <1>3, <1>6 DEF YoungIn, Ages
<1> QED BY <1>3, <1>4, <1>5, <1>6, <1>h

(***************************************************************************)
(* The candidates that went on                                             *)
(***************************************************************************)

PassedType ==
    [owner : Connections \cup {"closed"}, kind : {"direct", "emergency"}, age : 0..(kCandidateWindow - 1)]

InOrder(p) == \A i, j \in 1..Len(p) : i <= j => p[j].age <= p[i].age

PassedOK(p) == p \in Seq(PassedType) /\ InOrder(p)

\* Those of some owners and kinds that are younger than a.
OfClass(r, K) == <<r.owner, r.kind>> \in K

Members(p, K, a) == {i \in 1..Len(p) : OfClass(p[i], K) /\ p[i].age < a}

LEMMA MembersCount ==
    ASSUME NEW p, p \in Seq(PassedType), NEW K, NEW a
    PROVE  IsFiniteSet(Members(p, K, a)) /\ Cardinality(Members(p, K, a)) \in Nat
<1>1. Len(p) \in Nat
  OBVIOUS
<1>2. IsFiniteSet(1..Len(p))
  BY <1>1, FS_Interval
<1> QED BY <1>2, FS_Subset, FS_CardinalityType DEF Members

LEMMA WentOn ==
    ASSUME NEW p, PassedOK(p), NEW r \in PassedType, r.age = 0, NEW K
    PROVE  /\ PassedOK(Append(p, r))
           /\ \A a \in Ages : Cardinality(Members(Append(p, r), K, a)) =
                Cardinality(Members(p, K, a)) + (IF a # 0 /\ OfClass(r, K) THEN 1 ELSE 0)
<1> DEFINE q == Append(p, r)
<1>0. p \in Seq(PassedType) /\ InOrder(p) /\ Len(p) \in Nat /\ kCandidateWindow \in Nat
  BY BudgetAssumption DEF PassedOK
<1>1. q \in Seq(PassedType) /\ Len(q) = Len(p) + 1 /\ q[Len(p) + 1] = r /\ \A i \in 1..Len(p) : q[i] = p[i]
  BY <1>0
<1>h. q = Append(p, r)
  OBVIOUS
<1> HIDE DEF q
<1>t. \A i \in 1..Len(p) : p[i].age \in Nat
  <2>1. ASSUME NEW i \in 1..Len(p) PROVE p[i].age \in Nat
    <3>1. p[i] \in PassedType
      BY <1>0
    <3> QED BY <1>0, <3>1 DEF PassedType
  <2> QED BY <2>1
<1>2. InOrder(q)
  <2>1. ASSUME NEW i \in 1..Len(q), NEW j \in 1..Len(q), i <= j PROVE q[j].age <= q[i].age
    <3>1. CASE j = Len(q)
      <4>1. CASE i = Len(q)
        BY <1>1, <3>1, <4>1
      <4>2. CASE i # Len(q)
        <5>1. i \in 1..Len(p)
          BY <1>0, <1>1, <4>2
        <5> QED BY <1>1, <1>t, <3>1, <5>1
      <4> QED BY <4>1, <4>2
    <3>2. CASE j # Len(q)
      <4>1. i \in 1..Len(p) /\ j \in 1..Len(p)
        BY <1>0, <1>1, <2>1, <3>2
      <4> QED BY <1>0, <1>1, <2>1, <4>1 DEF InOrder
    <3> QED BY <3>1, <3>2
  <2> QED BY <2>1 DEF InOrder
<1>3. ASSUME NEW a \in Ages
      PROVE  Cardinality(Members(q, K, a)) =
                Cardinality(Members(p, K, a)) + (IF a # 0 /\ OfClass(r, K) THEN 1 ELSE 0)
  <2>1. IsFiniteSet(Members(p, K, a)) /\ Cardinality(Members(p, K, a)) \in Nat /\ a \in Nat
    BY <1>0, MembersCount DEF Ages
  <2>2. CASE a # 0 /\ OfClass(r, K)
    <3>0. r.age < a
      BY <2>1, <2>2
    <3>1. Members(q, K, a) = Members(p, K, a) \cup {Len(p) + 1}
      BY <1>0, <1>1, <2>2, <3>0 DEF Members
    <3>2. Len(p) + 1 \notin Members(p, K, a)
      <4>1. Len(p) \in Nat
        BY <1>0
      <4> QED BY <4>1 DEF Members
    <3>3. Cardinality(Members(q, K, a)) = Cardinality(Members(p, K, a)) + 1
      <4> DEFINE S == Members(p, K, a)
                 x == Len(p) + 1
      <4>1. IsFiniteSet(S) /\ x \notin S
        BY <2>1, <3>2
      <4> HIDE DEF S, x
      <4>2. Cardinality(S \cup {x}) = Cardinality(S) + 1
        BY <4>1, FS_AddElement
      <4> QED BY <3>1, <4>2 DEF S, x
    <3> QED BY <2>2, <3>3
  <2>3. CASE ~(a # 0 /\ OfClass(r, K))
    <3>1. ~(r.age < a /\ OfClass(r, K))
      BY <2>1, <2>3
    <3>2. Members(q, K, a) = Members(p, K, a)
      BY <1>0, <1>1, <3>1 DEF Members
    <3> QED BY <2>1, <2>3, <3>2
  <2> QED BY <2>2, <2>3
<1> QED BY <1>1, <1>2, <1>3, <1>h DEF PassedOK

\* One step of the clock.
OneOlder(p) == [i \in DOMAIN p |-> [p[i] EXCEPT !.age = p[i].age + 1]]

LEMMA Forgotten ==
    ASSUME NEW p, PassedOK(p)
    PROVE  /\ PassedOK(Remembered(OneOlder(p)))
           /\ \A K : /\ Members(Remembered(OneOlder(p)), K, 0) = {}
                     /\ \A a \in Ages : a # 0 => Cardinality(Members(Remembered(OneOlder(p)), K, a)) =
                                                 Cardinality(Members(p, K, a - 1))
<1> DEFINE q == OneOlder(p)
           OlderType == [owner : Connections \cup {"closed"}, kind : {"direct", "emergency"}, age : 0..kCandidateWindow]
<1>0. p \in Seq(PassedType) /\ InOrder(p) /\ Len(p) \in Nat /\ DOMAIN p = 1..Len(p) /\ kCandidateWindow \in Nat \ {0}
  BY BudgetAssumption DEF PassedOK
<1>1. \A i \in 1..Len(p) : /\ [p[i] EXCEPT !.age = p[i].age + 1] \in OlderType
                           /\ [p[i] EXCEPT !.age = p[i].age + 1].age = p[i].age + 1
                           /\ [p[i] EXCEPT !.age = p[i].age + 1].owner = p[i].owner
                           /\ [p[i] EXCEPT !.age = p[i].age + 1].kind = p[i].kind
                           /\ p[i].age \in 0..(kCandidateWindow - 1)
  <2>1. ASSUME NEW i \in 1..Len(p)
        PROVE /\ [p[i] EXCEPT !.age = p[i].age + 1] \in OlderType
              /\ [p[i] EXCEPT !.age = p[i].age + 1].age = p[i].age + 1
              /\ [p[i] EXCEPT !.age = p[i].age + 1].owner = p[i].owner
              /\ [p[i] EXCEPT !.age = p[i].age + 1].kind = p[i].kind
              /\ p[i].age \in 0..(kCandidateWindow - 1)
    <3>1. p[i] \in PassedType
      BY <1>0
    <3> QED BY <1>0, <3>1 DEF PassedType
  <2> QED BY <2>1
<1>2. /\ q \in Seq(OlderType) /\ Len(q) = Len(p)
      /\ \A i \in 1..Len(p) : q[i].age = p[i].age + 1 /\ q[i].owner = p[i].owner /\ q[i].kind = p[i].kind
  <2>1. q = [i \in 1..Len(p) |-> [p[i] EXCEPT !.age = p[i].age + 1]]
    BY <1>0 DEF OneOlder
  <2>2. q \in Seq(OlderType) /\ Len(q) = Len(p) /\ \A i \in 1..Len(p) : q[i] = [p[i] EXCEPT !.age = p[i].age + 1]
    BY <1>0, <1>1, <2>1
  <2> QED BY <1>1, <2>2
<1>h. q = OneOlder(p)
  OBVIOUS
<1> HIDE DEF q, OlderType
<1>a. \A i \in 1..Len(p) : p[i].age \in 0..(kCandidateWindow - 1) /\ p[i].age \in Nat
  <2>1. ASSUME NEW i \in 1..Len(p) PROVE p[i].age \in 0..(kCandidateWindow - 1) /\ p[i].age \in Nat
    <3>1. p[i] \in PassedType
      BY <1>0
    <3> QED BY <1>0, <3>1 DEF PassedType
  <2> QED BY <2>1
<1>l. Len(q) = Len(p)
  BY <1>2
<1>3. \E n \in 0..Len(q) : (\A i \in 1..n : ~Recent(q[i])) /\ (n < Len(q) => Recent(q[n + 1]))
  <2> DEFINE S == {i \in 1..Len(q) : Recent(q[i])}
  <2>0. Len(q) \in Nat
    BY <1>0, <1>2
  <2>1. CASE S = {}
    <3>1. (\A i \in 1..Len(q) : ~Recent(q[i])) /\ Len(q) \in 0..Len(q)
      BY <2>0, <2>1
    <3> QED BY <2>0, <3>1
  <2>2. CASE S # {}
    <3>1. S \in SUBSET Nat
      BY <2>0
    <3>2. PICK n \in S : \A m \in S : n <= m
      BY <2>2, <3>1, LeastNumber
    <3>3. n \in 1..Len(q) /\ Recent(q[n]) /\ n - 1 \in 0..Len(q) /\ (n - 1) + 1 = n
      BY <2>0, <3>2
    <3>4. \A i \in 1..(n - 1) : ~Recent(q[i])
      BY <2>0, <3>2, <3>3
    <3> QED BY <3>3, <3>4
  <2> QED BY <2>1, <2>2
<1> DEFINE old == CHOOSE n \in 0..Len(q) : (\A i \in 1..n : ~Recent(q[i])) /\ (n < Len(q) => Recent(q[n + 1]))
<1>4. old \in 0..Len(q) /\ (\A i \in 1..old : ~Recent(q[i])) /\ (old < Len(q) => Recent(q[old + 1]))
  BY <1>3
<1>5. Remembered(q) = SubSeq(q, old + 1, Len(q))
  BY DEF Remembered
<1> HIDE DEF old
<1>6. PICK n \in 0..Len(q) : n = old
  BY <1>4
<1>7. (\A i \in 1..n : ~(q[i].age < kCandidateWindow)) /\ (n < Len(q) => q[n + 1].age < kCandidateWindow)
  BY <1>4, <1>6 DEF Recent
<1> DEFINE e == Remembered(q)
<1>8. /\ e \in Seq(OlderType) /\ Len(e) = Len(p) - n /\ n \in Nat /\ n <= Len(p)
      /\ \A i \in 1..(Len(p) - n) : e[i] = q[i + n] /\ i + n \in 1..Len(p)
  <2>1. e = SubSeq(q, n + 1, Len(q)) /\ n \in Nat /\ q \in Seq(OlderType) /\ Len(q) \in Nat /\ n <= Len(q) /\ Len(q) = Len(p)
    BY <1>0, <1>2, <1>5, <1>6
  <2> HIDE DEF e
  <2>2. Len(SubSeq(q, n + 1, Len(q))) = Len(q) - n
    BY <2>1
  <2>3. ASSUME NEW i \in 1..(Len(q) - n) PROVE SubSeq(q, n + 1, Len(q))[i] = q[i + n] /\ i + n \in 1..Len(q)
    BY <2>1
  <2>4. SubSeq(q, n + 1, Len(q)) \in Seq(OlderType)
    BY <2>1
  <2> QED BY <2>1, <2>2, <2>3, <2>4
<1>g. e = Remembered(q)
  OBVIOUS
<1> HIDE DEF e
<1>9. ASSUME NEW i \in 1..Len(e)
      PROVE  /\ i + n \in 1..Len(p) /\ e[i].age = p[i + n].age + 1 /\ e[i].owner = p[i + n].owner /\ e[i].kind = p[i + n].kind
             /\ p[i + n].age \in 0..(kCandidateWindow - 1) /\ e[i].age < kCandidateWindow /\ e[i] \in PassedType
  <2>1. i \in 1..(Len(p) - n) /\ e[i] = q[i + n] /\ i + n \in 1..Len(p)
    BY <1>8
  <2>2. e[i].age = p[i + n].age + 1 /\ e[i].owner = p[i + n].owner /\ e[i].kind = p[i + n].kind
    BY <1>2, <2>1
  <2>3. p[i + n].age \in 0..(kCandidateWindow - 1)
    BY <1>1, <2>1
  <2>4. e[i].age < kCandidateWindow
    <3>1. n + 1 \in 1..Len(p) /\ n + 1 <= i + n /\ n < Len(q)
      <4>1. n \in Nat /\ Len(p) \in Nat /\ i \in 1..(Len(p) - n)
        BY <1>0, <1>8, <2>1
      <4> QED BY <1>l, <4>1
    <3>2. p[i + n].age <= p[n + 1].age
      BY <1>0, <2>1, <3>1 DEF InOrder
    <3>3. q[n + 1].age = p[n + 1].age + 1 /\ q[n + 1].age < kCandidateWindow /\ p[n + 1].age \in 0..(kCandidateWindow - 1)
      BY <1>1, <1>2, <1>7, <3>1
    <3> QED BY <1>0, <2>2, <2>3, <3>2, <3>3
  <2>5. e[i] \in OlderType
    BY <1>8
  <2>6. e[i] \in PassedType
    BY <1>0, <2>2, <2>3, <2>4, <2>5 DEF PassedType, OlderType
  <2> QED BY <2>1, <2>2, <2>3, <2>4, <2>6
<1>10. e \in Seq(PassedType)
  <2>1. e \in [1..Len(e) -> PassedType] /\ Len(e) \in Nat
    <3>1. e \in [1..Len(e) -> OlderType] /\ Len(e) \in Nat
      BY <1>8
    <3> QED BY <1>9, <3>1
  <2> QED BY <2>1
<1>11. InOrder(e)
  <2>1. ASSUME NEW i \in 1..Len(e), NEW j \in 1..Len(e), i <= j PROVE e[j].age <= e[i].age
    <3>1. i + n \in 1..Len(p) /\ j + n \in 1..Len(p) /\ i + n <= j + n
      BY <1>8, <1>9, <2>1
    <3>2. p[j + n].age <= p[i + n].age
      BY <1>0, <3>1 DEF InOrder
    <3>3. e[i].age = p[i + n].age + 1 /\ e[j].age = p[j + n].age + 1 /\ p[i + n].age \in Int /\ p[j + n].age \in Int
      BY <1>9
    <3> QED BY <3>2, <3>3
  <2> QED BY <2>1 DEF InOrder
<1>12. ASSUME NEW K PROVE Members(e, K, 0) = {}
  BY <1>9 DEF Members
<1>13. ASSUME NEW K, NEW a \in Ages, a # 0 PROVE Cardinality(Members(e, K, a)) = Cardinality(Members(p, K, a - 1))
  <2>0. a \in Nat /\ a <= kCandidateWindow
    BY <1>0 DEF Ages
  <2>1. ASSUME NEW s \in Members(p, K, a - 1) PROVE s \in 1..Len(p) /\ s \in Nat /\ n <= s /\ ~(s \in 1..n)
    <3>1. s \in 1..Len(p) /\ p[s].age < a - 1 /\ p[s].age \in Nat
      BY <1>a DEF Members
    <3>2. q[s].age < kCandidateWindow
      BY <1>0, <1>2, <2>0, <3>1
    <3>3. ~(s \in 1..n)
      BY <1>7, <3>2
    <3> QED BY <1>0, <1>8, <3>1, <3>3
  <2>2. Members(e, K, a) = {i \in Nat : i + n \in Members(p, K, a - 1)}
    <3>1. ASSUME NEW i \in Members(e, K, a) PROVE i \in Nat /\ i + n \in Members(p, K, a - 1)
      <4>1. i \in 1..Len(e) /\ OfClass(e[i], K) /\ e[i].age < a
        BY DEF Members
      <4>2. /\ i + n \in 1..Len(p) /\ e[i].age = p[i + n].age + 1 /\ e[i].owner = p[i + n].owner /\ e[i].kind = p[i + n].kind
            /\ p[i + n].age \in Int
        BY <1>9, <4>1
      <4>3. p[i + n].age < a - 1
        BY <2>0, <4>1, <4>2
      <4>4. OfClass(p[i + n], K)
        BY <4>1, <4>2 DEF OfClass
      <4> QED BY <1>8, <4>1, <4>2, <4>3, <4>4 DEF Members
    <3>2. ASSUME NEW i \in Nat, i + n \in Members(p, K, a - 1) PROVE i \in Members(e, K, a)
      <4>1. i + n \in 1..Len(p) /\ p[i + n].age < a - 1 /\ OfClass(p[i + n], K)
        BY <3>2 DEF Members
      <4>2. i \in 1..Len(e)
        <5>1. ~(i + n \in 1..n)
          BY <2>1, <3>2
        <5> QED BY <1>0, <1>8, <4>1, <5>1
      <4>3. e[i].age = p[i + n].age + 1 /\ e[i].owner = p[i + n].owner /\ e[i].kind = p[i + n].kind /\ p[i + n].age \in Int
        BY <1>9, <4>2
      <4>4. e[i].age < a
        BY <2>0, <4>1, <4>3
      <4>5. OfClass(e[i], K)
        BY <4>1, <4>3 DEF OfClass
      <4> QED BY <4>2, <4>4, <4>5 DEF Members
    <3> QED BY <3>1, <3>2
  <2>3. IsFiniteSet(Members(p, K, a - 1)) /\ Members(p, K, a - 1) \in SUBSET Nat
    BY <1>0, <2>1, MembersCount
  <2>4. n \in Nat /\ \A s \in Members(p, K, a - 1) : n <= s
    BY <1>8, <2>1
  <2>5. Cardinality({i \in Nat : i + n \in Members(p, K, a - 1)}) = Cardinality(Members(p, K, a - 1))
    BY <2>3, <2>4, ShiftedCount
  <2> QED BY <2>2, <2>5
<1> QED BY <1>10, <1>11, <1>12, <1>13, <1>g, <1>h DEF PassedOK

(***************************************************************************)
(* A window and the candidates that it counts                              *)
(***************************************************************************)

Matches(win, p, K) == \A a \in Ages : Cardinality(YoungIn(win, a)) = Cardinality(Members(p, K, a))

Bounded(p, K, n) == Cardinality(Members(p, K, kCandidateWindow)) <= n

\* A window holds exactly the candidates that it is there for, if it has a limit.
KeptIn(win, p, K, n) == WindowOK(win) /\ (n # 0 => Matches(win, p, K) /\ Bounded(p, K, n))

LEMMA KeptUnlimited ==
    ASSUME NEW win, WindowOK(win), NEW p, NEW K
    PROVE  KeptIn(win, p, K, 0)
BY DEF KeptIn

LEMMA KeptWindow == ASSUME NEW win, NEW p, NEW K, NEW n, KeptIn(win, p, K, n) PROVE WindowOK(win)
BY DEF KeptIn

LEMMA KeptExpired ==
    ASSUME NEW win, NEW p, NEW K, NEW n, KeptIn(win, p, K, n)
    PROVE  KeptIn(expire(win), p, K, n)
<1>1. WindowOK(win)
  BY DEF KeptIn
<1>2. WindowOK(expire(win)) /\ \A a \in Ages : Cardinality(YoungIn(expire(win), a)) = Cardinality(YoungIn(win, a))
  BY <1>1, Expired
<1>3. Matches(win, p, K) => Matches(expire(win), p, K)
  BY <1>2 DEF Matches
<1> QED BY <1>2, <1>3 DEF KeptIn

LEMMA WindowAges == kCandidateWindow \in Ages /\ kCandidateWindow # 0 /\ kCandidateWindow \in Nat
BY BudgetAssumption DEF Ages

\* What a limited window holds within the last window are those candidates.
LEMMA KeptLength ==
    ASSUME NEW win, NEW p, NEW K, NEW n, KeptIn(win, p, K, n), n # 0
    PROVE  /\ Len(expire(win)) = Cardinality(Members(p, K, kCandidateWindow))
           /\ Cardinality(Members(p, K, kCandidateWindow)) <= n
<1>1. WindowOK(win) /\ Matches(win, p, K) /\ Bounded(p, K, n)
  BY DEF KeptIn
<1>2. Len(expire(win)) = Cardinality(YoungIn(win, kCandidateWindow))
  BY <1>1, Expired
<1>3. Cardinality(YoungIn(win, kCandidateWindow)) = Cardinality(Members(p, K, kCandidateWindow))
  BY <1>1, WindowAges DEF Matches
<1> QED BY <1>1, <1>2, <1>3 DEF Bounded

LEMMA KeptGranted ==
    ASSUME NEW win, NEW p, PassedOK(p), NEW K, NEW n \in Nat, KeptIn(win, p, K, n),
           NEW r \in PassedType, r.age = 0, OfClass(r, K),
           n # 0 => Len(expire(win)) < n
    PROVE  KeptIn(Append(expire(win), 0), Append(p, r), K, n)
<1> DEFINE e == expire(win)
           v == Append(e, 0)
           q == Append(p, r)
<1>0. WindowOK(e) /\ KeptIn(e, p, K, n)
  BY KeptExpired DEF KeptIn
<1>1. /\ WindowOK(v)
      /\ \A a \in Ages : Cardinality(YoungIn(v, a)) = Cardinality(YoungIn(e, a)) + (IF a = 0 THEN 0 ELSE 1)
  <2> HIDE DEF e
  <2> QED BY <1>0, Counted
<1>2. \A a \in Ages : Cardinality(Members(q, K, a)) = Cardinality(Members(p, K, a)) + (IF a # 0 /\ OfClass(r, K) THEN 1 ELSE 0)
  BY WentOn
<1>3. ASSUME n # 0 PROVE Matches(v, q, K) /\ Bounded(q, K, n)
  <2>1. Matches(e, p, K) /\ Len(e) = Cardinality(Members(p, K, kCandidateWindow)) /\ Len(e) < n
    BY <1>0, <1>3, KeptLength DEF KeptIn
  <2> HIDE DEF e, v, q
  <2>2. ASSUME NEW a \in Ages PROVE Cardinality(YoungIn(v, a)) = Cardinality(Members(q, K, a))
    <3>1. Cardinality(YoungIn(v, a)) = Cardinality(YoungIn(e, a)) + (IF a = 0 THEN 0 ELSE 1)
      BY <1>1
    <3>2. Cardinality(Members(q, K, a)) = Cardinality(Members(p, K, a)) + (IF a # 0 THEN 1 ELSE 0)
      BY <1>2
    <3>3. Cardinality(YoungIn(e, a)) = Cardinality(Members(p, K, a))
      BY <2>1 DEF Matches
    <3> QED BY <3>1, <3>2, <3>3
  <2>3. Cardinality(Members(q, K, kCandidateWindow)) = Len(e) + 1
    <3>1. Cardinality(Members(q, K, kCandidateWindow)) = Cardinality(Members(p, K, kCandidateWindow)) + 1
      BY <1>2, WindowAges
    <3> QED BY <2>1, <3>1
  <2>4. Len(e) \in Nat
    BY <1>0 DEF WindowOK
  <2> QED BY <2>1, <2>2, <2>3, <2>4 DEF Matches, Bounded
<1> QED BY <1>1, <1>3 DEF KeptIn

LEMMA KeptOther ==
    ASSUME NEW win, NEW p, PassedOK(p), NEW K, NEW n, KeptIn(win, p, K, n),
           NEW r \in PassedType, r.age = 0, ~OfClass(r, K)
    PROVE  KeptIn(win, Append(p, r), K, n)
<1> DEFINE q == Append(p, r)
<1>1. \A a \in Ages : Cardinality(Members(q, K, a)) = Cardinality(Members(p, K, a)) + (IF a # 0 /\ OfClass(r, K) THEN 1 ELSE 0)
  BY WentOn
<1>2. ASSUME NEW a \in Ages PROVE Cardinality(Members(q, K, a)) = Cardinality(Members(p, K, a))
  <2>1. Cardinality(Members(p, K, a)) \in Nat
    BY MembersCount DEF PassedOK
  <2>2. Cardinality(Members(q, K, a)) = Cardinality(Members(p, K, a)) + 0
    BY <1>1
  <2> QED BY <2>1, <2>2
<1> HIDE DEF q
<1>3. (Matches(win, p, K) => Matches(win, q, K)) /\ (Bounded(p, K, n) => Bounded(q, K, n))
  BY <1>2, WindowAges DEF Matches, Bounded
<1> QED BY <1>3 DEF KeptIn, q

LEMMA KeptOlder ==
    ASSUME NEW win, NEW p, PassedOK(p), NEW K, NEW n \in Nat, KeptIn(win, p, K, n)
    PROVE  KeptIn(Older(win), Remembered(OneOlder(p)), K, n)
<1> DEFINE v == Older(win)
           q == Remembered(OneOlder(p))
<1>0. WindowOK(win)
  BY DEF KeptIn
<1>1. WindowOK(v) /\ YoungIn(v, 0) = {} /\ \A a \in Ages : a # 0 => YoungIn(v, a) = YoungIn(win, a - 1)
  BY <1>0, Aged
<1>2. /\ Members(q, K, 0) = {}
      /\ \A a \in Ages : a # 0 => Cardinality(Members(q, K, a)) = Cardinality(Members(p, K, a - 1))
  BY Forgotten
<1> HIDE DEF v, q
<1>3. ASSUME n # 0 PROVE Matches(v, q, K) /\ Bounded(q, K, n)
  <2>1. Matches(win, p, K) /\ Bounded(p, K, n)
    BY <1>3 DEF KeptIn
  <2>2. ASSUME NEW a \in Ages PROVE Cardinality(YoungIn(v, a)) = Cardinality(Members(q, K, a))
    <3>1. CASE a = 0
      BY <1>1, <1>2, <3>1
    <3>2. CASE a # 0
      <4>1. a - 1 \in Ages
        BY <3>2, WindowAges DEF Ages
      <4>2. Cardinality(YoungIn(win, a - 1)) = Cardinality(Members(p, K, a - 1))
        BY <2>1, <4>1 DEF Matches
      <4> QED BY <1>1, <1>2, <3>2, <4>2
    <3> QED BY <3>1, <3>2
  <2>3. Cardinality(Members(q, K, kCandidateWindow)) <= n
    <3>1. Cardinality(Members(q, K, kCandidateWindow)) = Cardinality(Members(p, K, kCandidateWindow - 1))
      BY <1>2, WindowAges
    <3>2. IsFiniteSet(Members(p, K, kCandidateWindow)) /\ IsFiniteSet(Members(p, K, kCandidateWindow - 1))
      BY MembersCount DEF PassedOK
    <3>3. Members(p, K, kCandidateWindow - 1) \subseteq Members(p, K, kCandidateWindow)
      <4>1. ASSUME NEW i \in 1..Len(p), p[i].age < kCandidateWindow - 1 PROVE p[i].age < kCandidateWindow
        <5>1. p[i] \in PassedType
          BY DEF PassedOK
        <5> QED BY <4>1, <5>1, WindowAges DEF PassedType
      <4> QED BY <4>1 DEF Members
    <3>4. Cardinality(Members(p, K, kCandidateWindow - 1)) <= Cardinality(Members(p, K, kCandidateWindow))
      BY <3>2, <3>3, FS_Subset
    <3>5. Cardinality(Members(p, K, kCandidateWindow)) \in Nat /\ Cardinality(Members(p, K, kCandidateWindow - 1)) \in Nat
      BY MembersCount DEF PassedOK
    <3> QED BY <2>1, <3>1, <3>4, <3>5 DEF Bounded
  <2> QED BY <2>2, <2>3 DEF Matches, Bounded
<1> QED BY <1>1, <1>3 DEF KeptIn, v, q

\* cancelOwner leaves the candidates of a connection without an owner.
Disowned(p, o) == [i \in DOMAIN p |-> IF p[i].owner = o THEN [p[i] EXCEPT !.owner = "closed"] ELSE p[i]]

Every(kind) == (Connections \cup {"closed"}) \X {kind}
Own(o, kind) == {<<o, kind>>}

LEMMA Classes ==
    ASSUME NEW r \in PassedType, NEW o, NEW kind
    PROVE  /\ OfClass(r, Every(kind)) <=> r.kind = kind
           /\ OfClass(r, Own(o, kind)) <=> r.kind = kind /\ r.owner = o
BY DEF OfClass, Every, Own, PassedType

LEMMA DisownedFields ==
    ASSUME NEW p, PassedOK(p), NEW o
    PROVE  /\ PassedOK(Disowned(p, o)) /\ Len(Disowned(p, o)) = Len(p)
           /\ \A i \in 1..Len(p) : /\ Disowned(p, o)[i].kind = p[i].kind /\ Disowned(p, o)[i].age = p[i].age
                                   /\ Disowned(p, o)[i].owner = IF p[i].owner = o THEN "closed" ELSE p[i].owner
<1> DEFINE q == Disowned(p, o)
<1>0. p \in Seq(PassedType) /\ InOrder(p) /\ DOMAIN p = 1..Len(p) /\ Len(p) \in Nat
  BY DEF PassedOK
<1>1. q = [i \in 1..Len(p) |-> IF p[i].owner = o THEN [p[i] EXCEPT !.owner = "closed"] ELSE p[i]]
  BY <1>0 DEF Disowned
<1>2. ASSUME NEW i \in 1..Len(p)
      PROVE  /\ (IF p[i].owner = o THEN [p[i] EXCEPT !.owner = "closed"] ELSE p[i]) \in PassedType
             /\ (IF p[i].owner = o THEN [p[i] EXCEPT !.owner = "closed"] ELSE p[i]).kind = p[i].kind
             /\ (IF p[i].owner = o THEN [p[i] EXCEPT !.owner = "closed"] ELSE p[i]).age = p[i].age
             /\ (IF p[i].owner = o THEN [p[i] EXCEPT !.owner = "closed"] ELSE p[i]).owner
                  = IF p[i].owner = o THEN "closed" ELSE p[i].owner
  <2>1. p[i] \in PassedType
    BY <1>0
  <2> QED BY <2>1 DEF PassedType
<1>3. /\ q \in Seq(PassedType) /\ Len(q) = Len(p)
      /\ \A i \in 1..Len(p) : q[i] = IF p[i].owner = o THEN [p[i] EXCEPT !.owner = "closed"] ELSE p[i]
  <2>1. q \in [1..Len(p) -> PassedType]
    BY <1>1, <1>2
  <2> QED BY <1>0, <1>1, <2>1
<1> HIDE DEF q
<1>4. \A i \in 1..Len(p) : /\ q[i].kind = p[i].kind /\ q[i].age = p[i].age
                           /\ q[i].owner = IF p[i].owner = o THEN "closed" ELSE p[i].owner
  BY <1>2, <1>3
<1>5. InOrder(q)
  BY <1>0, <1>3, <1>4 DEF InOrder
<1> QED BY <1>3, <1>4, <1>5 DEF PassedOK, q

\* Other connections, and all of them together, keep their candidates.
LEMMA KeptDisowned ==
    ASSUME NEW win, NEW p, PassedOK(p), NEW n, NEW kind, NEW o \in Connections,
           NEW K, K = Every(kind) \/ \E x \in Connections \ {o} : K = Own(x, kind),
           KeptIn(win, p, K, n)
    PROVE  KeptIn(win, Disowned(p, o), K, n)
<1> DEFINE q == Disowned(p, o)
<1>1. /\ PassedOK(q) /\ Len(q) = Len(p)
      /\ \A i \in 1..Len(p) : /\ q[i].kind = p[i].kind /\ q[i].age = p[i].age
                              /\ q[i].owner = IF p[i].owner = o THEN "closed" ELSE p[i].owner
  BY DisownedFields
<1> HIDE DEF q
<1>2. ASSUME NEW i \in 1..Len(p) PROVE OfClass(q[i], K) <=> OfClass(p[i], K)
  <2>1. p[i] \in PassedType /\ q[i] \in PassedType
    BY <1>1 DEF PassedOK
  <2>2. CASE K = Every(kind)
    <3>1. (OfClass(q[i], K) <=> q[i].kind = kind) /\ (OfClass(p[i], K) <=> p[i].kind = kind)
      BY <2>1, <2>2, Classes
    <3> QED BY <1>1, <3>1
  <2>3. ASSUME NEW x \in Connections \ {o}, K = Own(x, kind) PROVE OfClass(q[i], K) <=> OfClass(p[i], K)
    <3>1. (OfClass(q[i], K) <=> q[i].kind = kind /\ q[i].owner = x) /\ (OfClass(p[i], K) <=> p[i].kind = kind /\ p[i].owner = x)
      BY <2>1, <2>3, Classes
    <3>2. x # o /\ x # "closed"
      BY BudgetAssumption
    <3> QED BY <1>1, <3>1, <3>2
  <2> QED BY <2>2, <2>3
<1>3. ASSUME NEW a PROVE Members(q, K, a) = Members(p, K, a)
  BY <1>1, <1>2 DEF Members
<1> QED BY <1>3 DEF KeptIn, Matches, Bounded, q

\* The connection itself begins anew.
LEMMA KeptAnew ==
    ASSUME NEW p, PassedOK(p), NEW o \in Connections, NEW kind, NEW n \in Nat
    PROVE  KeptIn(<<>>, Disowned(p, o), Own(o, kind), n)
<1> DEFINE q == Disowned(p, o)
<1>1. /\ PassedOK(q) /\ Len(q) = Len(p)
      /\ \A i \in 1..Len(p) : q[i].owner = IF p[i].owner = o THEN "closed" ELSE p[i].owner
  BY DisownedFields
<1> HIDE DEF q
<1>2. ASSUME NEW i \in 1..Len(q) PROVE ~OfClass(q[i], Own(o, kind))
  <2>1. q[i] \in PassedType /\ q[i].owner # o
    BY <1>1, BudgetAssumption DEF PassedOK
  <2> QED BY <2>1, Classes
<1>3. ASSUME NEW a PROVE Members(q, Own(o, kind), a) = {} /\ YoungIn(<<>>, a) = {}
  BY <1>2 DEF Members, YoungIn
<1>4. WindowOK(<<>>)
  BY DEF WindowOK, Sorted
<1>5. Bounded(q, Own(o, kind), n)
  <2>1. Members(q, Own(o, kind), kCandidateWindow) = {} /\ Cardinality({}) = 0
    BY <1>3, FS_EmptySet
  <2>2. Cardinality(Members(q, Own(o, kind), kCandidateWindow)) = 0
    BY <2>1
  <2> QED BY <2>2 DEF Bounded
<1> QED BY <1>3, <1>4, <1>5 DEF KeptIn, Matches, q

(***************************************************************************)
(* The inductive invariant                                                 *)
(***************************************************************************)

LimitsType == [own : Nat, all : Nat, emergency : Nat]

WindowsType ==
    [own : [Connections -> Seq(Ages)], all : Seq(Ages),
     ownEmergency : [Connections -> Seq(Ages)], allEmergency : Seq(Ages)]

OneEmergency == IF limits.emergency = 0 THEN 0 ELSE 1

\* Every window holds what it is there for.
Budgeted(w, p) ==
    /\ PassedOK(p)
    /\ KeptIn(w.all, p, Every("direct"), limits.all)
    /\ KeptIn(w.allEmergency, p, Every("emergency"), limits.emergency)
    /\ \A o \in Connections : /\ KeptIn(w.own[o], p, Own(o, "direct"), limits.own)
                              /\ KeptIn(w.ownEmergency[o], p, Own(o, "emergency"), OneEmergency)

BudgetInv == limits \in LimitsType /\ windows \in WindowsType /\ Budgeted(windows, passed)

LEMMA WindowTypes ==
    ASSUME NEW w, NEW p, Budgeted(w, p), NEW o \in Connections
    PROVE  w.own[o] \in Seq(Ages) /\ w.all \in Seq(Ages) /\ w.ownEmergency[o] \in Seq(Ages) /\ w.allEmergency \in Seq(Ages)
BY DEF Budgeted, KeptIn, WindowOK

WithDirect(w, o, x, y) == [w EXCEPT !.own[o] = x, !.all = y]
WithEmergency(w, o, x, y) == [w EXCEPT !.ownEmergency[o] = x, !.allEmergency = y]

LEMMA WindowsSet ==
    ASSUME NEW w \in WindowsType, NEW o \in Connections, NEW x \in Seq(Ages), NEW y \in Seq(Ages)
    PROVE  /\ WithDirect(w, o, x, y) \in WindowsType
           /\ WithDirect(w, o, x, y).own[o] = x
           /\ \A z \in Connections \ {o} : WithDirect(w, o, x, y).own[z] = w.own[z]
           /\ WithDirect(w, o, x, y).all = y
           /\ WithDirect(w, o, x, y).ownEmergency = w.ownEmergency
           /\ WithDirect(w, o, x, y).allEmergency = w.allEmergency
           /\ WithEmergency(w, o, x, y) \in WindowsType
           /\ WithEmergency(w, o, x, y).ownEmergency[o] = x
           /\ \A z \in Connections \ {o} : WithEmergency(w, o, x, y).ownEmergency[z] = w.ownEmergency[z]
           /\ WithEmergency(w, o, x, y).allEmergency = y
           /\ WithEmergency(w, o, x, y).own = w.own
           /\ WithEmergency(w, o, x, y).all = w.all
BY DEF WindowsType, WithDirect, WithEmergency

DirectSet(w, o, x, y) ==
    /\ WithDirect(w, o, x, y) \in WindowsType
    /\ WithDirect(w, o, x, y).own[o] = x
    /\ \A z \in Connections \ {o} : WithDirect(w, o, x, y).own[z] = w.own[z]
    /\ WithDirect(w, o, x, y).all = y
    /\ WithDirect(w, o, x, y).ownEmergency = w.ownEmergency
    /\ WithDirect(w, o, x, y).allEmergency = w.allEmergency

LEMMA DirectWindows ==
    ASSUME NEW w \in WindowsType, NEW o \in Connections, NEW x, x \in Seq(Ages), NEW y, y \in Seq(Ages)
    PROVE  DirectSet(w, o, x, y)
BY WindowsSet DEF DirectSet

PassedNow(o, kind) == [owner |-> o, kind |-> kind, age |-> 0]

LEMMA CandidateClasses ==
    ASSUME NEW o \in Connections, NEW kind \in {"direct", "emergency"}
    PROVE  /\ PassedNow(o, kind) \in PassedType /\ PassedNow(o, kind).age = 0
           /\ OfClass(PassedNow(o, kind), Every(kind)) /\ OfClass(PassedNow(o, kind), Own(o, kind))
           /\ \A k : k # kind => ~OfClass(PassedNow(o, kind), Every(k))
           /\ \A k, x : (k # kind \/ x # o) => ~OfClass(PassedNow(o, kind), Own(x, k))
<1> DEFINE r == PassedNow(o, kind)
<1>1. r \in PassedType /\ r.age = 0 /\ r.kind = kind /\ r.owner = o
  BY WindowAges DEF PassedNow, PassedType
<1> HIDE DEF r
<1>2. ASSUME NEW k PROVE OfClass(r, Every(k)) <=> r.kind = k
  BY <1>1, Classes
<1>3. ASSUME NEW k, NEW x PROVE OfClass(r, Own(x, k)) <=> r.kind = k /\ r.owner = x
  BY <1>1, Classes
<1> QED BY <1>1, <1>2, <1>3 DEF r

\* The windows of a miner and of all miners, when a candidate went on.
LEMMA DirectGranted ==
    ASSUME BudgetInv, NEW o \in Connections,
           limits.own # 0 => Len(expire(windows.own[o])) < limits.own,
           limits.all # 0 => Len(expire(windows.all)) < limits.all,
           NEW own, own = IF limits.own = 0 THEN expire(windows.own[o]) ELSE Append(expire(windows.own[o]), 0),
           NEW all, all = IF limits.all = 0 THEN expire(windows.all) ELSE Append(expire(windows.all), 0)
    PROVE  /\ WithDirect(windows, o, own, all) \in WindowsType
           /\ Budgeted(WithDirect(windows, o, own, all), Append(passed, PassedNow(o, "direct")))
<1> DEFINE r == PassedNow(o, "direct")
           q == Append(passed, r)
           w == WithDirect(windows, o, own, all)
<1>0. /\ limits.own \in Nat /\ limits.all \in Nat /\ limits.emergency \in Nat
      /\ windows \in WindowsType /\ Budgeted(windows, passed) /\ PassedOK(passed)
  BY DEF BudgetInv, LimitsType, Budgeted
<1>1. /\ r \in PassedType /\ r.age = 0 /\ OfClass(r, Every("direct")) /\ OfClass(r, Own(o, "direct"))
      /\ ~OfClass(r, Every("emergency"))
      /\ \A x : x # o => ~OfClass(r, Own(x, "direct"))
      /\ \A x : ~OfClass(r, Own(x, "emergency"))
  BY CandidateClasses
<1> HIDE DEF r
<1>2. PassedOK(q)
  BY <1>0, <1>1, WentOn
<1>3. KeptIn(own, q, Own(o, "direct"), limits.own)
  <2>1. KeptIn(windows.own[o], passed, Own(o, "direct"), limits.own)
    BY <1>0 DEF Budgeted
  <2>2. CASE limits.own = 0
    BY <2>1, <2>2, KeptExpired, KeptUnlimited, KeptWindow
  <2>3. CASE limits.own # 0
    BY <1>0, <1>1, <2>1, <2>3, KeptGranted
  <2> QED BY <2>2, <2>3
<1>4. KeptIn(all, q, Every("direct"), limits.all)
  <2>1. KeptIn(windows.all, passed, Every("direct"), limits.all)
    BY <1>0 DEF Budgeted
  <2>2. CASE limits.all = 0
    BY <2>1, <2>2, KeptExpired, KeptUnlimited, KeptWindow
  <2>3. CASE limits.all # 0
    BY <1>0, <1>1, <2>1, <2>3, KeptGranted
  <2> QED BY <2>2, <2>3
<1>5. w \in WindowsType /\ w.own[o] = own /\ (\A z \in Connections \ {o} : w.own[z] = windows.own[z]) /\ w.all = all
      /\ w.ownEmergency = windows.ownEmergency /\ w.allEmergency = windows.allEmergency
  <2>1. own \in Seq(Ages) /\ all \in Seq(Ages)
    BY <1>3, <1>4 DEF KeptIn, WindowOK
  <2>2. DirectSet(windows, o, own, all)
    BY <1>0, <2>1, DirectWindows, Zenon
  <2> QED BY <2>2 DEF DirectSet
<1>w. windows.own \in [Connections -> Seq(Ages)]
  BY <1>0 DEF WindowsType
<1> HIDE DEF w, q
<1>6. KeptIn(w.allEmergency, q, Every("emergency"), limits.emergency)
  BY <1>0, <1>1, <1>5, KeptOther DEF Budgeted, q
<1>7. ASSUME NEW x \in Connections
      PROVE  KeptIn(w.own[x], q, Own(x, "direct"), limits.own) /\ KeptIn(w.ownEmergency[x], q, Own(x, "emergency"), OneEmergency)
  <2>1. KeptIn(windows.own[x], passed, Own(x, "direct"), limits.own) /\ KeptIn(windows.ownEmergency[x], passed, Own(x, "emergency"), OneEmergency)
    BY <1>0 DEF Budgeted
  <2>2. KeptIn(w.ownEmergency[x], q, Own(x, "emergency"), OneEmergency)
    BY <1>0, <1>1, <1>5, <2>1, KeptOther DEF q
  <2>3. CASE x = o
    BY <1>3, <1>5, <1>w, <2>2, <2>3
  <2>4. CASE x # o
    <3>1. w.own[x] = windows.own[x]
      BY <1>5, <1>w, <2>4
    <3>2. ~OfClass(r, Own(x, "direct"))
      BY <1>1, <2>4
    <3>3. KeptIn(windows.own[x], q, Own(x, "direct"), limits.own)
      BY <1>0, <1>1, <2>1, <3>2, KeptOther DEF q
    <3> QED BY <2>2, <3>1, <3>3
  <2> QED BY <2>3, <2>4
<1>8. Budgeted(w, q)
  BY <1>2, <1>4, <1>5, <1>6, <1>7 DEF Budgeted
<1> QED BY <1>5, <1>8 DEF w, q, r

LEMMA DirectRefused ==
    ASSUME BudgetInv, NEW o \in Connections
    PROVE  /\ WithDirect(windows, o, expire(windows.own[o]), expire(windows.all)) \in WindowsType
           /\ Budgeted(WithDirect(windows, o, expire(windows.own[o]), expire(windows.all)), passed)
<1> DEFINE own == expire(windows.own[o])
           all == expire(windows.all)
           w == WithDirect(windows, o, own, all)
<1>0. windows \in WindowsType /\ Budgeted(windows, passed)
  BY DEF BudgetInv
<1>1. KeptIn(own, passed, Own(o, "direct"), limits.own) /\ KeptIn(all, passed, Every("direct"), limits.all)
  BY <1>0, KeptExpired DEF Budgeted
<1> HIDE DEF own, all
<1>2. w \in WindowsType /\ w.own[o] = own /\ (\A z \in Connections \ {o} : w.own[z] = windows.own[z]) /\ w.all = all
      /\ w.ownEmergency = windows.ownEmergency /\ w.allEmergency = windows.allEmergency
  <2>1. own \in Seq(Ages) /\ all \in Seq(Ages)
    BY <1>1 DEF KeptIn, WindowOK
  <2> QED BY <1>0, <2>1, WindowsSet
<1>w. windows.own \in [Connections -> Seq(Ages)]
  BY <1>0 DEF WindowsType
<1> HIDE DEF w
<1>3. ASSUME NEW x \in Connections PROVE KeptIn(w.own[x], passed, Own(x, "direct"), limits.own)
  <2>1. KeptIn(windows.own[x], passed, Own(x, "direct"), limits.own)
    BY <1>0 DEF Budgeted
  <2>2. CASE x = o
    BY <1>1, <1>2, <1>w, <2>2
  <2>3. CASE x # o
    BY <1>2, <1>w, <2>1, <2>3
  <2> QED BY <2>2, <2>3
<1>4. Budgeted(w, passed)
  BY <1>0, <1>1, <1>2, <1>3 DEF Budgeted
<1> QED BY <1>2, <1>4 DEF w, own, all

\* allowCandidate
LEMMA AllowCandidate ==
    ASSUME BudgetInv, NEW o \in Connections
    PROVE  /\ allowCandidate(o).granted =>
                /\ allowCandidate(o).windows \in WindowsType
                /\ Budgeted(allowCandidate(o).windows, Append(passed, PassedNow(o, "direct")))
           /\ ~allowCandidate(o).granted =>
                /\ allowCandidate(o).windows \in WindowsType
                /\ Budgeted(allowCandidate(o).windows, passed)
<1> DEFINE d == allowCandidate(o)
           own == expire(windows.own[o])
           all == expire(windows.all)
           q == Append(passed, PassedNow(o, "direct"))
           full == (limits.own # 0 /\ Len(own) >= limits.own) \/ (limits.all # 0 /\ Len(all) >= limits.all)
<1>0. /\ limits.own \in Nat /\ limits.all \in Nat /\ limits.emergency \in Nat
      /\ windows \in WindowsType /\ Budgeted(windows, passed) /\ PassedOK(passed)
      /\ Len(own) \in Nat /\ Len(all) \in Nat
  <2>1. Budgeted(windows, passed) /\ limits \in LimitsType /\ windows \in WindowsType
    BY DEF BudgetInv
  <2>2. WindowOK(own) /\ WindowOK(all)
    BY <2>1, KeptExpired DEF Budgeted, KeptIn
  <2> HIDE DEF own, all
  <2> QED BY <2>1, <2>2 DEF WindowOK, LimitsType, Budgeted
<1>1. CASE limits.own = 0 /\ limits.all = 0
  <2>1. d.granted = TRUE /\ d.windows = windows
    BY <1>1 DEF allowCandidate
  <2>2. PassedNow(o, "direct") \in PassedType /\ PassedNow(o, "direct").age = 0
        /\ ~OfClass(PassedNow(o, "direct"), Every("emergency"))
        /\ \A x : ~OfClass(PassedNow(o, "direct"), Own(x, "emergency"))
    BY CandidateClasses
  <2>3. PassedOK(q)
    BY <1>0, <2>2, WentOn
  <2>4. KeptIn(windows.all, q, Every("direct"), limits.all) /\ KeptIn(windows.allEmergency, q, Every("emergency"), limits.emergency)
    BY <1>0, <1>1, <2>2, KeptUnlimited, KeptWindow, KeptOther DEF Budgeted
  <2>5. ASSUME NEW x \in Connections
        PROVE  /\ KeptIn(windows.own[x], q, Own(x, "direct"), limits.own)
               /\ KeptIn(windows.ownEmergency[x], q, Own(x, "emergency"), OneEmergency)
    <3>1. KeptIn(windows.own[x], passed, Own(x, "direct"), limits.own) /\ KeptIn(windows.ownEmergency[x], passed, Own(x, "emergency"), OneEmergency)
      BY <1>0 DEF Budgeted
    <3>2. KeptIn(windows.own[x], q, Own(x, "direct"), limits.own)
      BY <1>1, <3>1, KeptUnlimited, KeptWindow
    <3>3. KeptIn(windows.ownEmergency[x], q, Own(x, "emergency"), OneEmergency)
      BY <1>0, <2>2, <3>1, KeptOther
    <3> QED BY <3>2, <3>3
  <2>6. Budgeted(windows, q)
    BY <2>3, <2>4, <2>5 DEF Budgeted
  <2> QED BY <1>0, <2>1, <2>6
<1>2. CASE ~(limits.own = 0 /\ limits.all = 0) /\ full
  <2>1. d.granted = FALSE /\ d.windows = WithDirect(windows, o, own, all)
    BY <1>2 DEF allowCandidate, WithDirect
  <2>2. d.windows \in WindowsType /\ Budgeted(d.windows, passed)
    BY <2>1, DirectRefused
  <2> QED BY <2>1, <2>2
<1>3. CASE ~(limits.own = 0 /\ limits.all = 0) /\ ~full
  <2> DEFINE nown == IF limits.own = 0 THEN own ELSE Append(own, 0)
             nall == IF limits.all = 0 THEN all ELSE Append(all, 0)
  <2>1. d.granted = TRUE /\ d.windows = WithDirect(windows, o, nown, nall)
    BY <1>3 DEF allowCandidate, WithDirect
  <2>2. (limits.own # 0 => Len(own) < limits.own) /\ (limits.all # 0 => Len(all) < limits.all)
    BY <1>0, <1>3
  <2>3. d.windows \in WindowsType /\ Budgeted(d.windows, q)
    <3>1. WithDirect(windows, o, nown, nall) \in WindowsType /\ Budgeted(WithDirect(windows, o, nown, nall), q)
      BY <2>2, DirectGranted
    <3> HIDE DEF d
    <3> QED BY <2>1, <3>1
  <2> QED BY <2>1, <2>3
<1> HIDE DEF full
<1> QED BY <1>1, <1>2, <1>3

\* allowEmergencyCandidate
LEMMA AllowEmergency ==
    ASSUME limits \in LimitsType, NEW w \in WindowsType, NEW p, Budgeted(w, p), NEW o \in Connections
    PROVE  /\ allowEmergencyCandidate(w, o).windows \in WindowsType
           /\ allowEmergencyCandidate(w, o).granted =>
                Budgeted(allowEmergencyCandidate(w, o).windows, Append(p, PassedNow(o, "emergency")))
           /\ ~allowEmergencyCandidate(w, o).granted => Budgeted(allowEmergencyCandidate(w, o).windows, p)
<1> DEFINE d == allowEmergencyCandidate(w, o)
           own == expire(w.ownEmergency[o])
           all == expire(w.allEmergency)
           r == PassedNow(o, "emergency")
           q == Append(p, r)
           full == own # <<>> \/ Len(all) >= limits.emergency
<1>0. /\ limits.own \in Nat /\ limits.all \in Nat /\ limits.emergency \in Nat /\ OneEmergency \in Nat
      /\ PassedOK(p)
      /\ KeptIn(w.ownEmergency[o], p, Own(o, "emergency"), OneEmergency) /\ KeptIn(w.allEmergency, p, Every("emergency"), limits.emergency)
  BY DEF LimitsType, Budgeted, OneEmergency
<1>1. /\ KeptIn(own, p, Own(o, "emergency"), OneEmergency) /\ KeptIn(all, p, Every("emergency"), limits.emergency)
      /\ Len(all) \in Nat /\ Len(own) \in Nat
  <2>1. KeptIn(own, p, Own(o, "emergency"), OneEmergency) /\ KeptIn(all, p, Every("emergency"), limits.emergency)
    BY <1>0, KeptExpired
  <2> HIDE DEF own, all
  <2>2. own \in Seq(Ages) /\ all \in Seq(Ages)
    BY <2>1 DEF KeptIn, WindowOK
  <2> QED BY <2>1, <2>2
<1>2. /\ r \in PassedType /\ r.age = 0 /\ OfClass(r, Every("emergency")) /\ OfClass(r, Own(o, "emergency"))
      /\ ~OfClass(r, Every("direct"))
      /\ \A x : x # o => ~OfClass(r, Own(x, "emergency"))
      /\ \A x : ~OfClass(r, Own(x, "direct"))
  BY CandidateClasses
<1>d. w \in WindowsType
  OBVIOUS
<1>w. w.ownEmergency \in [Connections -> Seq(Ages)]
  BY DEF WindowsType
<1> HIDE DEF r
<1>3. PassedOK(q)
  BY <1>0, <1>2, WentOn
<1>4. ASSUME NEW x \in Connections
      PROVE  /\ KeptIn(w.own[x], q, Own(x, "direct"), limits.own)
             /\ x # o => KeptIn(w.ownEmergency[x], q, Own(x, "emergency"), OneEmergency)
  <2>1. KeptIn(w.own[x], p, Own(x, "direct"), limits.own) /\ KeptIn(w.ownEmergency[x], p, Own(x, "emergency"), OneEmergency)
    BY DEF Budgeted
  <2>2. KeptIn(w.own[x], q, Own(x, "direct"), limits.own)
    BY <1>0, <1>2, <2>1, KeptOther
  <2>3. ASSUME x # o PROVE KeptIn(w.ownEmergency[x], q, Own(x, "emergency"), OneEmergency)
    <3>1. ~OfClass(r, Own(x, "emergency"))
      BY <1>2, <2>3
    <3> QED BY <1>0, <1>2, <2>1, <3>1, KeptOther
  <2> QED BY <2>2, <2>3
<1>5. KeptIn(w.all, q, Every("direct"), limits.all)
  BY <1>0, <1>2, KeptOther DEF Budgeted
<1>6. CASE limits.emergency = 0
  <2>1. d.granted = TRUE /\ d.windows = w
    BY <1>6 DEF allowEmergencyCandidate
  <2>2. OneEmergency = 0
    BY <1>6 DEF OneEmergency
  <2>3. KeptIn(w.allEmergency, q, Every("emergency"), limits.emergency)
    BY <1>0, <1>6, KeptUnlimited, KeptWindow
  <2>4. KeptIn(w.ownEmergency[o], q, Own(o, "emergency"), OneEmergency)
    BY <1>0, <2>2, KeptUnlimited, KeptWindow
  <2>5. Budgeted(w, q)
    <3> HIDE DEF q
    <3> QED BY <1>3, <1>4, <1>5, <2>3, <2>4 DEF Budgeted
  <2> QED BY <1>d, <2>1, <2>5 DEF r
<1>7. CASE limits.emergency # 0 /\ full
  <2>1. d.granted = FALSE /\ d.windows = WithEmergency(w, o, own, all)
    BY <1>7 DEF allowEmergencyCandidate, WithEmergency
  <2> HIDE DEF d, own, all
  <2>2. /\ d.windows \in WindowsType /\ d.windows.ownEmergency[o] = own
        /\ (\A z \in Connections \ {o} : d.windows.ownEmergency[z] = w.ownEmergency[z]) /\ d.windows.allEmergency = all
        /\ d.windows.own = w.own /\ d.windows.all = w.all
    <3>1. own \in Seq(Ages) /\ all \in Seq(Ages)
      BY <1>1 DEF KeptIn, WindowOK
    <3> QED BY <2>1, <3>1, WindowsSet
  <2>3. ASSUME NEW x \in Connections PROVE KeptIn(d.windows.ownEmergency[x], p, Own(x, "emergency"), OneEmergency)
    <3>1. KeptIn(w.ownEmergency[x], p, Own(x, "emergency"), OneEmergency)
      BY DEF Budgeted
    <3>2. CASE x = o
      BY <1>1, <1>w, <2>2, <3>2
    <3>3. CASE x # o
      BY <1>w, <2>2, <3>1, <3>3
    <3> QED BY <3>2, <3>3
  <2>4. Budgeted(d.windows, p)
    BY <1>1, <2>2, <2>3 DEF Budgeted
  <2> QED BY <2>1, <2>2, <2>4 DEF d
<1>8. CASE limits.emergency # 0 /\ ~full
  <2>1. d.granted = TRUE /\ d.windows = WithEmergency(w, o, Append(own, 0), Append(all, 0))
    BY <1>8 DEF allowEmergencyCandidate, WithEmergency
  <2>2. OneEmergency = 1 /\ Len(own) < 1 /\ Len(all) < limits.emergency
    <3>1. own = <<>> /\ Len(all) < limits.emergency
      BY <1>0, <1>1, <1>8
    <3> HIDE DEF own
    <3>2. Len(own) = 0
      BY <3>1
    <3> QED BY <1>8, <3>1, <3>2 DEF OneEmergency
  <2>3. KeptIn(Append(own, 0), q, Own(o, "emergency"), OneEmergency)
    BY <1>0, <1>2, <2>2, KeptGranted
  <2>4. KeptIn(Append(all, 0), q, Every("emergency"), limits.emergency)
    BY <1>0, <1>2, <2>2, KeptGranted
  <2> HIDE DEF d, own, all, q
  <2>5. /\ d.windows \in WindowsType /\ d.windows.ownEmergency[o] = Append(own, 0)
        /\ (\A z \in Connections \ {o} : d.windows.ownEmergency[z] = w.ownEmergency[z])
        /\ d.windows.allEmergency = Append(all, 0)
        /\ d.windows.own = w.own /\ d.windows.all = w.all
    <3>1. Append(own, 0) \in Seq(Ages) /\ Append(all, 0) \in Seq(Ages)
      BY <2>3, <2>4 DEF KeptIn, WindowOK
    <3>2. ASSUME NEW x \in Seq(Ages), NEW y \in Seq(Ages)
          PROVE  /\ WithEmergency(w, o, x, y) \in WindowsType
                 /\ WithEmergency(w, o, x, y).ownEmergency[o] = x
                 /\ \A z \in Connections \ {o} : WithEmergency(w, o, x, y).ownEmergency[z] = w.ownEmergency[z]
                 /\ WithEmergency(w, o, x, y).allEmergency = y
                 /\ WithEmergency(w, o, x, y).own = w.own
                 /\ WithEmergency(w, o, x, y).all = w.all
      BY WindowsSet
    <3> DEFINE a == Append(own, 0)
               b == Append(all, 0)
    <3>3. a \in Seq(Ages) /\ b \in Seq(Ages) /\ d.windows = WithEmergency(w, o, a, b)
      BY <2>1, <3>1
    <3> HIDE DEF a, b
    <3>4. /\ d.windows \in WindowsType /\ d.windows.ownEmergency[o] = a
          /\ (\A z \in Connections \ {o} : d.windows.ownEmergency[z] = w.ownEmergency[z])
          /\ d.windows.allEmergency = b
          /\ d.windows.own = w.own /\ d.windows.all = w.all
      BY <3>2, <3>3
    <3> QED BY <3>4 DEF a, b
  <2>6. ASSUME NEW x \in Connections PROVE KeptIn(d.windows.ownEmergency[x], q, Own(x, "emergency"), OneEmergency)
    <3>1. CASE x = o
      BY <1>w, <2>3, <2>5, <3>1
    <3>2. CASE x # o
      BY <1>4, <1>w, <2>5, <3>2
    <3> QED BY <3>1, <3>2
  <2>7. Budgeted(d.windows, q)
    BY <1>3, <1>4, <1>5, <2>4, <2>5, <2>6 DEF Budgeted
  <2> QED BY <2>1, <2>5, <2>7 DEF d, q, r
<1> HIDE DEF full
<1> QED BY <1>6, <1>7, <1>8, <1>d

(***************************************************************************)
(* The steps                                                               *)
(***************************************************************************)

LEMMA BudgetStart == BudgetInit => BudgetInv
<1> SUFFICES ASSUME BudgetInit PROVE BudgetInv
  OBVIOUS
<1>1. /\ limits \in [own : BudgetLimits, all : BudgetLimits, emergency : BudgetLimits]
      /\ windows = NoWindows /\ passed = <<>>
  BY DEF BudgetInit
<1>2. limits \in LimitsType
  BY <1>1, BudgetAssumption DEF LimitsType
<1>3. windows \in WindowsType
  BY <1>1 DEF NoWindows, WindowsType
<1>4. PassedOK(<<>>)
  BY DEF PassedOK, InOrder
<1>5. ASSUME NEW K, NEW n \in Nat PROVE KeptIn(<<>>, <<>>, K, n)
  <2>1. ASSUME NEW a PROVE YoungIn(<<>>, a) = {} /\ Members(<<>>, K, a) = {}
    BY DEF YoungIn, Members
  <2>2. WindowOK(<<>>)
    BY DEF WindowOK, Sorted
  <2>3. Members(<<>>, K, kCandidateWindow) = {} /\ Cardinality({}) = 0
    BY <2>1, FS_EmptySet
  <2>4. Cardinality(Members(<<>>, K, kCandidateWindow)) = 0
    BY <2>3
  <2>5. Bounded(<<>>, K, n)
    BY <2>4 DEF Bounded
  <2>6. Matches(<<>>, <<>>, K)
    BY <2>1 DEF Matches
  <2> QED BY <2>2, <2>5, <2>6 DEF KeptIn
<1>6. limits.own \in Nat /\ limits.all \in Nat /\ limits.emergency \in Nat /\ OneEmergency \in Nat
  BY <1>2 DEF LimitsType, OneEmergency
<1>7. /\ windows.all = <<>> /\ windows.allEmergency = <<>>
      /\ \A o \in Connections : windows.own[o] = <<>> /\ windows.ownEmergency[o] = <<>>
  BY <1>1 DEF NoWindows
<1>8. Budgeted(windows, passed)
  BY <1>1, <1>4, <1>5, <1>6, <1>7 DEF Budgeted
<1> QED BY <1>2, <1>3, <1>8 DEF BudgetInv

\* A step that leaves limits alone.
LEMMA BudgetInvFrom ==
    ASSUME limits' = limits, NEW w, NEW p, windows' = w, passed' = p, limits \in LimitsType, w \in WindowsType, Budgeted(w, p)
    PROVE  BudgetInv'
<1>1. limits' \in LimitsType /\ windows' \in WindowsType
  OBVIOUS
<1>2. Budgeted(windows', passed')
  OBVIOUS
<1>3. Budgeted(windows, passed)'
  BY <1>2 DEF Budgeted, OneEmergency
<1> QED BY <1>1, <1>3 DEF BudgetInv

\* What Emergency makes of windows that it is given.
LEMMA EmergencyStep ==
    ASSUME limits \in LimitsType, limits' = limits, NEW w \in WindowsType, Budgeted(w, passed),
           NEW o \in Connections, Emergency(o, w)
    PROVE  BudgetInv'
<1> DEFINE e == allowEmergencyCandidate(w, o)
<1>1. /\ windows' = e.windows
      /\ IF e.granted THEN Passing(o, "emergency") ELSE UNCHANGED passed
  BY DEF Emergency
<1>2. /\ e.windows \in WindowsType
      /\ e.granted => Budgeted(e.windows, Append(passed, PassedNow(o, "emergency")))
      /\ ~e.granted => Budgeted(e.windows, passed)
  BY AllowEmergency
<1> HIDE DEF e
<1>3. CASE e.granted
  <2>1. passed' = Append(passed, PassedNow(o, "emergency"))
    BY <1>1, <1>3 DEF Passing, PassedNow
  <2> QED BY <1>1, <1>2, <1>3, <2>1, BudgetInvFrom
<1>4. CASE ~e.granted
  BY <1>1, <1>2, <1>4, BudgetInvFrom
<1> QED BY <1>3, <1>4

LEMMA ClockStep == BudgetInv /\ Clock => BudgetInv'
<1> SUFFICES ASSUME BudgetInv, Clock PROVE BudgetInv'
  OBVIOUS
<1> DEFINE w == [own |-> [o \in Connections |-> Older(windows.own[o])], all |-> Older(windows.all),
                 ownEmergency |-> [o \in Connections |-> Older(windows.ownEmergency[o])],
                 allEmergency |-> Older(windows.allEmergency)]
           q == Remembered(OneOlder(passed))
<1>1. windows' = w /\ passed' = q /\ limits' = limits
  BY DEF Clock, OneOlder
<1>2. /\ limits \in LimitsType /\ Budgeted(windows, passed) /\ PassedOK(passed)
      /\ limits.own \in Nat /\ limits.all \in Nat /\ limits.emergency \in Nat /\ OneEmergency \in Nat
  BY DEF BudgetInv, LimitsType, Budgeted, OneEmergency
<1>3. w.all = Older(windows.all) /\ w.allEmergency = Older(windows.allEmergency)
      /\ \A o \in Connections : w.own[o] = Older(windows.own[o]) /\ w.ownEmergency[o] = Older(windows.ownEmergency[o])
  OBVIOUS
<1>4. ASSUME NEW o \in Connections
      PROVE KeptIn(Older(windows.own[o]), q, Own(o, "direct"), limits.own)
            /\ KeptIn(Older(windows.ownEmergency[o]), q, Own(o, "emergency"), OneEmergency)
  BY <1>2, KeptOlder DEF Budgeted
<1>5. KeptIn(Older(windows.all), q, Every("direct"), limits.all)
      /\ KeptIn(Older(windows.allEmergency), q, Every("emergency"), limits.emergency)
  BY <1>2, KeptOlder DEF Budgeted
<1>6. PassedOK(q)
  BY <1>2, Forgotten
<1>7. w \in WindowsType
  <2>1. Older(windows.all) \in Seq(Ages) /\ Older(windows.allEmergency) \in Seq(Ages)
    BY <1>5 DEF KeptIn, WindowOK
  <2>2. \A o \in Connections : Older(windows.own[o]) \in Seq(Ages) /\ Older(windows.ownEmergency[o]) \in Seq(Ages)
    BY <1>4 DEF KeptIn, WindowOK
  <2> QED BY <2>1, <2>2 DEF WindowsType
<1> HIDE DEF w, q
<1>8. Budgeted(w, q)
  BY <1>3, <1>4, <1>5, <1>6 DEF Budgeted
<1> QED BY <1>1, <1>2, <1>7, <1>8, BudgetInvFrom

Cleared(w, o) == [w EXCEPT !.own[o] = <<>>, !.ownEmergency[o] = <<>>]

ClearedOf(v, w, o) ==
    /\ v \in WindowsType /\ v.all = w.all /\ v.allEmergency = w.allEmergency
    /\ v.own[o] = <<>> /\ v.ownEmergency[o] = <<>>
    /\ \A x \in Connections \ {o} : v.own[x] = w.own[x] /\ v.ownEmergency[x] = w.ownEmergency[x]

LEMMA WindowsCleared ==
    ASSUME NEW w \in WindowsType, NEW o \in Connections
    PROVE  ClearedOf(Cleared(w, o), w, o)
<1> DEFINE v == Cleared(w, o)
<1> DEFINE f == [w.own EXCEPT ![o] = <<>>]
           g == [w.ownEmergency EXCEPT ![o] = <<>>]
<1>0. <<>> \in Seq(Ages)
  OBVIOUS
<1>1. /\ w.own \in [Connections -> Seq(Ages)] /\ w.ownEmergency \in [Connections -> Seq(Ages)]
      /\ w.all \in Seq(Ages) /\ w.allEmergency \in Seq(Ages)
  BY DEF WindowsType
<1>2. v.own = f /\ v.ownEmergency = g /\ v.all = w.all /\ v.allEmergency = w.allEmergency
  BY DEF WindowsType, Cleared
<1>3. v = [own |-> f, all |-> w.all, ownEmergency |-> g, allEmergency |-> w.allEmergency]
  <2>1. w = [own |-> w.own, all |-> w.all, ownEmergency |-> w.ownEmergency, allEmergency |-> w.allEmergency]
    BY DEF WindowsType
  <2>2. v = [[w EXCEPT !.own = f] EXCEPT !.ownEmergency = g]
    BY DEF Cleared, WindowsType
  <2> HIDE DEF f, g, v
  <2> QED BY <2>1, <2>2
<1>4. /\ f \in [Connections -> Seq(Ages)] /\ f[o] = <<>> /\ \A x \in Connections \ {o} : f[x] = w.own[x]
      /\ g \in [Connections -> Seq(Ages)] /\ g[o] = <<>> /\ \A x \in Connections \ {o} : g[x] = w.ownEmergency[x]
  BY <1>0, <1>1
<1> HIDE DEF f, g, v
<1>5. v \in WindowsType
  BY <1>1, <1>2, <1>3, <1>4 DEF WindowsType
<1>6. ClearedOf(v, w, o)
  BY <1>2, <1>4, <1>5 DEF ClearedOf
<1> QED BY <1>6 DEF v

LEMMA CancelOwnerStep == \A o \in Connections : BudgetInv /\ cancelOwner(o) => BudgetInv'
<1> SUFFICES ASSUME NEW o \in Connections, BudgetInv, cancelOwner(o) PROVE BudgetInv'
  OBVIOUS
<1> DEFINE w == Cleared(windows, o)
           q == Disowned(passed, o)
<1>1. windows' = w /\ passed' = q /\ limits' = limits
  BY DEF cancelOwner, Disowned, Cleared
<1>2. /\ limits \in LimitsType /\ windows \in WindowsType /\ Budgeted(windows, passed) /\ PassedOK(passed)
      /\ limits.own \in Nat /\ limits.all \in Nat /\ limits.emergency \in Nat /\ OneEmergency \in Nat
  BY DEF BudgetInv, LimitsType, Budgeted, OneEmergency
<1>3. /\ w \in WindowsType /\ w.all = windows.all /\ w.allEmergency = windows.allEmergency
      /\ w.own[o] = <<>> /\ w.ownEmergency[o] = <<>>
      /\ \A x \in Connections \ {o} : w.own[x] = windows.own[x] /\ w.ownEmergency[x] = windows.ownEmergency[x]
  BY <1>2, WindowsCleared DEF ClearedOf
<1> HIDE DEF w
<1>4. PassedOK(q)
  BY <1>2, DisownedFields
<1>5. KeptIn(windows.all, q, Every("direct"), limits.all) /\ KeptIn(windows.allEmergency, q, Every("emergency"), limits.emergency)
  BY <1>2, KeptDisowned DEF Budgeted
<1>6. ASSUME NEW x \in Connections \ {o}
      PROVE  /\ KeptIn(windows.own[x], q, Own(x, "direct"), limits.own)
             /\ KeptIn(windows.ownEmergency[x], q, Own(x, "emergency"), OneEmergency)
  BY <1>2, KeptDisowned DEF Budgeted
<1>7. KeptIn(<<>>, q, Own(o, "direct"), limits.own) /\ KeptIn(<<>>, q, Own(o, "emergency"), OneEmergency)
  BY <1>2, KeptAnew
<1> HIDE DEF q
<1>8. Budgeted(w, q)
  BY <1>3, <1>4, <1>5, <1>6, <1>7 DEF Budgeted
<1> QED BY <1>1, <1>2, <1>3, <1>8, BudgetInvFrom

LEMMA BudgetStep == BudgetInv /\ BudgetNext => BudgetInv'
<1> SUFFICES ASSUME BudgetInv, BudgetNext PROVE BudgetInv'
  OBVIOUS
<1>0. limits \in LimitsType /\ windows \in WindowsType /\ Budgeted(windows, passed)
  BY DEF BudgetInv
<1>1. CASE Clock
  BY <1>1, ClockStep
<1>2. ASSUME NEW o \in Connections, WithinBudget(o) PROVE BudgetInv'
  <2> DEFINE d == allowCandidate(o)
  <2>1. d.granted /\ windows' = d.windows /\ passed' = Append(passed, PassedNow(o, "direct")) /\ limits' = limits
    BY <1>2 DEF WithinBudget, Passing, PassedNow
  <2>2. d.windows \in WindowsType /\ Budgeted(d.windows, Append(passed, PassedNow(o, "direct")))
    BY <2>1, AllowCandidate
  <2> HIDE DEF d
  <2> QED BY <1>0, <2>1, <2>2, BudgetInvFrom
<1>3. ASSUME NEW o \in Connections, OverBudget(o) PROVE BudgetInv'
  <2> DEFINE d == allowCandidate(o)
  <2>1. ~d.granted /\ windows' = d.windows /\ passed' = passed /\ limits' = limits
    BY <1>3 DEF OverBudget
  <2>2. d.windows \in WindowsType /\ Budgeted(d.windows, passed)
    BY <2>1, AllowCandidate
  <2> HIDE DEF d
  <2> QED BY <1>0, <2>1, <2>2, BudgetInvFrom
<1>4. ASSUME NEW o \in Connections, NotAdmitted(o) PROVE BudgetInv'
  <2> DEFINE d == allowCandidate(o)
  <2>1. ~d.granted /\ Emergency(o, d.windows) /\ limits' = limits
    BY <1>4 DEF NotAdmitted
  <2>2. d.windows \in WindowsType /\ Budgeted(d.windows, passed)
    BY <2>1, AllowCandidate
  <2> HIDE DEF d
  <2> QED BY <1>0, <2>1, <2>2, EmergencyStep
<1>5. ASSUME NEW o \in Connections, NotVerified(o) PROVE BudgetInv'
  <2>1. Emergency(o, windows) /\ limits' = limits
    BY <1>5 DEF NotVerified
  <2> QED BY <1>0, <2>1, EmergencyStep
<1>6. ASSUME NEW o \in Connections, Verified(o) PROVE BudgetInv'
  BY <1>0, <1>6, BudgetInvFrom DEF Verified
<1>7. ASSUME NEW o \in Connections, cancelOwner(o) PROVE BudgetInv'
  BY <1>7, CancelOwnerStep
<1> QED BY <1>1, <1>2, <1>3, <1>4, <1>5, <1>6, <1>7 DEF BudgetNext

LEMMA BudgetStutter == BudgetInv /\ UNCHANGED budgetVars => BudgetInv'
<1> SUFFICES ASSUME BudgetInv, UNCHANGED budgetVars PROVE BudgetInv'
  OBVIOUS
<1> QED BY BudgetInvFrom DEF BudgetInv, budgetVars

LEMMA BudgetsTrue == BudgetInv => BudgetsExact
<1> SUFFICES ASSUME BudgetInv PROVE BudgetsExact
  OBVIOUS
<1>0. /\ limits.own \in Nat /\ limits.all \in Nat /\ limits.emergency \in Nat
      /\ PassedOK(passed) /\ passed \in Seq(PassedType) /\ DOMAIN passed = 1..Len(passed)
  BY DEF BudgetInv, LimitsType, Budgeted, PassedOK
<1>1. ASSUME NEW i \in 1..Len(passed) PROVE passed[i] \in PassedType /\ passed[i].age < kCandidateWindow
  <2>1. passed[i] \in PassedType
    BY <1>0
  <2>2. passed[i].age \in 0..(kCandidateWindow - 1)
    BY <2>1 DEF PassedType
  <2> QED BY <2>1, <2>2, BudgetAssumption
<1>2. ASSUME NEW kind PROVE Members(passed, Every(kind), kCandidateWindow) = Passed(kind)
  <2>1. ASSUME NEW i \in 1..Len(passed) PROVE OfClass(passed[i], Every(kind)) <=> passed[i].kind = kind
    BY <1>1, Classes
  <2> QED BY <1>0, <1>1, <2>1 DEF Members, Passed
<1>3. ASSUME NEW o, NEW kind PROVE Members(passed, Own(o, kind), kCandidateWindow) = PassedOf(o, kind)
  <2>1. ASSUME NEW i \in 1..Len(passed) PROVE OfClass(passed[i], Own(o, kind)) <=> passed[i].kind = kind /\ passed[i].owner = o
    BY <1>1, Classes
  <2> QED BY <1>0, <1>1, <2>1 DEF Members, PassedOf, Passed
<1>4. Budgeted(windows, passed)
  BY DEF BudgetInv
<1>5. ASSUME limits.all # 0
      PROVE  Cardinality(Passed("direct")) <= limits.all /\ Len(expire(windows.all)) = Cardinality(Passed("direct"))
  <2>1. KeptIn(windows.all, passed, Every("direct"), limits.all)
    BY <1>4 DEF Budgeted
  <2> QED BY <1>2, <1>5, <2>1, KeptLength
<1>6. ASSUME limits.emergency # 0
      PROVE  /\ Cardinality(Passed("emergency")) <= limits.emergency
             /\ Len(expire(windows.allEmergency)) = Cardinality(Passed("emergency"))
  <2>1. KeptIn(windows.allEmergency, passed, Every("emergency"), limits.emergency)
    BY <1>4 DEF Budgeted
  <2> QED BY <1>2, <1>6, <2>1, KeptLength
<1>7. ASSUME NEW o \in Connections, limits.own # 0
      PROVE  /\ Cardinality(PassedOf(o, "direct")) <= limits.own
             /\ Len(expire(windows.own[o])) = Cardinality(PassedOf(o, "direct"))
  <2>1. KeptIn(windows.own[o], passed, Own(o, "direct"), limits.own)
    BY <1>4 DEF Budgeted
  <2> QED BY <1>3, <1>7, <2>1, KeptLength
<1>8. ASSUME NEW o \in Connections, limits.emergency # 0 PROVE Cardinality(PassedOf(o, "emergency")) <= 1
  <2>1. KeptIn(windows.ownEmergency[o], passed, Own(o, "emergency"), 1)
    BY <1>4, <1>8 DEF Budgeted, OneEmergency
  <2> QED BY <1>3, <2>1, KeptLength
<1> QED BY <1>5, <1>6, <1>7, <1>8 DEF BudgetsExact

(***************************************************************************)
(* The capacity of the cache                                               *)
(***************************************************************************)

Indexed(c) == {k \in Keys : c.keys[k] # 0}
Stored(c, s) == {e \in c.entries : e.sourceId = s}

\* The limits, of sets that are finite.
Capacity(c) ==
    /\ IsFiniteSet(Indexed(c)) /\ Cardinality(Indexed(c)) <= kMaxEntries
    /\ \A s \in Sources : IsFiniteSet(Stored(c, s)) /\ Cardinality(Stored(c, s)) <= kMaxEntriesPerSource

\* A cache with fewer records has fewer keys.
LEMMA FewerRecords ==
    ASSUME NEW c, CacheInv(c), Capacity(c), NEW d, CacheInv(d), d.entries \subseteq c.entries
    PROVE  Capacity(d)
<1>0. /\ c.entries \subseteq Reservation /\ IndexMatches(c) /\ IndexMatches(d)
      /\ kMaxEntries \in Nat /\ kMaxEntriesPerSource \in Nat
  BY CacheAssumption DEF CacheInv, Shape, CacheState
<1>1. Indexed(d) \subseteq Indexed(c)
  <2>1. ASSUME NEW k \in Keys, d.keys[k] # 0 PROVE c.keys[k] # 0
    <3>1. PICK e \in d.entries : e.key = k
      BY <1>0, <2>1 DEF IndexMatches
    <3>2. e \in Reservation /\ c.keys[k] = e.token
      BY <1>0, <3>1 DEF IndexMatches
    <3> QED BY <3>2 DEF Reservation
  <2> QED BY <2>1 DEF Indexed
<1>2. ASSUME NEW s \in Sources PROVE Stored(d, s) \subseteq Stored(c, s)
  BY DEF Stored
<1>3. IsFiniteSet(Indexed(d)) /\ Cardinality(Indexed(d)) <= kMaxEntries
  <2>1. /\ IsFiniteSet(Indexed(d)) /\ Cardinality(Indexed(d)) <= Cardinality(Indexed(c))
        /\ Cardinality(Indexed(c)) \in Nat /\ Cardinality(Indexed(d)) \in Nat
    BY <1>1, FS_Subset, FS_CardinalityType DEF Capacity
  <2> QED BY <1>0, <2>1 DEF Capacity
<1>4. ASSUME NEW s \in Sources PROVE IsFiniteSet(Stored(d, s)) /\ Cardinality(Stored(d, s)) <= kMaxEntriesPerSource
  <2>1. /\ IsFiniteSet(Stored(d, s)) /\ Cardinality(Stored(d, s)) <= Cardinality(Stored(c, s))
        /\ Cardinality(Stored(c, s)) \in Nat /\ Cardinality(Stored(d, s)) \in Nat
    BY <1>2, FS_Subset, FS_CardinalityType DEF Capacity
  <2> QED BY <1>0, <2>1 DEF Capacity
<1> QED BY <1>3, <1>4 DEF Capacity

\* A record is made only where there is room for it.
LEMMA OneMore ==
    ASSUME NEW c, CacheInv(c), Capacity(c), NEW s \in Sources, NEW h \in Heights, NEW k \in Keys,
           reserveResult(c, s, h, k) = "Accepted"
    PROVE  Capacity(reserve(c, s, h, k))
<1> DEFINE d == reserve(c, s, h, k)
           n == newReservation(c, s, h, k)
<1>0. kMaxEntries \in Nat /\ kMaxEntriesPerSource \in Nat
  BY CacheAssumption
<1>1. /\ Cardinality(Indexed(c)) < kMaxEntries /\ Cardinality(Stored(c, s)) < kMaxEntriesPerSource
  <2>1. ~(size(c) >= kMaxEntries \/ sourceSize(c, s) >= kMaxEntriesPerSource)
    BY DEF reserveResult
  <2>2. Cardinality(Indexed(c)) \in Nat /\ Cardinality(Stored(c, s)) \in Nat
    BY FS_CardinalityType DEF Capacity
  <2>3. size(c) = Cardinality(Indexed(c)) /\ sourceSize(c, s) = Cardinality(Stored(c, s))
    BY DEF size, sourceSize, Indexed, Stored
  <2> QED BY <1>0, <2>1, <2>2, <2>3
<1>2. d.entries = c.entries \cup {n} /\ n.sourceId = s
  BY ReserveInv DEF newReservation
<1>3. \A j \in Keys : j # k => d.keys[j] = c.keys[j]
  BY DEF reserve, CacheInv, Shape, CacheState
<1> HIDE DEF d, n
<1>4. Indexed(d) \subseteq Indexed(c) \cup {k}
  BY <1>3 DEF Indexed
<1>5. /\ Stored(d, s) \subseteq Stored(c, s) \cup {n}
      /\ \A t \in Sources \ {s} : Stored(d, t) \subseteq Stored(c, t)
  BY <1>2 DEF Stored
<1>6. ASSUME NEW S, NEW T, NEW x, NEW N \in Nat, IsFiniteSet(S), Cardinality(S) < N, T \subseteq S \cup {x}
      PROVE  IsFiniteSet(T) /\ Cardinality(T) <= N
  <2> DEFINE U == S \cup {x}
  <2>1. IsFiniteSet(U) /\ (Cardinality(U) = Cardinality(S) \/ Cardinality(U) = Cardinality(S) + 1)
    BY <1>6, FS_AddElement
  <2>2. T \subseteq U
    BY <1>6
  <2> HIDE DEF U
  <2>3. IsFiniteSet(T) /\ Cardinality(T) <= Cardinality(U)
    BY <2>1, <2>2, FS_Subset
  <2>4. Cardinality(T) \in Nat /\ Cardinality(S) \in Nat
    BY <1>6, <2>3, FS_CardinalityType
  <2> QED BY <1>6, <2>1, <2>3, <2>4
<1>7. IsFiniteSet(Indexed(d)) /\ Cardinality(Indexed(d)) <= kMaxEntries
  BY <1>0, <1>1, <1>4, <1>6 DEF Capacity
<1>8. ASSUME NEW t \in Sources PROVE IsFiniteSet(Stored(d, t)) /\ Cardinality(Stored(d, t)) <= kMaxEntriesPerSource
  <2>1. CASE t = s
    BY <1>0, <1>1, <1>5, <1>6, <2>1 DEF Capacity
  <2>2. CASE t # s
    <3>1. Stored(d, t) \subseteq Stored(c, t) /\ IsFiniteSet(Stored(c, t)) /\ Cardinality(Stored(c, t)) <= kMaxEntriesPerSource
      BY <1>5, <2>2 DEF Capacity
    <3>2. IsFiniteSet(Stored(d, t)) /\ Cardinality(Stored(d, t)) <= Cardinality(Stored(c, t))
      BY <3>1, FS_Subset
    <3>3. Cardinality(Stored(d, t)) \in Nat /\ Cardinality(Stored(c, t)) \in Nat
      BY <3>1, <3>2, FS_CardinalityType
    <3> QED BY <1>0, <3>1, <3>2, <3>3
  <2> QED BY <2>1, <2>2
<1>9. Capacity(d)
  BY <1>7, <1>8 DEF Capacity
<1> QED BY <1>9 DEF d

LEMMA CapacityStart == Init => Capacity(cache)
<1> SUFFICES ASSUME Init PROVE Capacity(cache)
  OBVIOUS
<1>1. Indexed(cache) = {} /\ \A s \in Sources : Stored(cache, s) = {}
  BY DEF Init, EmptyCache, Indexed, Stored
<1> QED BY <1>1, FS_EmptySet, CacheAssumption DEF Capacity

LEMMA CapacityStep ==
    ASSUME IInv, Capacity(cache), [Next]_vars
    PROVE  Capacity(cache')
<1>0. CacheInv(cache) /\ CacheInv(cache') /\ held \subseteq Reservation /\ spent \subseteq Reservation
  BY NextIInv DEF IInv
<1>1. CASE UNCHANGED vars
  BY <1>1 DEF vars
<1>2. ASSUME NEW s \in Sources, NEW h \in Heights, ObserveHeight(s, h) PROVE Capacity(cache')
  <2>1. cache'.entries \subseteq cache.entries
    BY <1>0, <1>2, ObserveHeightInv DEF ObserveHeight, Keeps
  <2> QED BY <1>0, <2>1, FewerRecords
<1>3. ASSUME NEW o \in Owners, NEW s \in Sources, NEW H \in SUBSET Heights, SetOwnerHeights(o, s, H)
      PROVE  Capacity(cache')
  <2>1. cache'.entries \subseteq cache.entries
    BY <1>0, <1>3, SetOwnerHeightsInv DEF SetOwnerHeights, Keeps
  <2> QED BY <1>0, <2>1, FewerRecords
<1>4. ASSUME NEW o \in Owners, RemoveOwner(o) PROVE Capacity(cache')
  <2>1. cache'.entries \subseteq cache.entries
    BY <1>0, <1>4, RemoveOwnerInv DEF RemoveOwner, removeOwner, Keeps
  <2> QED BY <1>0, <2>1, FewerRecords
<1>5. ASSUME NEW s \in Sources, RemoveSource(s) PROVE Capacity(cache')
  <2>1. cache'.entries \subseteq cache.entries
    BY <1>0, <1>5, RemoveSourceInv DEF RemoveSource, Keeps
  <2> QED BY <1>0, <2>1, FewerRecords
<1>6. ASSUME NEW s \in Sources, NEW h \in Heights, NEW k \in Keys, Reserve(s, h, k) PROVE Capacity(cache')
  BY <1>0, <1>6, OneMore DEF Reserve
<1>7. ASSUME NEW r \in held, Retain(r) PROVE Capacity(cache')
  BY <1>7 DEF Retain
<1>8. ASSUME NEW r \in held \cup spent, cache' = release(cache, r) PROVE Capacity(cache')
  <2>1. cache'.entries \subseteq cache.entries
    BY <1>0, <1>8, ReleaseInv
  <2> QED BY <1>0, <2>1, FewerRecords
<1> QED BY <1>1, <1>2, <1>3, <1>4, <1>5, <1>6, <1>7, <1>8 DEF Next, Forget, Destroy

LEMMA CapacityTrue == Capacity(cache) => WithinCapacity
BY DEF Capacity, WithinCapacity, size, sourceSize, Indexed, Stored

(***************************************************************************)
(* TLS                                                                     *)
(***************************************************************************)

TlsRecord(t) ==
    t = [st |-> t.st, doc |-> t.doc, enabled |-> t.enabled, named |-> t.named,
         protocols |-> t.protocols, context |-> t.context, found |-> t.found, broken |-> t.broken]

\* The members of a TlsConfig are those of the value that it was read from.
ReadFrom(t) ==
    /\ t.doc \in TlsDocs /\ t.named \in {"none", "own", "generated"}
    /\ t.doc.kind = "object" =>
         /\ t.enabled = t.doc.enabled /\ t.protocols = t.doc.protocols \cap Versions
         /\ t.named = "own" <=> (t.doc.cert /\ t.doc.key)
    /\ t.doc.kind = "bool" => t.enabled = t.doc.enabled
    /\ t.doc.kind = "string" => t.enabled
    /\ t.doc.kind = "other" => ~t.enabled
    /\ t.doc.kind # "object" => t.named # "own"

FilesType == [cert : Int, key : Int]

\* Files of an attempt that came to its end are one pair.
OnePair(f) == filesExist(f) => f.cert = f.key /\ f.cert > 0

\* The files that are named are those that were found, or a new pair.
GeneratedOK(t, f) == filesExist(f) /\ (IF filesExist(t.found) THEN f = t.found ELSE OnePair(f))

TlsInv ==
    /\ TlsRecord(tls) /\ files \in FilesType /\ pairs \in Nat
    /\ ~unfinished => OnePair(files)
    /\ tls.st # "off" => ReadFrom(tls)
    /\ tls.st \in {"generate", "write key", "write cert"} => tls.named = "none" /\ ~filesExist(tls.found)
    /\ tls.st \in {"write key", "write cert"} => unfinished /\ pairs > 0
    /\ tls.st = "write cert" => tls.broken \/ files.key = pairs
    /\ tls.st = "configured" =>
         /\ tls.named = "generated" => tls.broken \/ GeneratedOK(tls, files)
         /\ tls.enabled /\ ~tls.broken => tls.named # "none"
    /\ TlsAsConfigured

LEMMA ConfiguredReads ==
    ASSUME NEW doc \in TlsDocs
    PROVE  /\ TlsRecord(Configured(doc)) /\ ReadFrom(Configured(doc))
           /\ Configured(doc).named \in {"none", "own"}
<1> DEFINE t == Configured(doc)
<1>1. doc.kind \in {"object", "bool", "string", "other"}
  BY TlsContextAssumption
<1>2. CASE doc.kind = "object"
  <2>1. t = [st |-> "off", doc |-> doc, enabled |-> doc.enabled,
             named |-> IF doc.cert /\ doc.key THEN "own" ELSE "none",
             protocols |-> doc.protocols \cap Versions, context |-> NoContext,
             found |-> NewTls.found, broken |-> FALSE]
    BY <1>2 DEF Configured, NewTls, setProtocols
  <2> QED BY <1>2, <2>1 DEF TlsRecord, ReadFrom
<1>3. CASE doc.kind = "bool"
  <2>1. t = [st |-> "off", doc |-> doc, enabled |-> doc.enabled, named |-> "none", protocols |-> {}, context |-> NoContext,
             found |-> NewTls.found, broken |-> FALSE]
    BY <1>3 DEF Configured, NewTls
  <2> QED BY <1>3, <2>1 DEF TlsRecord, ReadFrom
<1>4. CASE doc.kind = "string"
  <2>1. t = [st |-> "off", doc |-> doc, enabled |-> TRUE, named |-> "none", protocols |-> {}, context |-> NoContext,
             found |-> NewTls.found, broken |-> FALSE]
    BY <1>4 DEF Configured, NewTls
  <2>2. TlsRecord(t) /\ t.doc = doc /\ t.named = "none" /\ t.enabled = TRUE
    BY <2>1 DEF TlsRecord
  <2> HIDE DEF t
  <2>3. ReadFrom(t)
    BY <1>4, <2>2 DEF ReadFrom
  <2> QED BY <2>2, <2>3 DEF t
<1>5. CASE doc.kind = "other"
  <2>1. t = [st |-> "off", doc |-> doc, enabled |-> FALSE, named |-> "none", protocols |-> {}, context |-> NoContext,
             found |-> NewTls.found, broken |-> FALSE]
    BY <1>5 DEF Configured, NewTls
  <2>2. TlsRecord(t) /\ t.doc = doc /\ t.named = "none" /\ t.enabled = FALSE
    BY <2>1 DEF TlsRecord
  <2> HIDE DEF t
  <2>3. ReadFrom(t)
    BY <1>5, <2>2 DEF ReadFrom
  <2> QED BY <2>2, <2>3 DEF t
<1> QED BY <1>1, <1>2, <1>3, <1>4, <1>5

LEMMA TlsStart == TlsInit => TlsInv
<1> SUFFICES ASSUME TlsInit PROVE TlsInv
  OBVIOUS
<1>1. pairs \in Nat /\ files \in FilesType /\ OnePair(files)
  BY DEF TlsInit, FilesType, OnePair, filesExist, NoFile
<1>2. TlsRecord(tls) /\ tls.st = "off"
  BY DEF TlsInit, NewTls, TlsRecord
<1> QED BY <1>1, <1>2 DEF TlsInv, TlsAsConfigured

\* A step after which no proxy runs; what the files hold is up to the caller.
LEMMA TlsFails ==
    ASSUME TlsInv, tls.st \in {"generate", "write key", "write cert"}, GenerateFails, files' \in FilesType, pairs' \in Nat
    PROVE  TlsInv'
<1>1. /\ TlsRecord(tls') /\ tls'.st = "configured" /\ tls'.named = "none" /\ unfinished' = TRUE /\ tls'.broken = TRUE
      /\ tls'.doc = tls.doc /\ tls'.enabled = tls.enabled /\ tls'.protocols = tls.protocols
  BY DEF GenerateFails, TlsInv, TlsRecord
<1>2. ReadFrom(tls')
  BY <1>1 DEF TlsInv, ReadFrom
<1> QED BY <1>1, <1>2 DEF TlsInv, TlsAsConfigured

LEMMA ReadTlsStep == ASSUME TlsInv, NEW doc \in TlsDocs, ReadTls(doc) PROVE TlsInv'
<1> DEFINE u == Configured(doc)
           t == [u EXCEPT !.found = files]
<1>a. TlsRecord(u) /\ ReadFrom(u) /\ u.named \in {"none", "own"}
  BY ConfiguredReads
<1>w. t = [u EXCEPT !.found = files]
  OBVIOUS
<1>0. /\ tls' = (IF ~(t.enabled /\ t.named = "none") THEN [t EXCEPT !.st = "configured"]
                 ELSE IF filesExist(files) THEN Generated(t)
                 ELSE [t EXCEPT !.st = "generate"])
      /\ files' = files /\ pairs' = pairs /\ unfinished' = unfinished
  BY DEF ReadTls
<1> HIDE DEF t, u
<1>b. /\ TlsRecord(t) /\ t.found = files
      /\ t.doc = u.doc /\ t.enabled = u.enabled /\ t.named = u.named /\ t.protocols = u.protocols
  BY <1>a, <1>w DEF TlsRecord
<1>1. TlsRecord(t) /\ ReadFrom(t) /\ t.named \in {"none", "own"}
  BY <1>a, <1>b DEF ReadFrom
<1>2. CASE ~(t.enabled /\ t.named = "none")
  <2>1. /\ TlsRecord(tls') /\ tls'.st = "configured" /\ tls'.named = t.named
        /\ tls'.doc = t.doc /\ tls'.enabled = t.enabled /\ tls'.protocols = t.protocols /\ tls'.found = files
    BY <1>0, <1>1, <1>2, <1>b DEF TlsRecord
  <2>2. ReadFrom(tls')
    BY <1>1, <2>1 DEF ReadFrom
  <2> QED BY <1>0, <1>1, <1>2, <2>1, <2>2 DEF TlsInv, TlsAsConfigured, GeneratedOK
<1>3. CASE (t.enabled /\ t.named = "none") /\ filesExist(files)
  <2>1. /\ TlsRecord(tls') /\ tls'.st = "configured" /\ tls'.named = "generated"
        /\ tls'.doc = t.doc /\ tls'.enabled = t.enabled /\ tls'.protocols = t.protocols /\ tls'.found = files
    BY <1>0, <1>1, <1>3, <1>b DEF TlsRecord, Generated
  <2>2. ReadFrom(tls')
    BY <1>1, <1>3, <2>1 DEF ReadFrom
  <2> QED BY <1>0, <1>1, <1>3, <2>1, <2>2 DEF TlsInv, TlsAsConfigured, GeneratedOK
<1>4. CASE (t.enabled /\ t.named = "none") /\ ~filesExist(files)
  <2>1. /\ TlsRecord(tls') /\ tls'.st = "generate" /\ tls'.named = "none"
        /\ tls'.doc = t.doc /\ tls'.enabled = t.enabled /\ tls'.protocols = t.protocols /\ tls'.found = files
    BY <1>0, <1>1, <1>4, <1>b DEF TlsRecord
  <2>2. ReadFrom(tls')
    BY <1>1, <1>4, <2>1 DEF ReadFrom
  <2> QED BY <1>0, <1>1, <1>4, <2>1, <2>2 DEF TlsInv, TlsAsConfigured, GeneratedOK
<1> QED BY <1>2, <1>3, <1>4

\* tls moves on within the generation.
LEMMA TlsMoves ==
    ASSUME TlsInv, tls.st \in {"generate", "write key"}, NEW st \in {"write key", "write cert"}, NEW broken,
           tls' = [tls EXCEPT !.st = st, !.broken = broken], unfinished',
           files' \in FilesType, pairs' \in Nat, pairs' > 0,
           st = "write cert" => broken \/ files'.key = pairs'
    PROVE  TlsInv'
<1>1. /\ TlsRecord(tls') /\ tls'.st = st /\ tls'.named = "none" /\ tls'.found = tls.found /\ tls'.broken = broken
      /\ tls'.doc = tls.doc /\ tls'.enabled = tls.enabled /\ tls'.protocols = tls.protocols
  BY DEF TlsInv, TlsRecord
<1>2. ReadFrom(tls')
  BY <1>1 DEF TlsInv, ReadFrom
<1>3. ~filesExist(tls'.found)
  BY <1>1 DEF TlsInv
<1>4. st = "write cert" => tls'.broken \/ files'.key = pairs'
  BY <1>1
<1> QED BY <1>1, <1>2, <1>3, <1>4 DEF TlsInv, TlsAsConfigured

LEMMA MakePairStep == ASSUME TlsInv, NEW ok \in BOOLEAN, MakePair(ok) PROVE TlsInv'
<1>1. files' \in FilesType /\ pairs' \in Nat /\ pairs' > 0 /\ tls.st = "generate"
  <2>1. files' = files /\ pairs' = pairs + 1 /\ tls.st = "generate"
    BY DEF MakePair
  <2>2. files \in FilesType /\ pairs \in Nat
    BY DEF TlsInv
  <2> QED BY <2>1, <2>2
<1>2. CASE ok
  <2>1. tls' = [tls EXCEPT !.st = "write key"] /\ unfinished'
    BY <1>2 DEF MakePair
  <2>2. tls' = [tls EXCEPT !.st = "write key", !.broken = tls.broken]
    BY <2>1 DEF TlsInv, TlsRecord
  <2> QED BY <1>1, <2>1, <2>2, TlsMoves
<1>3. CASE ~ok
  BY <1>1, <1>3, TlsFails DEF MakePair
<1> QED BY <1>2, <1>3

LEMMA WriteKeyStep == ASSUME TlsInv, NEW left \in -1..MaxPairs, NEW ret \in BOOLEAN, WriteKey(left, ret) PROVE TlsInv'
<1>1. files' \in FilesType /\ pairs' = pairs /\ pairs \in Nat /\ pairs > 0 /\ tls.st = "write key" /\ files'.key = left /\ unfinished
  <2>1. files' = [files EXCEPT !.key = left] /\ pairs' = pairs /\ tls.st = "write key"
    BY DEF WriteKey
  <2>2. files \in FilesType /\ pairs \in Nat /\ pairs > 0 /\ unfinished
    BY <2>1 DEF TlsInv
  <2>3. left \in Int
    BY TlsContextAssumption
  <2>4. files' \in FilesType /\ files'.key = left
    BY <2>1, <2>2, <2>3 DEF FilesType
  <2> QED BY <2>1, <2>2, <2>4
<1>2. CASE ret
  <2>1. tls' = [tls EXCEPT !.st = "write cert", !.broken = (left = Torn)] /\ unfinished' /\ left \in {pairs, Torn}
    BY <1>1, <1>2 DEF WriteKey, leaves
  <2>2. (left = Torn) \/ files'.key = pairs'
    BY <1>1, <2>1
  <2> QED BY <1>1, <2>1, <2>2, TlsMoves
<1>3. CASE ~ret
  BY <1>1, <1>3, TlsFails DEF WriteKey
<1> QED BY <1>2, <1>3

LEMMA WriteCertStep == ASSUME TlsInv, NEW left \in -1..MaxPairs, NEW ret \in BOOLEAN, WriteCert(left, ret) PROVE TlsInv'
<1>1. /\ files' \in FilesType /\ pairs' = pairs /\ pairs \in Nat /\ pairs > 0 /\ tls.st = "write cert"
      /\ files'.cert = left /\ files'.key = files.key /\ (tls.broken \/ files.key = pairs)
  <2>1. files' = [files EXCEPT !.cert = left] /\ pairs' = pairs /\ tls.st = "write cert"
    BY DEF WriteCert
  <2>2. files \in FilesType /\ pairs \in Nat /\ pairs > 0 /\ (tls.broken \/ files.key = pairs)
    BY <2>1 DEF TlsInv
  <2>3. left \in Int
    BY TlsContextAssumption
  <2>4. files' \in FilesType /\ files'.cert = left /\ files'.key = files.key
    BY <2>1, <2>2, <2>3 DEF FilesType
  <2> QED BY <2>1, <2>2, <2>4
<1>2. CASE ret
  <2> DEFINE broken == tls.broken \/ left = Torn
  <2>1. tls' = [Generated(tls) EXCEPT !.broken = broken] /\ unfinished' = broken /\ left \in {pairs, Torn}
    BY <1>2 DEF WriteCert, leaves
  <2>2. ASSUME ~broken PROVE OnePair(files') /\ filesExist(files')
    <3>1. files'.cert = pairs /\ files'.key = pairs /\ pairs > 0 /\ pairs \in Nat
      BY <1>1, <2>1, <2>2
    <3> QED BY <3>1 DEF OnePair, filesExist, NoFile
  <2> HIDE DEF broken
  <2>3. /\ TlsRecord(tls') /\ tls'.st = "configured" /\ tls'.named = "generated" /\ tls.named = "none"
        /\ tls'.doc = tls.doc /\ tls'.enabled = tls.enabled /\ tls'.protocols = tls.protocols
        /\ tls'.found = tls.found /\ tls'.broken = broken
    BY <1>1, <2>1 DEF TlsInv, TlsRecord, Generated
  <2>4. ReadFrom(tls')
    BY <1>1, <2>3 DEF TlsInv, ReadFrom
  <2>5. ~filesExist(tls'.found)
    BY <1>1, <2>3 DEF TlsInv
  <2>6. tls'.broken \/ GeneratedOK(tls', files')
    BY <2>2, <2>3, <2>5 DEF GeneratedOK
  <2>7. ~unfinished' => OnePair(files')
    BY <2>1, <2>2
  <2> QED BY <1>1, <2>3, <2>4, <2>6, <2>7 DEF TlsInv, TlsAsConfigured
<1>3. CASE ~ret
  BY <1>1, <1>3, TlsFails DEF WriteCert
<1> QED BY <1>2, <1>3

\* TlsContext::create makes what was asked for.
LEMMA CreateStep == ASSUME TlsInv, Create PROVE TlsInv'
<1> DEFINE c == IF tls.enabled /\ tls.named # "none" THEN load(tls) ELSE NoContext
<1>0. /\ tls.st = "configured" /\ TlsRecord(tls) /\ ReadFrom(tls)
      /\ tls.named = "generated" => tls.broken \/ GeneratedOK(tls, files)
      /\ tls.enabled /\ ~tls.broken => tls.named # "none"
      /\ ~unfinished => OnePair(files)
  BY DEF TlsInv, Create
<1>1. tls' = [tls EXCEPT !.st = "running", !.context = c] /\ files' = files /\ pairs' = pairs /\ unfinished' = unfinished
  BY DEF Create
<1>w. c = IF tls.enabled /\ tls.named # "none" THEN load(tls) ELSE NoContext
  OBVIOUS
<1> HIDE DEF c
<1>2. /\ TlsRecord(tls') /\ tls'.st = "running" /\ tls'.named = tls.named /\ tls'.context = c
      /\ tls'.doc = tls.doc /\ tls'.enabled = tls.enabled /\ tls'.protocols = tls.protocols
      /\ tls'.found = tls.found /\ tls'.broken = tls.broken
  BY <1>0, <1>1 DEF TlsRecord
<1>3. ReadFrom(tls')
  BY <1>0, <1>2 DEF ReadFrom
<1>4. tls.doc.kind \in {"object", "bool", "string", "other"}
  BY <1>0, TlsContextAssumption DEF ReadFrom
<1>5. AsksForTls(tls.doc) => tls.enabled /\ Settings(tls.doc) /\ (tls.named = "own" => tls.doc.good)
  BY <1>0, <1>4 DEF AsksForTls, ReadFrom, Settings
<1>6. tls.enabled /\ Settings(tls.doc) /\ (tls.named = "own" => tls.doc.good) => AsksForTls(tls.doc)
  BY <1>0, <1>4 DEF AsksForTls, ReadFrom, Settings
<1>7. ASSUME AsksForTls(tls.doc), tls.named = "own" \/ ~(tls.broken \/ (unfinished /\ Unusable(tls.found)))
      PROVE  c # NoContext
  <2>1. tls.enabled /\ Settings(tls.doc) /\ tls.named # "none" /\ (tls.named = "own" => tls.doc.good)
    BY <1>0, <1>5, <1>7
  <2>2. LoadedPair(tls) # NoFile
    <3>1. CASE tls.named = "own"
      BY <2>1, <3>1, TlsContextAssumption DEF LoadedPair, OwnPair, NoFile
    <3>2. CASE tls.named # "own"
      <4>1. tls.named = "generated" /\ ~tls.broken /\ ~(unfinished /\ Unusable(tls.found))
        BY <1>0, <1>7, <2>1, <3>2 DEF ReadFrom
      <4>2. files.cert = files.key /\ files.cert > 0 /\ files \in FilesType
        BY <1>0, <4>1 DEF OnePair, TlsInv, GeneratedOK, Unusable, filesExist
      <4> QED BY <3>2, <4>2 DEF LoadedPair, NoFile, FilesType
    <3> QED BY <3>1, <3>2
  <2>3. c = [pair |-> LoadedPair(tls), versions |-> Offered(tls.protocols)]
    BY <1>w, <2>1, <2>2 DEF load
  <2>4. c.pair = LoadedPair(tls) /\ NoContext.pair = NoFile
    BY <2>3 DEF NoContext
  <2> QED BY <2>2, <2>4
<1>8. ASSUME c # NoContext
      PROVE  /\ AsksForTls(tls.doc)
             /\ tls.doc.kind = "object" /\ tls.doc.protocols \cap Versions # {}
                  => c.versions = tls.doc.protocols \cap Versions
  <2>1. tls.enabled /\ tls.named # "none" /\ LoadedPair(tls) # NoFile /\ Settings(tls.doc)
    BY <1>8, <1>w DEF load
  <2>2. tls.named = "own" => tls.doc.good
    BY <2>1 DEF LoadedPair
  <2>3. c.versions = Offered(tls.protocols)
    BY <1>w, <2>1 DEF load
  <2> QED BY <1>0, <1>6, <2>1, <2>2, <2>3 DEF Offered, ReadFrom
<1>9. TlsAsConfigured'
  BY <1>1, <1>2, <1>7, <1>8 DEF TlsAsConfigured, AsksForTls, Settings, NoContext, Versions, Unusable
<1> QED BY <1>1, <1>2, <1>3, <1>9 DEF TlsInv

LEMMA TlsStep == TlsInv /\ [TlsNext]_tlsVars => TlsInv'
<1> SUFFICES ASSUME TlsInv, [TlsNext]_tlsVars PROVE TlsInv'
  OBVIOUS
<1>1. CASE UNCHANGED tlsVars
  <2>1. files' = files /\ pairs' = pairs /\ tls' = tls /\ unfinished' = unfinished
    BY <1>1 DEF tlsVars
  <2>2. TlsAsConfigured'
    BY <2>1 DEF TlsInv, TlsAsConfigured
  <2>3. ReadFrom(tls) => ReadFrom(tls')
    BY <2>1
  <2>4. GeneratedOK(tls, files) => GeneratedOK(tls', files')
    BY <2>1
  <2>5. OnePair(files) => OnePair(files')
    BY <2>1
  <2>6. filesExist(tls'.found) <=> filesExist(tls.found)
    BY <2>1
  <2>7. TlsRecord(tls')
    BY <2>1 DEF TlsInv
  <2> QED BY <2>1, <2>2, <2>3, <2>4, <2>5, <2>6, <2>7 DEF TlsInv
<1>2. ASSUME Killed PROVE TlsInv'
  <2>1. TlsRecord(tls') /\ tls'.st = "off"
    BY <1>2 DEF Killed, NewTls, TlsRecord
  <2> QED BY <1>2, <2>1 DEF Killed, TlsInv, TlsAsConfigured
<1>3. ASSUME NEW name \in {"cert", "key"}, OperatorRemoves(name) PROVE TlsInv'
  <2>1. /\ tls' = tls /\ tls.st = "off" /\ pairs' = pairs /\ unfinished' = unfinished
        /\ files' = [files EXCEPT ![name] = NoFile] /\ files \in FilesType
    BY <1>3 DEF OperatorRemoves, TlsInv
  <2>2. files' \in FilesType /\ ~filesExist(files')
    BY <2>1 DEF FilesType, filesExist, NoFile
  <2> QED BY <2>1, <2>2 DEF TlsInv, TlsAsConfigured, OnePair
<1> QED BY <1>1, <1>2, <1>3, ReadTlsStep, MakePairStep, WriteKeyStep, WriteCertStep, CreateStep DEF TlsNext

(***************************************************************************)
(* The start of the program                                                *)
(***************************************************************************)

BootRecord(b) ==
    b = [st |-> b.st, chain |-> b.chain, sources |-> b.sources, fileError |-> b.fileError, named |-> b.named,
         tried |-> b.tried, config |-> b.config]

\* What is read when a file was chosen.
ChosenSources == {"options", "chosen"}

\* The fields that a document of the chain leaves alone.
SameBoot(c, b) ==
    c.st = b.st /\ c.fileError = b.fileError /\ c.named = b.named /\ c.tried = b.tried /\ c.config = b.config

IsChain(s) == \E S : s \in Seq(S)

\* A file that is tried by default is read after what was refused.
LaterFiles(chain, sources) ==
    \A n \in DOMAIN sources : sources[n] \in FileNames => ~valid(SubSeq(chain, 1, n - 1))

ChainOK(b) ==
    IsChain(b.chain) /\ IsChain(b.sources) /\ Len(b.chain) = Len(b.sources) /\ LaterFiles(b.chain, b.sources)

LEMMA ChainGrows ==
    ASSUME NEW s, IsChain(s), NEW e
    PROVE  /\ IsChain(Append(s, e)) /\ Len(s) \in Nat /\ Len(Append(s, e)) = Len(s) + 1
           /\ DOMAIN s = 1..Len(s) /\ DOMAIN Append(s, e) = 1..(Len(s) + 1)
           /\ \A i \in 1..Len(s) : Append(s, e)[i] = s[i]
           /\ Append(s, e)[Len(s) + 1] = e
<1>1. PICK S : s \in Seq(S)
  BY DEF IsChain
<1> DEFINE T == S \cup {e}
<1>2. s \in Seq(T) /\ e \in T
  BY <1>1
<1>3. Append(s, e) \in Seq(T) /\ Len(Append(s, e)) = Len(s) + 1
  BY <1>2
<1>4. IsChain(Append(s, e))
  BY <1>3 DEF IsChain
<1> HIDE DEF T
<1> QED BY <1>2, <1>3, <1>4

\* What was read before does not change.
LEMMA ChainPrefix ==
    ASSUME NEW s, IsChain(s), NEW e
    PROVE  \A n \in 0..Len(s) : SubSeq(Append(s, e), 1, n) = SubSeq(s, 1, n)
<1>1. PICK S : s \in Seq(S)
  BY DEF IsChain
<1> DEFINE T == S \cup {e}
<1>2. s \in Seq(T) /\ e \in T
  BY <1>1
<1> HIDE DEF T
<1>3. Append(s, e) \in Seq(T) /\ Len(Append(s, e)) = Len(s) + 1 /\ Len(s) \in Nat
  BY <1>2
<1> DEFINE t == Append(s, e)
<1>4. \A i \in 1..Len(s) : t[i] = s[i]
  BY <1>2
<1>5. t \in Seq(T) /\ Len(t) = Len(s) + 1
  BY <1>3
<1> HIDE DEF t
<1>6. ASSUME NEW n \in 0..Len(s) PROVE SubSeq(t, 1, n) = SubSeq(s, 1, n)
  <2>1. 1 \in 1..(Len(s) + 1) /\ n \in (1 - 1)..Len(s) /\ 1 \in 1..(Len(t) + 1) /\ n \in (1 - 1)..Len(t)
    BY <1>3, <1>5, <1>6
  <2>2. /\ SubSeq(s, 1, n) \in Seq(T) /\ Len(SubSeq(s, 1, n)) = n
        /\ \A i \in 1..n : SubSeq(s, 1, n)[i] = s[i]
    BY <1>2, <1>3, <2>1, SubSeqProperties
  <2>3. /\ SubSeq(t, 1, n) \in Seq(T) /\ Len(SubSeq(t, 1, n)) = n
        /\ \A i \in 1..n : SubSeq(t, 1, n)[i] = t[i]
    BY <1>5, <2>1, SubSeqProperties
  <2>4. \A i \in 1..n : SubSeq(t, 1, n)[i] = SubSeq(s, 1, n)[i]
    BY <1>3, <1>4, <1>6, <2>2, <2>3
  <2> QED BY <2>2, <2>3, <2>4, SeqEqual
<1> QED BY <1>6 DEF t

LEMMA ChainWhole == ASSUME NEW s, IsChain(s) PROVE SubSeq(s, 1, Len(s)) = s
<1>1. PICK S : s \in Seq(S)
  BY DEF IsChain
<1>2. Len(s) \in Nat
  BY <1>1
<1>3. 1 \in 1..(Len(s) + 1) /\ Len(s) \in (1 - 1)..Len(s)
  BY <1>2
<1>4. /\ SubSeq(s, 1, Len(s)) \in Seq(S) /\ Len(SubSeq(s, 1, Len(s))) = Len(s)
      /\ \A i \in 1..Len(s) : SubSeq(s, 1, Len(s))[i] = s[i]
  BY <1>1, <1>2, <1>3, SubSeqProperties
<1> QED BY <1>1, <1>4, SeqEqual

LEMMA LaterAdded ==
    ASSUME NEW chain, IsChain(chain), NEW sources, IsChain(sources), Len(chain) = Len(sources),
           LaterFiles(chain, sources), NEW doc, NEW source, source \in FileNames => ~valid(chain)
    PROVE  LaterFiles(Append(chain, doc), Append(sources, source))
<1> DEFINE c == Append(chain, doc)
           t == Append(sources, source)
<1>1. /\ Len(sources) \in Nat /\ DOMAIN sources = 1..Len(sources) /\ DOMAIN t = 1..(Len(sources) + 1)
      /\ \A i \in 1..Len(sources) : t[i] = sources[i]
      /\ t[Len(sources) + 1] = source
  BY ChainGrows
<1>2. \A n \in 0..Len(chain) : SubSeq(c, 1, n) = SubSeq(chain, 1, n)
  BY ChainPrefix
<1>3. SubSeq(chain, 1, Len(chain)) = chain
  BY ChainWhole
<1> HIDE DEF c, t
<1>4. ASSUME NEW n \in DOMAIN t, t[n] \in FileNames PROVE ~valid(SubSeq(c, 1, n - 1))
  <2>1. n \in 1..(Len(sources) + 1) /\ n - 1 \in 0..Len(chain)
    BY <1>1, <1>4
  <2>2. SubSeq(c, 1, n - 1) = SubSeq(chain, 1, n - 1)
    BY <1>2, <2>1
  <2>3. CASE n = Len(sources) + 1
    <3>1. n - 1 = Len(chain) /\ source \in FileNames
      BY <1>1, <1>4, <2>1, <2>3
    <3> QED BY <1>3, <2>2, <3>1
  <2>4. CASE n # Len(sources) + 1
    <3>1. n \in DOMAIN sources /\ sources[n] \in FileNames
      BY <1>1, <1>4, <2>1, <2>4
    <3>2. ~valid(SubSeq(chain, 1, n - 1))
      BY <3>1 DEF LaterFiles
    <3> QED BY <2>2, <3>2
  <2> QED BY <2>3, <2>4
<1>5. LaterFiles(c, t)
  BY <1>4 DEF LaterFiles
<1> QED BY <1>5 DEF c, t

LEMMA ChainAdded ==
    ASSUME NEW b, BootRecord(b), NEW doc, NEW source
    PROVE  /\ BootRecord(chainAdd(b, doc, source)) /\ SameBoot(chainAdd(b, doc, source), b)
           /\ b.sources \in Seq(ChosenSources) /\ source \in ChosenSources
                => chainAdd(b, doc, source).sources \in Seq(ChosenSources)
           /\ ChainOK(b) /\ (source \in FileNames => ~valid(b.chain)) => ChainOK(chainAdd(b, doc, source))
<1> DEFINE c == chainAdd(b, doc, source)
<1>1. CASE doc = EmptyDoc
  <2>1. c = b
    BY <1>1 DEF chainAdd
  <2> QED BY <2>1 DEF SameBoot
<1>2. CASE doc # EmptyDoc
  <2> DEFINE ch == Append(b.chain, doc)
             so == Append(b.sources, source)
  <2>1. c = [b EXCEPT !.chain = ch, !.sources = so]
    BY <1>2 DEF chainAdd
  <2>2. b.sources \in Seq(ChosenSources) /\ source \in ChosenSources => so \in Seq(ChosenSources)
    OBVIOUS
  <2>4. ASSUME ChainOK(b), source \in FileNames => ~valid(b.chain)
        PROVE  IsChain(ch) /\ IsChain(so) /\ Len(ch) = Len(so) /\ LaterFiles(ch, so)
    <3>1. IsChain(b.chain) /\ IsChain(b.sources) /\ Len(b.chain) = Len(b.sources) /\ LaterFiles(b.chain, b.sources)
      BY <2>4 DEF ChainOK
    <3>2. IsChain(ch) /\ IsChain(so) /\ Len(ch) = Len(so)
      BY <3>1, ChainGrows
    <3>3. LaterFiles(ch, so)
      BY <2>4, <3>1, LaterAdded
    <3> QED BY <3>2, <3>3
  <2> HIDE DEF ch, so, c
  <2>3. /\ c.st = b.st /\ c.fileError = b.fileError /\ c.named = b.named /\ c.tried = b.tried /\ c.config = b.config
        /\ c.sources = so /\ c.chain = ch /\ BootRecord(c)
    BY <2>1 DEF BootRecord
  <2>5. ChainOK(b) /\ (source \in FileNames => ~valid(b.chain)) => ChainOK(c)
    BY <2>3, <2>4 DEF ChainOK
  <2> QED BY <2>2, <2>3, <2>5 DEF SameBoot, c
<1> QED BY <1>1, <1>2

LEMMA OwnSources == ChosenSources \cap FileNames = {}
<1>1. FileNames = {"config.json", ".xmrig-proxy.json", ".config/xmrig-proxy.json"}
  BY DEF FileNames, DefaultFiles
<1> QED BY <1>1 DEF ChosenSources

\* A file that is taken holds an object.
LEMMA FileAdded ==
    ASSUME NEW b, BootRecord(b), NEW f \in Files, NEW source
    PROVE  /\ BootRecord(addFile(b, f, source))
           /\ addFile(b, f, source).st = b.st /\ addFile(b, f, source).config = b.config
           /\ b.sources \in Seq(ChosenSources) /\ source \in ChosenSources
                => addFile(b, f, source).sources \in Seq(ChosenSources)
           /\ ~addFile(b, f, source).fileError => f.kind = "object"
           /\ ChainOK(b) /\ (source \in FileNames => ~valid(b.chain)) => ChainOK(addFile(b, f, source))
<1> DEFINE c == addFile(b, f, source)
<1>1. CASE f.kind = "unreadable"
  <2>1. c = [b EXCEPT !.fileError = TRUE]
    BY <1>1 DEF addFile
  <2>2. BootRecord(c) /\ c.st = b.st /\ c.config = b.config /\ c.sources = b.sources /\ c.fileError = TRUE
        /\ c.chain = b.chain
    BY <2>1 DEF BootRecord
  <2> QED BY <2>2 DEF ChainOK
<1>2. CASE f.kind = "no object"
  <2>1. c = [b EXCEPT !.fileError = TRUE, !.named = TRUE]
    BY <1>2 DEF addFile
  <2>2. BootRecord(c) /\ c.st = b.st /\ c.config = b.config /\ c.sources = b.sources /\ c.fileError = TRUE
        /\ c.chain = b.chain
    BY <2>1 DEF BootRecord
  <2> QED BY <2>2 DEF ChainOK
<1>3. CASE f.kind = "object"
  <2> DEFINE d == [b EXCEPT !.named = TRUE]
  <2>1. c = chainAdd(d, f.doc, source)
    BY <1>3 DEF addFile
  <2>w. d = [b EXCEPT !.named = TRUE]
    OBVIOUS
  <2> HIDE DEF d, c
  <2>2. BootRecord(d) /\ d.st = b.st /\ d.config = b.config /\ d.sources = b.sources /\ d.chain = b.chain
    BY <2>w DEF BootRecord
  <2>3. /\ BootRecord(c) /\ c.st = b.st /\ c.config = b.config
        /\ b.sources \in Seq(ChosenSources) /\ source \in ChosenSources => c.sources \in Seq(ChosenSources)
        /\ ChainOK(d) /\ (source \in FileNames => ~valid(d.chain)) => ChainOK(c)
    BY <2>1, <2>2, ChainAdded DEF SameBoot
  <2>4. ChainOK(b) => ChainOK(d)
    BY <2>2 DEF ChainOK
  <2> QED BY <1>3, <2>2, <2>3, <2>4 DEF c
<1>4. f.kind \in {"unreadable", "no object", "object"}
  <2>1. f = Unreadable \/ f = NoObject \/ \E d \in FileDocs : f = [kind |-> "object", doc |-> d]
    BY DEF Files
  <2>2. Unreadable.kind = "unreadable" /\ NoObject.kind = "no object"
    BY DEF Unreadable, NoObject
  <2>3. ASSUME NEW d \in FileDocs, f = [kind |-> "object", doc |-> d] PROVE f.kind = "object"
    BY <2>3
  <2> QED BY <2>1, <2>2, <2>3
<1> QED BY <1>1, <1>2, <1>3, <1>4

\* The invariant: with a file that was found chosen no other is looked for, and
\* what is ready was read from it and was valid.
StartInv ==
    /\ BootRecord(boot) /\ ChainOK(boot)
    /\ host.chosen \in Files
    /\ host.spelling \in Searched =>
         /\ boot.st # "next" /\ boot.sources \in Seq(ChosenSources)
         /\ boot.st \notin {"new", "failed"} => host.chosen.kind = "object"
    /\ boot.st = "new" => boot.fileError = FALSE
    /\ boot.st = "next" => ~valid(boot.chain)
    /\ Up => valid(boot.chain) /\ boot.config = boot.sources

LEMMA StartupStart == StartupInit => StartInv
<1> SUFFICES ASSUME StartupInit PROVE StartInv
  OBVIOUS
<1>1. boot = NewBoot /\ host.chosen \in Files
  BY DEF StartupInit
<1>2. BootRecord(boot) /\ boot.st = "new" /\ boot.sources = <<>> /\ boot.chain = <<>> /\ boot.fileError = FALSE
  BY <1>1 DEF NewBoot, BootRecord
<1>3. ChainOK(boot)
  <2>1. <<>> \in Seq({}) /\ DOMAIN <<>> = {}
    OBVIOUS
  <2>2. IsChain(<<>>)
    BY <2>1 DEF IsChain
  <2>3. LaterFiles(<<>>, <<>>)
    BY <2>1 DEF LaterFiles
  <2> QED BY <1>2, <2>2, <2>3 DEF ChainOK
<1> QED BY <1>1, <1>2, <1>3 DEF StartInv, Up

\* st moves on, and nothing else does.
LEMMA BootMoves ==
    ASSUME StartInv, UNCHANGED host, NEW st, boot' = [boot EXCEPT !.st = st],
           boot.st # "new", st # "new", boot.st # "failed",
           st = "next" => host.spelling \notin Searched /\ ~valid(boot.chain),
           st \in {"ready", "initialised", "checked", "running"} => Up
    PROVE  StartInv'
<1>1. BootRecord(boot') /\ boot'.st = st /\ boot'.chain = boot.chain /\ boot'.sources = boot.sources /\ boot'.config = boot.config
  BY DEF StartInv, BootRecord
<1>2. Up' => Up
  BY <1>1 DEF Up
<1>3. valid(boot.chain) => valid(boot'.chain)
  BY <1>1
<1>4. Up' => valid(boot'.chain) /\ boot'.config = boot'.sources
  BY <1>1, <1>2, <1>3 DEF StartInv
<1>5. st = "next" => ~valid(boot'.chain)
  BY <1>1
<1>6. ChainOK(boot')
  BY <1>1 DEF StartInv, ChainOK
<1> QED BY <1>1, <1>4, <1>5, <1>6 DEF StartInv

LEMMA LoadStep == ASSUME StartInv, LoadArguments PROVE StartInv'
<1> DEFINE first == FoldLeft(configTransform, [doc |-> EmptyDoc, coin |-> FALSE], host.before)
           before == chainAdd(boot, first.doc, "options")
           chosen == IF host.spelling = "none" THEN boot ELSE addFile(before, host.chosen, "chosen")
           last == FoldLeft(configTransform, [doc |-> EmptyDoc, coin |-> first.coin], host.after)
           final == finalize(last)
           all == chainAdd(chosen, final, "options")
           bad == explicitConfig /\ (all.fileError \/ ~all.named)
           st == IF bad THEN "failed" ELSE "read"
<1>1. boot' = [all EXCEPT !.st = st] /\ host' = host /\ boot.st = "new"
  BY DEF LoadArguments
<1> HIDE DEF first, last, final
<1>2. BootRecord(boot) /\ ChainOK(boot) /\ host.chosen \in Files
  BY DEF StartInv
<1>o. "options" \notin FileNames /\ "chosen" \notin FileNames
  BY OwnSources DEF ChosenSources
<1>3. BootRecord(before) /\ ChainOK(before) /\ (host.spelling \in Searched => before.sources \in Seq(ChosenSources))
  BY <1>2, <1>o, ChainAdded DEF StartInv, ChosenSources
<1> HIDE DEF before
<1>4. /\ BootRecord(chosen) /\ ChainOK(chosen)
      /\ host.spelling \in Searched =>
           /\ chosen.sources \in Seq(ChosenSources)
           /\ ~chosen.fileError => host.chosen.kind = "object"
  <2>1. "chosen" \in ChosenSources /\ "none" \notin Searched
    BY DEF ChosenSources, Searched
  <2>2. CASE host.spelling = "none"
    BY <1>2, <2>1, <2>2
  <2>3. CASE host.spelling # "none"
    <3>1. chosen = addFile(before, host.chosen, "chosen")
      BY <2>3
    <3> HIDE DEF chosen
    <3> QED BY <1>2, <1>3, <1>o, <2>1, <2>3, <3>1, FileAdded
  <2> QED BY <2>2, <2>3
<1> HIDE DEF chosen
<1>5. /\ BootRecord(all) /\ ChainOK(all) /\ all.fileError = chosen.fileError
      /\ host.spelling \in Searched => all.sources \in Seq(ChosenSources)
  <2>1. "options" \in ChosenSources
    BY DEF ChosenSources
  <2> QED BY <1>4, <1>o, <2>1, ChainAdded DEF SameBoot
<1>6. explicitConfig <=> host.spelling \in Searched
  BY DEF explicitConfig
<1>7. host.spelling \in Searched /\ ~bad => host.chosen.kind = "object"
  BY <1>4, <1>5, <1>6
<1> HIDE DEF all, bad
<1>8. st \in {"failed", "read"} /\ (st # "failed" => ~bad)
  OBVIOUS
<1> HIDE DEF st
<1>9. BootRecord(boot') /\ boot'.st = st /\ boot'.sources = all.sources /\ boot'.chain = all.chain
  BY <1>1, <1>5 DEF BootRecord
<1>10. ~Up'
  BY <1>8, <1>9 DEF Up
<1>11. ChainOK(boot')
  BY <1>5, <1>9 DEF ChainOK
<1>12. host.chosen \in Files
  BY <1>2
<1> QED BY <1>1, <1>5, <1>7, <1>8, <1>9, <1>10, <1>11, <1>12 DEF StartInv

LEMMA ReadStep == ASSUME StartInv, ReadConfig PROVE StartInv'
<1>0. BootRecord(boot) /\ boot.st = "read" /\ host' = host
  BY DEF StartInv, ReadConfig
<1>1. CASE valid(boot.chain)
  <2>1. boot' = [boot EXCEPT !.st = "ready", !.config = boot.sources]
    BY <1>1 DEF ReadConfig
  <2>2. /\ BootRecord(boot') /\ boot'.st = "ready" /\ boot'.chain = boot.chain /\ boot'.sources = boot.sources
        /\ boot'.config = boot'.sources
    BY <1>0, <2>1 DEF BootRecord
  <2>3. valid(boot'.chain)
    BY <1>1, <2>2
  <2>4. ChainOK(boot')
    BY <2>2 DEF StartInv, ChainOK
  <2> QED BY <1>0, <2>2, <2>3, <2>4 DEF StartInv
<1>2. CASE ~valid(boot.chain)
  <2>1. boot' = [boot EXCEPT !.st = nextFile]
    BY <1>2 DEF ReadConfig
  <2>2. nextFile \in {"failed", "next"} /\ (nextFile = "next" => host.spelling \notin Searched)
    BY DEF nextFile, explicitConfig
  <2>3. nextFile = "next" => host.spelling \notin Searched /\ ~valid(boot.chain)
    BY <1>2, <2>2
  <2> QED BY <1>0, <2>1, <2>2, <2>3, BootMoves
<1> QED BY <1>1, <1>2

LEMMA NextFileStep == ASSUME StartInv, NextFile PROVE StartInv'
<1> DEFINE name == DefaultFiles[boot.tried + 1]
           b == addFile(boot, host.files[name], name)
           n == boot.tried + 1
<1>1. /\ boot.st = "next" /\ host' = host /\ boot' = [b EXCEPT !.st = "read", !.tried = n]
      /\ host.spelling \notin Searched /\ ~valid(boot.chain)
  BY DEF NextFile, StartInv
<1>2. BootRecord(boot) /\ ChainOK(boot)
  BY DEF StartInv
<1>3. BootRecord(b) /\ ChainOK(b)
  <2> DEFINE f == host.files[name]
  <2>1. b = addFile(boot, f, name)
    OBVIOUS
  <2> HIDE DEF b, f, name
  <2>2. CASE f.kind = "unreadable"
    <3>1. b = [boot EXCEPT !.fileError = TRUE]
      BY <2>1, <2>2 DEF addFile
    <3> QED BY <1>2, <3>1 DEF BootRecord, ChainOK
  <2>3. CASE f.kind = "no object"
    <3>1. b = [boot EXCEPT !.fileError = TRUE, !.named = TRUE]
      BY <2>1, <2>3 DEF addFile
    <3> QED BY <1>2, <3>1 DEF BootRecord, ChainOK
  <2>4. CASE f.kind \notin {"unreadable", "no object"}
    <3> DEFINE d == [boot EXCEPT !.named = TRUE]
    <3>1. b = chainAdd(d, f.doc, name)
      BY <2>1, <2>4 DEF addFile
    <3>w. d = [boot EXCEPT !.named = TRUE]
      OBVIOUS
    <3> HIDE DEF d
    <3>2. BootRecord(d) /\ d.chain = boot.chain /\ d.sources = boot.sources
      BY <1>2, <3>w DEF BootRecord
    <3>3. ChainOK(d) /\ ~valid(d.chain)
      BY <1>1, <1>2, <3>2 DEF ChainOK
    <3> QED BY <3>1, <3>2, <3>3, ChainAdded
  <2> QED BY <2>2, <2>3, <2>4
<1> HIDE DEF b, n, name
<1>4. BootRecord(boot') /\ boot'.st = "read" /\ ChainOK(boot')
  BY <1>1, <1>3 DEF BootRecord, ChainOK
<1> QED BY <1>1, <1>4 DEF StartInv, Up

LEMMA StartupStep == StartInv /\ [StartupNext]_startVars => StartInv'
<1> SUFFICES ASSUME StartInv, [StartupNext]_startVars PROVE StartInv'
  OBVIOUS
<1>1. CASE UNCHANGED startVars
  <2>1. boot' = boot /\ host' = host
    BY <1>1 DEF startVars
  <2>2. valid(boot.chain) => valid(boot'.chain)
    BY <2>1
  <2>3. Up' => Up
    BY <2>1 DEF Up
  <2>4. ChainOK(boot')
    BY <2>1 DEF StartInv
  <2> QED BY <2>1, <2>2, <2>3, <2>4 DEF StartInv, BootRecord
<1>2. CASE Exec
  BY <1>2, BootMoves DEF Exec, Up
<1>3. CASE Start
  BY <1>3, BootMoves DEF Start, Up
<1>4. CASE Close
  BY <1>4, BootMoves DEF Close, Up
<1> QED BY <1>1, <1>2, <1>3, <1>4, LoadStep, ReadStep, NextFileStep DEF StartupNext

LEMMA ChosenDecides == StartInv => ChosenFileDecides
<1> SUFFICES ASSUME StartInv, Up PROVE ChosenFileDecides
  BY DEF ChosenFileDecides
<1>0. valid(boot.chain) /\ boot.config = boot.sources /\ boot.st \notin {"new", "failed"}
  BY DEF StartInv, Up
<1>1. ASSUME host.spelling \in Searched
      PROVE  (\A i \in DOMAIN boot.config : boot.config[i] \in {"options", "chosen"}) /\ host.chosen.kind = "object"
  <2>1. boot.config \in Seq(ChosenSources) /\ host.chosen.kind = "object"
    BY <1>0, <1>1 DEF StartInv
  <2> QED BY <2>1 DEF ChosenSources
<1>2. ASSUME NEW n \in DOMAIN boot.config, boot.config[n] \in FileNames
      PROVE  ~valid(SubSeq(boot.chain, 1, n - 1))
  BY <1>0, <1>2 DEF StartInv, ChainOK, LaterFiles
<1>3. ASSUME get(boot.chain, "verifier", "no") = "yes"
      PROVE  /\ get(boot.chain, "mode", "nicehash") = "simple" /\ get(boot.chain, "donate", "0") = "0"
             /\ \A p \in enabled(boot.chain) : p.daemon /\ p.user /\ p.coin
  BY <1>0, <1>3 DEF valid, addressesValid, verifierAllowed
<1> QED BY <1>1, <1>2, <1>3 DEF ChosenFileDecides

(***************************************************************************)
(* HTTP                                                                    *)
(***************************************************************************)

FetchRecord(c) ==
    c = [st |-> c.st, lookup |-> c.lookup, connect |-> c.connect, talking |-> c.talking, stored |-> c.stored,
         hears |-> c.hears, owner |-> c.owner, timer |-> c.timer, swept |-> c.swept, calls |-> c.calls]

\* A listener that hears of a context in storage was not told yet; one that does
\* not hear any more was told; an open context is in storage.
FetchOK(c) ==
    /\ FetchRecord(c) /\ c.calls \in Seq({"error", "complete"}) /\ Len(c.calls) <= 1
    /\ c.stored /\ c.hears => c.calls = <<>>
    /\ c.st = "open" => c.stored
    /\ c.st = "idle" => ~c.stored
    /\ c.st # "idle" /\ c.owner /\ ~c.hears => Len(c.calls) = 1
    /\ c.st \in {"closing", "gone"} /\ c.owner /\ ~c.swept => Len(c.calls) = 1

ConnRecord(v) ==
    v = [st |-> v.st, stored |-> v.stored, hears |-> v.hears, asked |-> v.asked, writes |-> v.writes,
         ended |-> v.ended, swept |-> v.swept, replies |-> v.replies]

\* What the replies to a request may show.
Guarded(r, codes, a) ==
    codes = << 200 >> /\ r.method # "OPTIONS" =>
        /\ r.url = "config" => r.auth = "good" /\ ~a.restricted
        /\ a.token => r.auth = "good"

\* What closes a context has written a reply, if neither side ended it.
ConnOK(v, a) ==
    /\ ConnRecord(v) /\ v.writes \in Nat
    /\ Guarded(v.asked, v.replies, a)
    /\ v.writes > 0 => v.replies # <<>>
    /\ v.st \in {"closing", "gone"} /\ ~v.ended /\ ~v.swept => v.replies # <<>>

ApiRecord == api = [token |-> api.token, restricted |-> api.restricted, up |-> api.up]

HttpInv ==
    /\ ApiRecord
    /\ DOMAIN fetches = Fetches /\ \A f \in Fetches : FetchOK(fetches[f])
    /\ DOMAIN conns = Conns /\ \A c \in Conns : ConnOK(conns[c], api)

LEMMA HttpStart == HttpInit => HttpInv
<1> SUFFICES ASSUME HttpInit PROVE HttpInv
  OBVIOUS
<1>1. ApiRecord
  BY DEF HttpInit, ApiConfigs, ApiRecord
<1>2. FetchOK(NewFetch)
  BY DEF FetchOK, FetchRecord, NewFetch
<1>3. ConnOK(NewConn, api)
  <2>1. NewConn.replies = <<>> /\ NewConn.writes = 0 /\ NewConn.st = "idle" /\ ConnRecord(NewConn)
    BY DEF NewConn, ConnRecord
  <2>2. Guarded(NewConn.asked, <<>>, api)
    BY DEF Guarded
  <2> QED BY <2>1, <2>2 DEF ConnOK
<1> QED BY <1>1, <1>2, <1>3 DEF HttpInit, HttpInv

(***************************************************************************)
(* HTTP: the client                                                        *)
(***************************************************************************)

LEMMA Told ==
    ASSUME NEW c, FetchOK(c), NEW what \in {"error", "complete"}, c.stored, c.hears
    PROVE  Append(c.calls, what) \in Seq({"error", "complete"}) /\ Len(Append(c.calls, what)) = 1
BY DEF FetchOK

\* HttpContext::close.
LEMMA ContextClosed ==
    ASSUME NEW c, FetchOK(c)
    PROVE  FetchOK(closeContext(c, TRUE))
<1> DEFINE d == closeContext(c, TRUE)
           calls == IF c.hears /\ c.owner THEN Append(c.calls, "error") ELSE c.calls
<1>1. CASE ~c.stored
  BY <1>1 DEF closeContext
<1>2. CASE c.stored
  <2>1. d = [c EXCEPT !.stored = FALSE, !.st = "closing", !.calls = calls]
    BY <1>2 DEF closeContext
  <2>2. calls \in Seq({"error", "complete"}) /\ Len(calls) <= 1 /\ (c.owner => Len(calls) = 1)
    <3>1. CASE c.hears /\ c.owner
      BY <1>2, <3>1, Told
    <3>2. CASE ~(c.hears /\ c.owner)
      <4>1. calls = c.calls
        BY <3>2
      <4> HIDE DEF calls
      <4> QED BY <1>2, <3>2, <4>1 DEF FetchOK
    <3> QED BY <3>1, <3>2
  <2> HIDE DEF calls, d
  <2>3. /\ FetchRecord(d) /\ d.stored = FALSE /\ d.st = "closing" /\ d.calls = calls
        /\ d.hears = c.hears /\ d.owner = c.owner /\ d.swept = c.swept
    BY <2>1 DEF FetchOK, FetchRecord
  <2>4. FetchOK(d)
    BY <2>2, <2>3 DEF FetchOK
  <2> QED BY <2>4 DEF d
<1> QED BY <1>1, <1>2

\* What the listener and the storage do not see.
LEMMA FetchUnseen ==
    ASSUME NEW c, FetchOK(c), NEW d, FetchRecord(d), d.st = c.st, d.stored = c.stored, d.hears = c.hears,
           d.owner = c.owner, d.swept = c.swept, d.calls = c.calls
    PROVE  FetchOK(d)
BY DEF FetchOK

LEMMA FetchStep ==
    ASSUME HttpInv, NEW f \in Fetches,
           \/ TcpConnected(f) \/ ConnectFails(f) \/ Response(f) \/ ReadFails(f)
           \/ Timeout(f) \/ FetchDeleted(f) \/ OwnerDeleted(f)
           \/ \E b \in BOOLEAN : Fetch(f, b) \/ Resolved(f, b)
    PROVE  HttpInv'
<1> DEFINE c == fetches[f]
<1>0. FetchOK(c) /\ FetchRecord(c)
  BY DEF HttpInv, FetchOK
<1>1. ASSUME NEW d, FetchOK(d), SetFetch(f, d) PROVE HttpInv'
  <2>1. fetches' = [fetches EXCEPT ![f] = d] /\ api' = api /\ conns' = conns
    BY <1>1 DEF SetFetch
  <2>2. DOMAIN fetches' = Fetches /\ \A g \in Fetches : FetchOK(fetches'[g])
    BY <1>1, <2>1 DEF HttpInv
  <2>3. DOMAIN conns' = Conns /\ \A x \in Conns : ConnOK(conns'[x], api')
    BY <2>1 DEF HttpInv
  <2>4. ApiRecord'
    BY <2>1 DEF HttpInv, ApiRecord
  <2> QED BY <2>2, <2>3, <2>4 DEF HttpInv
<1> HIDE DEF c
<1>w. fetches[f] = c
  BY DEF c
<1>2. CASE TcpConnected(f)
  <2> DEFINE d == [c EXCEPT !.connect = FALSE, !.talking = TRUE]
  <2>1. SetFetch(f, d)
    BY <1>2, <1>w DEF TcpConnected
  <2>w. d = [c EXCEPT !.connect = FALSE, !.talking = TRUE]
    OBVIOUS
  <2> HIDE DEF d
  <2>2. FetchRecord(d) /\ d.st = c.st /\ d.stored = c.stored /\ d.hears = c.hears /\ d.owner = c.owner /\ d.swept = c.swept /\ d.calls = c.calls
    BY <1>0, <2>w DEF FetchRecord
  <2> QED BY <1>0, <1>1, <2>1, <2>2, FetchUnseen
<1>3. CASE ConnectFails(f)
  <2> DEFINE d == [c EXCEPT !.connect = FALSE]
  <2>1. SetFetch(f, closeContext(d, TRUE))
    BY <1>3, <1>w DEF ConnectFails
  <2>w. d = [c EXCEPT !.connect = FALSE]
    OBVIOUS
  <2> HIDE DEF d
  <2>2. FetchRecord(d) /\ d.st = c.st /\ d.stored = c.stored /\ d.hears = c.hears /\ d.owner = c.owner /\ d.swept = c.swept /\ d.calls = c.calls
    BY <1>0, <2>w DEF FetchRecord
  <2>3. FetchOK(d)
    BY <1>0, <2>2, FetchUnseen
  <2> QED BY <1>1, <2>1, <2>3, ContextClosed
<1>4. CASE Response(f)
  <2>1. SetFetch(f, messageComplete(c)) /\ c.st = "open"
    BY <1>4, <1>w DEF Response
  <2>2. CASE c.hears /\ c.owner
    <3> DEFINE calls == Append(c.calls, "complete")
               d == [c EXCEPT !.hears = FALSE, !.calls = calls]
    <3>1. calls \in Seq({"error", "complete"}) /\ Len(calls) = 1
      BY <1>0, <2>1, <2>2, Told DEF FetchOK
    <3>2. messageComplete(c) = d
      BY <2>2 DEF messageComplete
    <3>w. d = [c EXCEPT !.hears = FALSE, !.calls = calls]
      OBVIOUS
    <3> HIDE DEF d, calls
    <3>3. /\ FetchRecord(d) /\ d.st = c.st /\ d.stored = c.stored /\ d.hears = FALSE
          /\ d.owner = c.owner /\ d.swept = c.swept /\ d.calls = calls
      BY <1>0, <3>w DEF FetchRecord
    <3>4. FetchOK(d)
      <4>1. c.stored /\ d.stored /\ ~d.hears /\ d.st = "open"
        BY <1>0, <2>1, <3>3 DEF FetchOK
      <4>2. d.calls \in Seq({"error", "complete"}) /\ Len(d.calls) = 1
        BY <3>1, <3>3
      <4>3. FetchRecord(d)
        BY <3>3
      <4> HIDE DEF d
      <4> QED BY <4>1, <4>2, <4>3 DEF FetchOK
    <3> QED BY <1>1, <2>1, <3>2, <3>4
  <2>3. CASE ~(c.hears /\ c.owner)
    <3>1. messageComplete(c) = c
      BY <2>3 DEF messageComplete
    <3> QED BY <1>0, <1>1, <2>1, <3>1
  <2> QED BY <2>2, <2>3
<1>5. CASE ReadFails(f)
  <2>1. SetFetch(f, closeContext(c, TRUE))
    BY <1>5, <1>w DEF ReadFails
  <2> QED BY <1>0, <1>1, <2>1, ContextClosed
<1>6. CASE Timeout(f)
  <2> DEFINE d == [c EXCEPT !.timer = FALSE]
  <2>1. SetFetch(f, closeContext(d, TRUE))
    BY <1>6, <1>w DEF Timeout
  <2>w. d = [c EXCEPT !.timer = FALSE]
    OBVIOUS
  <2> HIDE DEF d
  <2>2. FetchRecord(d) /\ d.st = c.st /\ d.stored = c.stored /\ d.hears = c.hears /\ d.owner = c.owner /\ d.swept = c.swept /\ d.calls = c.calls
    BY <1>0, <2>w DEF FetchRecord
  <2>3. FetchOK(d)
    BY <1>0, <2>2, FetchUnseen
  <2> QED BY <1>1, <2>1, <2>3, ContextClosed
<1>7. CASE FetchDeleted(f)
  <2> DEFINE d == [c EXCEPT !.st = "gone", !.timer = FALSE, !.lookup = FALSE]
  <2>1. SetFetch(f, d) /\ c.st = "closing"
    BY <1>7, <1>w DEF FetchDeleted
  <2>w. d = [c EXCEPT !.st = "gone", !.timer = FALSE, !.lookup = FALSE]
    OBVIOUS
  <2> HIDE DEF d
  <2>2. /\ FetchRecord(d) /\ d.st = "gone" /\ d.stored = c.stored /\ d.hears = c.hears
        /\ d.owner = c.owner /\ d.swept = c.swept /\ d.calls = c.calls
    BY <1>0, <2>w DEF FetchRecord
  <2>3. FetchOK(d)
    BY <1>0, <2>1, <2>2 DEF FetchOK
  <2> QED BY <1>1, <2>1, <2>3
<1>8. CASE OwnerDeleted(f)
  <2> DEFINE d == [c EXCEPT !.owner = FALSE]
  <2>1. SetFetch(f, d)
    BY <1>8, <1>w DEF OwnerDeleted
  <2>w. d = [c EXCEPT !.owner = FALSE]
    OBVIOUS
  <2> HIDE DEF d
  <2>2. /\ FetchRecord(d) /\ d.st = c.st /\ d.stored = c.stored /\ d.hears = c.hears
        /\ d.owner = FALSE /\ d.swept = c.swept /\ d.calls = c.calls
    BY <1>0, <2>w DEF FetchRecord
  <2>3. FetchOK(d)
    BY <1>0, <2>2 DEF FetchOK
  <2> QED BY <1>1, <2>1, <2>3
<1>9. ASSUME NEW b \in BOOLEAN, Fetch(f, b) PROVE HttpInv'
  <2> DEFINE d == [NewFetch EXCEPT !.st = "open", !.lookup = TRUE, !.stored = TRUE, !.hears = TRUE,
                                    !.owner = TRUE, !.timer = b]
  <2>1. SetFetch(f, d)
    BY <1>9 DEF Fetch
  <2>2. d = [st |-> "open", lookup |-> TRUE, connect |-> FALSE, talking |-> FALSE, stored |-> TRUE,
             hears |-> TRUE, owner |-> TRUE, timer |-> b, swept |-> FALSE, calls |-> <<>>]
    <3> DEFINE e == NewFetch
    <3>1. d = [e EXCEPT !.st = "open", !.lookup = TRUE, !.stored = TRUE, !.hears = TRUE, !.owner = TRUE, !.timer = b]
      OBVIOUS
    <3>2. /\ FetchRecord(e) /\ e.connect = FALSE /\ e.talking = FALSE /\ e.swept = FALSE /\ e.calls = <<>>
      BY DEF NewFetch, FetchRecord
    <3> HIDE DEF d, e
    <3> QED BY <3>1, <3>2 DEF FetchRecord
  <2> HIDE DEF d
  <2>3. FetchOK(d)
    BY <2>2 DEF FetchOK, FetchRecord
  <2> QED BY <1>1, <2>1, <2>3
<1>10. ASSUME NEW b \in BOOLEAN, Resolved(f, b) PROVE HttpInv'
  <2> DEFINE d == [c EXCEPT !.lookup = FALSE, !.connect = b]
  <2>1. SetFetch(f, d)
    BY <1>10, <1>w DEF Resolved
  <2>w. d = [c EXCEPT !.lookup = FALSE, !.connect = b]
    OBVIOUS
  <2> HIDE DEF d
  <2>2. FetchRecord(d) /\ d.st = c.st /\ d.stored = c.stored /\ d.hears = c.hears /\ d.owner = c.owner /\ d.swept = c.swept /\ d.calls = c.calls
    BY <1>0, <2>w DEF FetchRecord
  <2> QED BY <1>0, <1>1, <2>1, <2>2, FetchUnseen
<1> QED BY <1>2, <1>3, <1>4, <1>5, <1>6, <1>7, <1>8, <1>9, <1>10

(***************************************************************************)
(* HTTP: the server                                                        *)
(***************************************************************************)

\* Httpd::onHttpData shows what the request may see.
LEMMA RepliesGuarded == ASSUME NEW r PROVE Guarded(r, onHttpData(r), api)
<1> SUFFICES ASSUME onHttpData(r) = << 200 >>, r.method # "OPTIONS"
             PROVE  /\ r.url = "config" => r.auth = "good" /\ ~api.restricted
                    /\ api.token => r.auth = "good"
  BY DEF Guarded
<1>0. <<404>> # << 200 >> /\ <<405>> # << 200 >> /\ <<403>> # << 200 >> /\ <<415>> # << 200 >> /\ <<200, 200>> # << 200 >>
  OBVIOUS
<1>1. auth(r) \in {200, 401, 403}
  BY DEF auth
<1>2. <<auth(r)>> = << 200 >> => auth(r) = 200
  OBVIOUS
<1>3. /\ ~(r.method = "GET" /\ r.url = "favicon") /\ r.method # "TRACE"
      /\ ~(r.url # "favicon" /\ auth(r) # 200)
      /\ exec(r) = << 200 >>
  BY <1>0, <1>2 DEF onHttpData
<1>4. ~isRpc(r)
  BY <1>0, <1>3 DEF exec, rpcReplies
<1>5. ASSUME r.url = "config" PROVE configReply(r) = 200
  <2>1. <<configReply(r)>> = << 200 >>
    BY <1>3, <1>4, <1>5 DEF exec
  <2> QED BY <2>1
<1>6. ASSUME r.url # "config" PROVE routerReply(r) = 200
  <2>1. <<routerReply(r)>> = << 200 >>
    BY <1>3, <1>4, <1>6 DEF exec
  <2> QED BY <2>1
<1>7. r.url = "config" => ~api.restricted
  BY <1>5 DEF configReply
<1>8. r.url # "favicon"
  BY <1>6 DEF routerReply
<1>9. auth(r) = 200
  BY <1>3, <1>8
<1>10. authRequired \/ api.token => r.auth = "good"
  <2>1. CASE r.auth = "none"
    <3>1. ~authRequired
      BY <1>9, <2>1 DEF auth
    <3> QED BY <3>1 DEF authRequired
  <2>2. CASE r.auth # "none" /\ ~api.token
    BY <1>9, <2>2 DEF auth
  <2>3. CASE r.auth # "none" /\ api.token
    BY <1>9, <2>3 DEF auth
  <2> QED BY <2>1, <2>2, <2>3
<1> QED BY <1>7, <1>10 DEF authRequired

LEMMA ConnStep ==
    ASSUME HttpInv, NEW c \in Conns,
           Accepted(c) \/ Written(c) \/ ConnEnds(c) \/ ConnDeleted(c) \/ \E r \in ApiRequests : Asked(c, r)
    PROVE  HttpInv'
<1> DEFINE v == conns[c]
<1>0. ConnOK(v, api) /\ ConnRecord(v)
  BY DEF HttpInv, ConnOK
<1>1. ASSUME NEW d, ConnOK(d, api), SetConn(c, d) PROVE HttpInv'
  <2>1. conns' = [conns EXCEPT ![c] = d] /\ api' = api /\ fetches' = fetches
    BY <1>1 DEF SetConn
  <2>2. DOMAIN conns' = Conns /\ \A x \in Conns : ConnOK(conns'[x], api)
    BY <1>1, <2>1 DEF HttpInv
  <2>3. DOMAIN fetches' = Fetches /\ \A g \in Fetches : FetchOK(fetches'[g])
    BY <2>1 DEF HttpInv
  <2>4. ApiRecord'
    BY <2>1 DEF HttpInv, ApiRecord
  <2>5. \A x \in Conns : ConnOK(conns'[x], api')
    BY <2>1, <2>2
  <2> QED BY <2>2, <2>3, <2>4, <2>5 DEF HttpInv
<1> HIDE DEF v
<1>w. conns[c] = v
  BY DEF v
\* closeConn, of what was replied to or ended.
<1>c. ASSUME NEW d, ConnOK(d, api), d.ended \/ d.replies # <<>> PROVE ConnOK(closeConn(d), api)
  <2>1. CASE ~d.stored
    BY <1>c, <2>1 DEF closeConn
  <2>2. CASE d.stored
    <3> DEFINE e == closeConn(d)
    <3>1. e = [d EXCEPT !.stored = FALSE, !.st = "closing"] /\ ConnRecord(d)
      BY <1>c, <2>2 DEF closeConn, ConnOK
    <3> HIDE DEF e
    <3>2. /\ ConnRecord(e) /\ e.asked = d.asked /\ e.writes = d.writes /\ e.ended = d.ended
          /\ e.swept = d.swept /\ e.replies = d.replies
      BY <3>1 DEF ConnRecord
    <3>3. ConnOK(e, api)
      BY <1>c, <3>2 DEF ConnOK
    <3> QED BY <3>3 DEF e
  <2> QED BY <2>1, <2>2
<1>2. CASE Accepted(c)
  <2> DEFINE d == [NewConn EXCEPT !.st = "open", !.stored = TRUE, !.hears = TRUE]
  <2>1. SetConn(c, d)
    BY <1>2 DEF Accepted
  <2>2. d = [st |-> "open", stored |-> TRUE, hears |-> TRUE, asked |-> NoRequest, writes |-> 0,
             ended |-> FALSE, swept |-> FALSE, replies |-> <<>>]
    <3> DEFINE e == NewConn
    <3>1. d = [e EXCEPT !.st = "open", !.stored = TRUE, !.hears = TRUE]
      OBVIOUS
    <3>2. ConnRecord(e) /\ e.asked = NoRequest /\ e.writes = 0 /\ e.ended = FALSE /\ e.swept = FALSE /\ e.replies = <<>>
      BY DEF NewConn, ConnRecord
    <3> HIDE DEF d, e
    <3> QED BY <3>1, <3>2 DEF ConnRecord
  <2> HIDE DEF d
  <2>3. ConnRecord(d) /\ d.writes = 0 /\ d.st = "open" /\ d.replies = <<>>
    BY <2>2 DEF ConnRecord
  <2>4. Guarded(d.asked, d.replies, api)
    <3>1. d.replies # << 200 >>
      BY <2>3
    <3> QED BY <3>1 DEF Guarded
  <2>5. ConnOK(d, api)
    BY <2>3, <2>4 DEF ConnOK
  <2> QED BY <1>1, <2>1, <2>5
<1>3. CASE Written(c)
  <2> DEFINE n == v.writes - 1
             d == [v EXCEPT !.writes = n]
  <2>1. SetConn(c, closeConn(d)) /\ v.writes > 0
    BY <1>3, <1>w DEF Written
  <2>2. n \in Nat /\ v.replies # <<>>
    BY <1>0, <2>1 DEF ConnOK
  <2>w. d = [v EXCEPT !.writes = n]
    OBVIOUS
  <2> HIDE DEF d, n
  <2>3. /\ ConnRecord(d) /\ d.st = v.st /\ d.asked = v.asked /\ d.writes = n /\ d.ended = v.ended
        /\ d.swept = v.swept /\ d.replies = v.replies
    BY <1>0, <2>w DEF ConnRecord
  <2>4. ConnOK(d, api)
    BY <1>0, <2>2, <2>3 DEF ConnOK
  <2> QED BY <1>1, <1>c, <2>1, <2>2, <2>3, <2>4
<1>4. CASE ConnEnds(c)
  <2> DEFINE d == [v EXCEPT !.ended = TRUE]
  <2>1. SetConn(c, closeConn(d))
    BY <1>4, <1>w DEF ConnEnds
  <2>w. d = [v EXCEPT !.ended = TRUE]
    OBVIOUS
  <2> HIDE DEF d
  <2>2. /\ ConnRecord(d) /\ d.st = v.st /\ d.asked = v.asked /\ d.writes = v.writes /\ d.ended = TRUE
        /\ d.swept = v.swept /\ d.replies = v.replies
    BY <1>0, <2>w DEF ConnRecord
  <2>3. ConnOK(d, api)
    BY <1>0, <2>2 DEF ConnOK
  <2> QED BY <1>1, <1>c, <2>1, <2>2, <2>3
<1>5. CASE ConnDeleted(c)
  <2> DEFINE d == [v EXCEPT !.st = "gone"]
  <2>1. SetConn(c, d) /\ v.st = "closing"
    BY <1>5, <1>w DEF ConnDeleted
  <2>w. d = [v EXCEPT !.st = "gone"]
    OBVIOUS
  <2> HIDE DEF d
  <2>2. /\ ConnRecord(d) /\ d.st = "gone" /\ d.asked = v.asked /\ d.writes = v.writes /\ d.ended = v.ended
        /\ d.swept = v.swept /\ d.replies = v.replies
    BY <1>0, <2>w DEF ConnRecord
  <2>3. ConnOK(d, api)
    BY <1>0, <2>1, <2>2 DEF ConnOK
  <2> QED BY <1>1, <2>1, <2>3
<1>6. ASSUME NEW r \in ApiRequests, Asked(c, r) PROVE HttpInv'
  <2>0. v.st = "open"
    BY <1>6, <1>w DEF Asked
  <2>1. CASE ~v.hears
    <3>1. SetConn(c, v)
      BY <1>6, <1>w, <2>1 DEF Asked
    <3> QED BY <1>0, <1>1, <3>1
  <2>2. CASE v.hears
    <3> DEFINE codes == onHttpData(r)
               n == Len(codes)
               e == [v EXCEPT !.hears = FALSE, !.asked = r]
               d == [e EXCEPT !.replies = codes, !.writes = n]
    <3>1. SetConn(c, d)
      BY <1>6, <1>w, <2>2 DEF Asked, end
    <3>2. Guarded(r, codes, api)
      BY RepliesGuarded
    <3>3. n \in Nat /\ (n > 0 => codes # <<>>)
      <4>1. codes \in Seq(Nat)
        BY DEF onHttpData, exec, rpcReplies, configReply, routerReply, auth
      <4> QED BY <4>1
    <3>w. e = [v EXCEPT !.hears = FALSE, !.asked = r] /\ d = [e EXCEPT !.replies = codes, !.writes = n]
      OBVIOUS
    <3> HIDE DEF codes, n, e, d
    <3>4. /\ ConnRecord(e) /\ e.st = v.st /\ e.asked = r
      BY <1>0, <3>w DEF ConnRecord
    <3>5. /\ ConnRecord(d) /\ d.st = "open" /\ d.asked = r /\ d.writes = n /\ d.replies = codes
      BY <2>0, <3>4, <3>w DEF ConnRecord
    <3>6. ConnOK(d, api)
      BY <3>2, <3>3, <3>5 DEF ConnOK
    <3> QED BY <1>1, <3>1, <3>6
  <2> QED BY <2>1, <2>2
<1> QED BY <1>2, <1>3, <1>4, <1>5, <1>6

\* Httpd::stop closes both kinds of context.
LEMMA ApiStopStep == ASSUME HttpInv, ApiStop PROVE HttpInv'
<1>0. api' = [api EXCEPT !.up = FALSE] /\ fetches' = closeAll(fetches) /\ conns' = closeAll(conns)
  BY DEF ApiStop
<1>1. ApiRecord' /\ api'.token = api.token /\ api'.restricted = api.restricted
  BY <1>0 DEF HttpInv, ApiRecord
<1>2. ASSUME NEW f \in Fetches PROVE FetchOK(fetches'[f])
  <2> DEFINE c == fetches[f]
             d == fetches'[f]
  <2>0. FetchOK(c) /\ FetchRecord(c)
    BY DEF HttpInv, FetchOK
  <2>1. d = IF c.stored /\ c.st = "open" THEN [c EXCEPT !.st = "closing", !.swept = TRUE] ELSE c
    BY <1>0 DEF HttpInv, closeAll
  <2> HIDE DEF c, d
  <2>2. CASE ~(c.stored /\ c.st = "open")
    <3>1. FetchOK(d)
      BY <2>0, <2>1, <2>2
    <3> QED BY <3>1 DEF d
  <2>3. CASE c.stored /\ c.st = "open"
    <3>1. /\ FetchRecord(d) /\ d.st = "closing" /\ d.stored = c.stored /\ d.hears = c.hears
          /\ d.owner = c.owner /\ d.swept = TRUE /\ d.calls = c.calls
      BY <2>0, <2>1, <2>3 DEF FetchRecord
    <3>2. FetchOK(d)
      BY <2>0, <2>3, <3>1 DEF FetchOK
    <3> QED BY <3>2 DEF d
  <2> QED BY <2>2, <2>3
<1>3. ASSUME NEW c \in Conns PROVE ConnOK(conns'[c], api')
  <2> DEFINE v == conns[c]
             d == conns'[c]
  <2>0. ConnOK(v, api) /\ ConnRecord(v)
    BY DEF HttpInv, ConnOK
  <2>1. d = IF v.stored /\ v.st = "open" THEN [v EXCEPT !.st = "closing", !.swept = TRUE] ELSE v
    BY <1>0 DEF HttpInv, closeAll
  <2> HIDE DEF v, d
  <2>2. ConnOK(v, api')
    BY <1>1, <2>0 DEF ConnOK, Guarded
  <2>3. CASE ~(v.stored /\ v.st = "open")
    <3>1. ConnOK(d, api')
      BY <2>1, <2>2, <2>3
    <3> QED BY <3>1 DEF d
  <2>4. CASE v.stored /\ v.st = "open"
    <3>1. /\ ConnRecord(d) /\ d.st = "closing" /\ d.asked = v.asked /\ d.writes = v.writes
          /\ d.ended = v.ended /\ d.swept = TRUE /\ d.replies = v.replies
      BY <2>0, <2>1, <2>4 DEF ConnRecord
    <3>2. ConnOK(d, api')
      BY <2>2, <3>1 DEF ConnOK
    <3> QED BY <3>2 DEF d
  <2> QED BY <2>3, <2>4
<1>4. DOMAIN fetches' = Fetches /\ DOMAIN conns' = Conns
  BY <1>0 DEF HttpInv, closeAll
<1> QED BY <1>1, <1>2, <1>3, <1>4 DEF HttpInv

LEMMA HttpStep == HttpInv /\ [HttpNext]_httpVars => HttpInv'
<1> SUFFICES ASSUME HttpInv, [HttpNext]_httpVars PROVE HttpInv'
  OBVIOUS
<1>1. CASE UNCHANGED httpVars
  <2>1. api' = api /\ fetches' = fetches /\ conns' = conns
    BY <1>1 DEF httpVars
  <2> QED BY <2>1 DEF HttpInv, ApiRecord
<1> QED BY <1>1, FetchStep, ConnStep, ApiStopStep DEF HttpNext

LEMMA HttpTrue == HttpInv => ListenerToldOnce /\ ApiGuarded
BY DEF HttpInv, ListenerToldOnce, ApiGuarded, FetchOK, ConnOK, Guarded

(***************************************************************************)
(* The socket file                                                         *)
(***************************************************************************)

SocketStates == {"off", "probed", "prepared", "bound", "running"}
Paths == Inodes \cup {"none", "other"}
ProxyType == [st : SocketStates, sock : Paths, seen : Paths, owned : Paths]

\* One proxy at most is not off; the path is its socket from the time it was bound.
SocketInv ==
    /\ file \in Paths /\ proxy \in [Proxies -> ProxyType]
    /\ \A p, q \in Proxies : proxy[p].st # "off" /\ proxy[q].st # "off" => p = q
    /\ \A p \in Proxies : proxy[p].st \in {"bound", "running"} => file = proxy[p].sock /\ file \in Inodes

LEMMA SocketStart == SocketInit => SocketInv
<1>1. Off \in ProxyType /\ Off.st = "off"
  BY DEF Off, ProxyType, SocketStates, Paths
<1> HIDE DEF Off
<1> QED BY <1>1 DEF SocketInit, SocketInv, Paths

\* One proxy's step, when no other is up.
LEMMA Alone ==
    ASSUME SocketInv, NEW p \in Proxies, \A q \in Proxies : proxy[q].st # "off" => q = p,
           NEW v \in ProxyType, Set(p, v), file' \in Paths,
           v.st \in {"bound", "running"} => file' = v.sock /\ file' \in Inodes
    PROVE  SocketInv'
<1>1. proxy' = [proxy EXCEPT ![p] = v] /\ proxy \in [Proxies -> ProxyType]
  BY DEF Set, SocketInv
<1>2. proxy' \in [Proxies -> ProxyType] /\ proxy'[p] = v /\ \A q \in Proxies \ {p} : proxy'[q] = proxy[q]
  BY <1>1
<1> QED BY <1>2 DEF SocketInv

\* A proxy that does not start leaves the others alone.
LEMMA StaysOff ==
    ASSUME SocketInv, NEW p \in Proxies, proxy[p].st = "off", Set(p, Off), file' = file
    PROVE  SocketInv'
<1>0. Off \in ProxyType /\ Off.st = "off"
  BY DEF Off, ProxyType, SocketStates, Paths
<1> HIDE DEF Off
<1>1. proxy' = [proxy EXCEPT ![p] = Off] /\ proxy \in [Proxies -> ProxyType]
  BY DEF Set, SocketInv
<1>2. proxy' \in [Proxies -> ProxyType] /\ proxy'[p] = Off /\ \A q \in Proxies \ {p} : proxy'[q] = proxy[q]
  BY <1>0, <1>1
<1> QED BY <1>0, <1>2 DEF SocketInv

LEMMA SocketStep ==
    ASSUME ~StartsOverlap, SocketInv, [SocketNext]_socketVars
    PROVE  SocketInv'
<1>0. /\ Off \in ProxyType /\ Off.st = "off" /\ "none" \in Paths /\ "other" \in Paths
      /\ Off = [st |-> "off", sock |-> "none", seen |-> "none", owned |-> "none"]
  BY DEF Off, ProxyType, SocketStates, Paths
<1>a. ASSUME NEW st \in SocketStates, NEW s \in Paths, NEW e \in Paths, NEW o \in Paths
      PROVE  [st |-> st, sock |-> s, seen |-> e, owned |-> o] \in ProxyType
  BY DEF ProxyType
<1>b. file \in Paths /\ \A p \in Proxies : proxy[p] \in ProxyType
  BY DEF SocketInv
<1>1. CASE UNCHANGED socketVars
  BY <1>1 DEF socketVars, SocketInv
<1>2. ASSUME NEW p \in Proxies, Probe(p) PROVE SocketInv'
  <2>0. proxy[p].st = "off" /\ file' = file /\ \A q \in Proxies : ~Starting(q)
    BY <1>2 DEF Probe
  <2>1. ASSUME NEW q \in Proxies, proxy[q].st # "off", file \notin {"none", "other"} PROVE answers(file)
    <3>1. proxy[q].st = "running"
      BY <2>0, <2>1 DEF Starting
    <3> QED BY <3>1 DEF SocketInv, answers
  <2>2. ASSUME NEW q \in Proxies, proxy[q].st # "off" PROVE file \notin {"none", "other"}
    <3>1. proxy[q].st = "running"
      BY <2>0, <2>2 DEF Starting
    <3> QED BY <3>1, SocketAssumption DEF SocketInv
  <2>3. CASE file = "none"
    <3> DEFINE v == [Off EXCEPT !.st = "prepared"]
    <3>0. ~answers(file)
      BY <2>2, <2>3 DEF answers
    <3>1. Set(p, v)
      BY <1>2, <2>3, <3>0 DEF Probe
    <3>2. v \in ProxyType /\ v.st = "prepared"
      BY DEF Off, ProxyType, SocketStates, Paths
    <3> HIDE DEF v
    <3> QED BY <1>b, <2>0, <2>2, <2>3, <3>1, <3>2, Alone
  <2>4. CASE file # "none" /\ (file = "other" \/ answers(file))
    <3>1. Set(p, Off)
      BY <1>2, <2>4 DEF Probe
    <3> QED BY <2>0, <3>1, StaysOff
  <2>5. CASE file \notin {"none", "other"} /\ ~answers(file)
    <3> DEFINE v == [Off EXCEPT !.st = "probed", !.seen = file]
    <3>1. Set(p, v)
      BY <1>2, <2>5 DEF Probe
    <3>2. v \in ProxyType /\ v.st = "probed"
      BY <1>b DEF Off, ProxyType, SocketStates, Paths
    <3> HIDE DEF v
    <3> QED BY <1>b, <2>0, <2>1, <2>5, <3>1, <3>2, Alone
  <2> QED BY <2>3, <2>4, <2>5
<1>3. ASSUME NEW p \in Proxies, proxy[p].st # "off", NEW v \in ProxyType, Set(p, v), file' \in Paths,
             v.st \in {"bound", "running"} => file' = v.sock /\ file' \in Inodes
      PROVE  SocketInv'
  <2>1. \A q \in Proxies : proxy[q].st # "off" => q = p
    BY <1>3 DEF SocketInv
  <2> QED BY <1>3, <2>1, Alone
<1>4. ASSUME NEW p \in Proxies, RemoveStale(p) PROVE SocketInv'
  <2> DEFINE v == [Off EXCEPT !.st = "prepared"]
  <2>1. v \in ProxyType /\ v.st = "prepared"
    BY DEF Off, ProxyType, SocketStates, Paths
  <2>2. proxy[p].st # "off" /\ file' \in Paths /\ (Set(p, v) \/ Set(p, Off))
    BY <1>0, <1>4, <1>b DEF RemoveStale
  <2> HIDE DEF v
  <2> QED BY <1>0, <1>3, <2>1, <2>2
<1>5. ASSUME NEW p \in Proxies, NEW i \in Inodes, Bind(p, i) PROVE SocketInv'
  <2> DEFINE v == [Off EXCEPT !.st = "bound", !.sock = i]
  <2>0. proxy[p].st # "off"
    BY <1>5 DEF Bind
  <2>1. v \in ProxyType /\ v.st = "bound" /\ v.sock = i
    BY DEF Off, ProxyType, SocketStates, Paths
  <2>2. CASE file = "none"
    <3>1. file' = i /\ Set(p, v) /\ i \in Paths
      BY <1>5, <2>2 DEF Bind, Paths
    <3> HIDE DEF v
    <3> QED BY <1>3, <2>0, <2>1, <3>1
  <2>3. CASE file # "none"
    <3>1. file' = file /\ Set(p, Off)
      BY <1>5, <2>3 DEF Bind
    <3> QED BY <1>0, <1>3, <1>b, <2>0, <3>1
  <2> QED BY <2>2, <2>3
<1>6. ASSUME NEW p \in Proxies, NEW ok \in BOOLEAN, Listen(p, ok) PROVE SocketInv'
  <2>0. proxy[p].st = "bound" /\ file = proxy[p].sock /\ file \in Inodes /\ file \in Paths
    BY <1>6 DEF Listen, SocketInv
  <2>1. CASE ok
    <3> DEFINE v == [proxy[p] EXCEPT !.st = "running", !.owned = file]
    <3>1. Set(p, v) /\ file' = file
      BY <1>6, <2>0, <2>1 DEF Listen
    <3>2. proxy[p] \in ProxyType
      BY <1>b
    <3>3. v \in ProxyType /\ v.sock = proxy[p].sock
      BY <2>0, <3>2 DEF ProxyType, SocketStates
    <3> HIDE DEF v
    <3> QED BY <1>3, <2>0, <3>1, <3>3
  <2>2. CASE ~ok
    <3>1. Set(p, Off) /\ file' = "none"
      BY <1>6, <2>2 DEF Listen, closePipe
    <3> QED BY <1>0, <1>3, <2>0, <3>1
  <2> QED BY <2>1, <2>2
<1>7. ASSUME NEW p \in Proxies, StopProxy(p) PROVE SocketInv'
  <2>1. proxy[p].st # "off" /\ file' = "none" /\ Set(p, Off)
    BY <1>7 DEF StopProxy, unlinkOwned, closePipe
  <2> QED BY <1>0, <1>3, <2>1
<1>8. ASSUME NEW p \in Proxies, Crash(p) PROVE SocketInv'
  <2>1. proxy[p].st # "off" /\ file' = file /\ Set(p, Off)
    BY <1>8 DEF Crash
  <2> QED BY <1>0, <1>3, <1>b, <2>1
<1> QED BY <1>1, <1>2, <1>4, <1>5, <1>6, <1>7, <1>8 DEF SocketNext

LEMMA SocketTrue == SocketInv => PathKept
BY DEF SocketInv, PathKept

(***************************************************************************)
(* The event stream                                                        *)
(***************************************************************************)

(***************************************************************************)
(* Sizes of writes                                                         *)
(***************************************************************************)

Sums(f, ws) == f \in [0..Len(ws) -> Nat] /\ f[0] = 0 /\ \A k \in 1..Len(ws) : f[k] = f[k - 1] + ws[k]

LEMMA TotalSums ==
    ASSUME NEW ws \in Seq(Nat)
    PROVE  \E f : Sums(f, ws) /\ Total(ws) = f[Len(ws)]
<1> DEFINE n == Len(ws)
<1> DEFINE sum[k \in 0..n] == IF k = 0 THEN 0 ELSE sum[k - 1] + ws[k]
<1>0. n \in Nat
  OBVIOUS
<1> DEFINE g == [k \in 1..n |-> [x \in Nat |-> x + ws[k]]]
<1>1. g \in [1..n -> [Nat -> Nat]]
  OBVIOUS
<1>2. PICK f \in [0..n -> Nat] : f[0] = 0 /\ \A k \in 1..n : f[k] = g[k][f[k - 1]]
  <2> HIDE DEF g, n
  <2>1. 0 \in Nat
    OBVIOUS
  <2>2. \E f : Stepwise(f, n, Nat, 0, g)
    BY <1>0, <1>1, <2>1, StepwiseExists
  <2> QED BY <2>2 DEF Stepwise
<1>3. \A k \in 1..n : f[k] = f[k - 1] + ws[k]
  <2>1. ASSUME NEW k \in 1..n PROVE f[k] = f[k - 1] + ws[k]
    <3>1. k - 1 \in 0..n
      BY <1>0
    <3>2. f[k - 1] \in Nat
      BY <3>1
    <3> QED BY <1>2, <3>2
  <2> QED BY <2>1
<1>4. f = [k \in 0..n |-> IF k = 0 THEN 0 ELSE f[k - 1] + ws[k]]
  BY <1>2, <1>3
<1>5. sum = [k \in 0..n |-> IF k = 0 THEN 0 ELSE sum[k - 1] + ws[k]]
  BY <1>4
<1>6. Total(ws) = sum[n]
  BY DEF Total
<1> HIDE DEF sum, g
<1>7. \A k \in 0..n : sum[k] = f[k]
  <2> DEFINE S == {k \in 0..n : sum[k] = f[k]}
  <2>1. 0 \in S
    BY <1>2, <1>5
  <2>2. ASSUME NEW k \in 1..n, k - 1 \in S PROVE k \in S
    <3>1. k \in 0..n /\ k # 0 /\ sum[k - 1] = f[k - 1]
      BY <1>0, <2>2
    <3>2. sum[k] = sum[k - 1] + ws[k]
      BY <1>5, <3>1
    <3> QED BY <1>3, <3>1, <3>2
  <2> HIDE DEF S
  <2>3. \A k \in 0..n : k \in S
    BY <1>0, <2>1, <2>2, UpTo
  <2> QED BY <2>3 DEF S
<1> QED BY <1>0, <1>2, <1>3, <1>6, <1>7 DEF Sums

LEMMA TotalNat == ASSUME NEW ws \in Seq(Nat) PROVE Total(ws) \in Nat
<1>1. PICK f : Sums(f, ws) /\ Total(ws) = f[Len(ws)]
  BY TotalSums
<1> QED BY <1>1 DEF Sums

LEMMA TotalEmpty == Total(<<>>) = 0
<1>1. <<>> \in Seq(Nat) /\ Len(<<>>) = 0
  OBVIOUS
<1>2. PICK f : Sums(f, <<>>) /\ Total(<<>>) = f[Len(<<>>)]
  BY <1>1, TotalSums
<1> QED BY <1>1, <1>2 DEF Sums

LEMMA TotalAppend ==
    ASSUME NEW ws \in Seq(Nat), NEW x \in Nat
    PROVE  Append(ws, x) \in Seq(Nat) /\ Total(Append(ws, x)) = Total(ws) + x
<1> DEFINE n == Len(ws)
<1> DEFINE vs == Append(ws, x)
<1>0. vs \in Seq(Nat) /\ Len(vs) = n + 1 /\ n \in Nat /\ vs[n + 1] = x /\ \A k \in 1..n : vs[k] = ws[k]
  OBVIOUS
<1> HIDE DEF vs
<1>1. PICK f : Sums(f, ws) /\ Total(ws) = f[Len(ws)]
  BY TotalSums
<1>2. PICK h : Sums(h, vs) /\ Total(vs) = h[Len(vs)]
  BY <1>0, TotalSums
<1> DEFINE S == {k \in 0..n : h[k] = f[k]}
<1>3. 0 \in S
  BY <1>0, <1>1, <1>2 DEF Sums
<1>4. ASSUME NEW k \in 1..n, k - 1 \in S PROVE k \in S
  <2>1. h[k] = h[k - 1] + vs[k] /\ f[k] = f[k - 1] + ws[k] /\ vs[k] = ws[k]
    BY <1>0, <1>1, <1>2 DEF Sums
  <2> QED BY <1>4, <2>1
<1> HIDE DEF S
<1>5. \A k \in 0..n : k \in S
  BY <1>0, <1>3, <1>4, UpTo
<1>6. h[n] = f[n]
  BY <1>0, <1>5 DEF S
<1>7. h[n + 1] = h[n] + x
  <2>1. \A k \in 1..(n + 1) : h[k] = h[k - 1] + vs[k]
    BY <1>0, <1>2 DEF Sums
  <2>2. n + 1 \in 1..(n + 1) /\ (n + 1) - 1 = n
    BY <1>0
  <2> HIDE DEF n
  <2>3. h[n + 1] = h[(n + 1) - 1] + vs[n + 1]
    BY <2>1, <2>2
  <2> QED BY <1>0, <2>2, <2>3
<1> QED BY <1>0, <1>1, <1>2, <1>6, <1>7 DEF vs

LEMMA TotalTail ==
    ASSUME NEW ws \in Seq(Nat), ws # <<>>
    PROVE  /\ Tail(ws) \in Seq(Nat) /\ Head(ws) \in Nat
           /\ Total(Tail(ws)) = Total(ws) - Head(ws)
<1> DEFINE n == Len(ws) - 1
<1> DEFINE vs == Tail(ws)
<1>0. /\ vs \in Seq(Nat) /\ Len(vs) = n /\ n \in Nat /\ Len(ws) = n + 1 /\ Head(ws) = ws[1]
      /\ \A k \in 1..n : vs[k] = ws[k + 1]
      /\ \A k \in 1..(n + 1) : ws[k] \in Nat
  OBVIOUS
<1> HIDE DEF vs, n
<1>1. PICK f : Sums(f, ws) /\ Total(ws) = f[Len(ws)]
  BY TotalSums
<1>2. PICK h : Sums(h, vs) /\ Total(vs) = h[Len(vs)]
  BY <1>0, TotalSums
<1>a. f[0] = 0 /\ h[0] = 0 /\ f \in [0..(n + 1) -> Nat] /\ h \in [0..n -> Nat]
  BY <1>0, <1>1, <1>2 DEF Sums
<1> DEFINE S == {k \in 0..n : f[k + 1] = h[k] + ws[1]}
<1>3. 0 \in S
  <2>1. f[1] = f[1 - 1] + ws[1] /\ ws[1] \in Nat
    BY <1>0, <1>1 DEF Sums
  <2> QED BY <1>0, <1>a, <2>1
<1>4. ASSUME NEW k \in 1..n, k - 1 \in S PROVE k \in S
  <2>0. k \in Nat /\ k + 1 \in 1..(n + 1) /\ (k + 1) - 1 = k /\ (k - 1) + 1 = k
    BY <1>0
  <2>1. h[k] = h[k - 1] + vs[k] /\ vs[k] = ws[k + 1]
    BY <1>0, <1>2 DEF Sums
  <2>2. f[k + 1] = f[k] + ws[k + 1]
    <3>1. f[k + 1] = f[(k + 1) - 1] + ws[k + 1]
      BY <1>0, <1>1, <2>0 DEF Sums
    <3> QED BY <2>0, <3>1
  <2>3. f[k] = h[k - 1] + ws[1]
    BY <1>4, <2>0
  <2>4. h[k - 1] \in Nat /\ ws[1] \in Nat /\ ws[k + 1] \in Nat
    BY <1>0, <1>a, <2>0
  <2>5. f[k + 1] = (h[k - 1] + ws[1]) + ws[k + 1] /\ h[k] = h[k - 1] + ws[k + 1]
    BY <2>1, <2>2, <2>3
  <2>6. \A a, b, c \in Nat : (a + b) + c = (a + c) + b
    OBVIOUS
  <2>7. f[k + 1] = h[k] + ws[1]
    BY <2>4, <2>5, <2>6
  <2> QED BY <1>0, <2>7
<1> HIDE DEF S
<1>5. \A k \in 0..n : k \in S
  BY <1>0, <1>3, <1>4, UpTo
<1>6. f[n + 1] = h[n] + ws[1]
  BY <1>0, <1>5 DEF S
<1>7. h[n] \in Nat /\ ws[1] \in Nat
  BY <1>0, <1>a
<1> QED BY <1>0, <1>1, <1>2, <1>6, <1>7 DEF vs

(***************************************************************************)
(* Clients and the rows they are written                                   *)
(***************************************************************************)

LiveEvents == {"header", "connected", "job", "login", "disconnected", "other"}
LogRows == [event : LiveEvents, miner : LMiners \cup {None}]
LiveRows == [event : LiveEvents, miner : LMiners \cup {None}, size : Nat]
ClientType == [st : {"free", "open", "closing"}, pending : Int, writes : Seq(Nat), since : Nat, rows : Seq(Nat)]

\* The numbers from since on.
Since(since, n) == [i \in 1..(n - since) |-> since + i]

\* A client when n rows are numbered.
ClientOK(s, n) ==
    /\ s \in ClientType
    /\ s.pending = Total(s.writes)
    /\ s.st = "open" => s.since <= n /\ s.rows = Since(s.since, n) /\ s.pending <= MaxPending

StreamOK(w) ==
    /\ w \in [log : Seq(LogRows), clients : SUBSET Subscribers, subs : [Subscribers -> ClientType]]
    /\ IsFiniteSet(w.clients) /\ Cardinality(w.clients) <= MaxClients
    /\ \A c \in Subscribers : ClientOK(w.subs[c], Len(w.log)) /\ (w.subs[c].st = "open" <=> c \in w.clients)

\* Fields of a client that is changed, of any types.
IsClient(s) == \E A, B, C, D, E : s \in [st : A, pending : B, writes : C, since : D, rows : E]

Fields == {"st", "pending", "writes", "since", "rows"}
Made(a, b, c, d, e) == [st |-> a, pending |-> b, writes |-> c, since |-> d, rows |-> e]

LEMMA MadeOf ==
    ASSUME NEW s, s = [f \in Fields |-> s[f]]
    PROVE  s = Made(s.st, s.pending, s.writes, s.since, s.rows)
BY DEF Fields, Made

LEMMA ClientMade == ASSUME NEW s, IsClient(s) PROVE DOMAIN s = Fields /\ s = [f \in Fields |-> s[f]]
BY DEF IsClient, Fields

LEMMA OpenedFields ==
    ASSUME NEW s, IsClient(s), NEW x, NEW y
    PROVE  [s EXCEPT !.st = x, !.since = y] = Made(x, s.pending, s.writes, y, s.rows)
<1> DEFINE t == [s EXCEPT !.st = x, !.since = y]
<1>1. t = [f \in Fields |-> t[f]]
  BY ClientMade
<1>2. t.st = x /\ t.pending = s.pending /\ t.writes = s.writes /\ t.since = y /\ t.rows = s.rows
  BY ClientMade DEF Fields
<1> HIDE DEF t
<1>3. t = Made(t.st, t.pending, t.writes, t.since, t.rows)
  BY <1>1, MadeOf
<1> QED BY <1>2, <1>3 DEF t

LEMMA PendingFields ==
    ASSUME NEW s, IsClient(s), NEW x, NEW y
    PROVE  [s EXCEPT !.pending = x, !.writes = y] = Made(s.st, x, y, s.since, s.rows)
<1> DEFINE t == [s EXCEPT !.pending = x, !.writes = y]
<1>1. t = [f \in Fields |-> t[f]]
  BY ClientMade
<1>2. t.st = s.st /\ t.pending = x /\ t.writes = y /\ t.since = s.since /\ t.rows = s.rows
  BY ClientMade DEF Fields
<1> HIDE DEF t
<1>3. t = Made(t.st, t.pending, t.writes, t.since, t.rows)
  BY <1>1, MadeOf
<1> QED BY <1>2, <1>3 DEF t

LEMMA NewClientOK ==
    ASSUME NEW n \in Nat
    PROVE  /\ NewClient \in ClientType /\ ClientOK(NewClient, n) /\ NewClient.st = "free"
           /\ [NewClient EXCEPT !.st = "open", !.since = n] \in ClientType
           /\ ClientOK([NewClient EXCEPT !.st = "open", !.since = n], n)
           /\ [NewClient EXCEPT !.st = "open", !.since = n].st = "open"
<1> DEFINE s == [NewClient EXCEPT !.st = "open", !.since = n]
<1>0. NewClient = [st |-> "free", pending |-> 0, writes |-> <<>>, since |-> 0, rows |-> <<>>]
  BY DEF NewClient
<1>2. <<>> \in Seq(Nat)
  OBVIOUS
<1>a. NewClient \in ClientType
  BY <1>0, <1>2 DEF ClientType
<1>b. IsClient(NewClient)
  BY <1>a DEF IsClient, ClientType
<1>1. s = [st |-> "open", pending |-> 0, writes |-> <<>>, since |-> n, rows |-> <<>>]
  <2>1. s = Made("open", NewClient.pending, NewClient.writes, n, NewClient.rows)
    BY <1>b, OpenedFields
  <2> HIDE DEF s
  <2> QED BY <1>0, <2>1 DEF Made
<1> HIDE DEF s
<1>3. Since(n, n) = <<>>
  BY DEF Since
<1>4. NewClient \in ClientType /\ s \in ClientType
  BY <1>0, <1>1, <1>2 DEF ClientType
<1>5. 0 <= MaxPending
  BY LiveAssumption
<1>6. ClientOK(NewClient, n)
  BY <1>0, <1>4, TotalEmpty DEF ClientOK
<1>7. ClientOK(s, n)
  <2>1. s.since <= n /\ s.rows = Since(s.since, n) /\ s.pending <= MaxPending /\ s.pending = Total(s.writes)
    BY <1>1, <1>3, <1>5, TotalEmpty
  <2> QED BY <1>4, <2>1 DEF ClientOK
<1> QED BY <1>0, <1>1, <1>4, <1>6, <1>7 DEF s

\* A client that is not open is no worse for one more row.
LEMMA NotOpenOK ==
    ASSUME NEW s, NEW n \in Nat, NEW k \in Nat, ClientOK(s, n), s.st # "open"
    PROVE  ClientOK(s, k)
BY DEF ClientOK

LEMMA ClosedOK ==
    ASSUME NEW s, NEW n \in Nat, NEW k \in Nat, ClientOK(s, n)
    PROVE  ClientOK(closeClient(s), k) /\ closeClient(s).st # "open"
<1>1. CASE s.st = "open"
  <2> DEFINE d == [s EXCEPT !.st = "closing", !.since = 0, !.rows = <<>>]
  <2>1. s \in ClientType /\ s.pending = Total(s.writes)
    BY DEF ClientOK
  <2>0. IsClient(s)
    BY <2>1 DEF IsClient, ClientType
  <2>2. d \in ClientType /\ d.st = "closing" /\ d.pending = s.pending /\ d.writes = s.writes
    <3>1. <<>> \in Seq(Nat)
      OBVIOUS
    <3>2. d = Made("closing", s.pending, s.writes, 0, <<>>)
      <4>1. d = [f \in Fields |-> d[f]]
        BY <2>0, ClientMade
      <4>2. d.st = "closing" /\ d.pending = s.pending /\ d.writes = s.writes /\ d.since = 0 /\ d.rows = <<>>
        BY <2>0, ClientMade DEF Fields
      <4> HIDE DEF d
      <4> QED BY <4>1, <4>2, MadeOf
    <3>3. s.pending \in Int /\ s.writes \in Seq(Nat)
      BY <2>1 DEF ClientType
    <3> HIDE DEF d
    <3> QED BY <3>1, <3>2, <3>3 DEF ClientType, Made
  <2>3. closeClient(s) = d
    BY <1>1 DEF closeClient
  <2> HIDE DEF d
  <2> QED BY <2>1, <2>2, <2>3 DEF ClientOK
<1>2. CASE s.st # "open"
  <2>1. closeClient(s) = s
    BY <1>2 DEF closeClient
  <2> QED BY <1>2, <2>1, NotOpenOK
<1> QED BY <1>1, <1>2

\* The next number goes behind those that were written.
LEMMA SinceNext ==
    ASSUME NEW a \in Nat, NEW n \in Nat, a <= n
    PROVE  /\ Since(a, n) \in Seq(Nat) /\ Append(Since(a, n), n + 1) = Since(a, n + 1)
           /\ a <= n + 1
<1> DEFINE f == Since(a, n)
<1>1. f \in Seq(Nat) /\ Len(f) = n - a /\ \A i \in 1..(n - a) : f[i] = a + i
  BY DEF Since
<1> DEFINE g == Append(f, n + 1)
<1> HIDE DEF f
<1>2. g \in Seq(Nat) /\ Len(g) = (n - a) + 1 /\ (\A i \in 1..(n - a) : g[i] = f[i]) /\ g[(n - a) + 1] = n + 1
  BY <1>1
<1>3. \A i \in 1..((n + 1) - a) : g[i] = a + i
  <2>1. ASSUME NEW i \in 1..((n + 1) - a) PROVE g[i] = a + i
    <3>1. CASE i \in 1..(n - a)
      BY <1>1, <1>2, <3>1
    <3>2. CASE i = (n - a) + 1
      <4>1. g[i] = n + 1 /\ a + i = n + 1
        BY <1>2, <3>2
      <4> QED BY <4>1
    <3>3. i \in 1..(n - a) \/ i = (n - a) + 1
      OBVIOUS
    <3> QED BY <3>1, <3>2, <3>3
  <2> QED BY <2>1
<1>4. g = [i \in 1..((n + 1) - a) |-> a + i]
  <2>1. DOMAIN g = 1..((n + 1) - a) /\ g = [i \in DOMAIN g |-> g[i]]
    BY <1>2
  <2> HIDE DEF g
  <2> QED BY <1>3, <2>1
<1> QED BY <1>1, <1>4 DEF Since, f

\* A row that fits, with the next number or without one.
LEMMA QueuedOK ==
    ASSUME NEW s, NEW n \in Nat, NEW row \in LiveRows, ClientOK(s, n), s.st = "open",
           s.pending + row.size <= MaxPending
    PROVE  /\ ClientOK(Queued(s, row, n + 1), n + 1) /\ Queued(s, row, n + 1).st = "open"
           /\ ClientOK(Queued(s, row, 0), n) /\ Queued(s, row, 0).st = "open"
<1>0. /\ s \in ClientType /\ row.size \in Nat /\ s.pending = Total(s.writes) /\ s.writes \in Seq(Nat)
      /\ s.since \in Nat /\ s.since <= n /\ s.rows = Since(s.since, n) /\ s.pending \in Int /\ n + 1 # 0
  BY DEF ClientOK, ClientType, LiveRows
<1>a. IsClient(s)
  BY <1>0 DEF IsClient, ClientType
<1>1. Append(s.writes, row.size) \in Seq(Nat) /\ Total(Append(s.writes, row.size)) = s.pending + row.size
  BY <1>0, TotalAppend
<1>2. /\ Append(s.rows, n + 1) = Since(s.since, n + 1) /\ Since(s.since, n + 1) \in Seq(Nat)
      /\ s.rows \in Seq(Nat) /\ s.since <= n + 1
  <2>1. Append(Since(s.since, n), n + 1) = Since(s.since, n + 1) /\ Since(s.since, n) \in Seq(Nat) /\ s.since <= n + 1
    BY <1>0, SinceNext
  <2>2. Since(s.since, n + 1) \in Seq(Nat)
    <3>1. n + 1 \in Nat /\ s.since \in Nat /\ s.since <= n + 1
      BY <1>0, <2>1
    <3> QED BY <3>1, SinceNext
  <2> QED BY <1>0, <2>1, <2>2
<1> DEFINE ws == Append(s.writes, row.size)
<1> DEFINE rs == Append(s.rows, n + 1)
<1> DEFINE v == [s EXCEPT !.pending = s.pending + row.size, !.writes = ws, !.rows = rs]
<1> DEFINE u == [s EXCEPT !.pending = s.pending + row.size, !.writes = ws]
<1>3. Queued(s, row, n + 1) = v
  BY <1>0 DEF Queued
<1>4. Queued(s, row, 0) = u
  <2>1. [s EXCEPT !.pending = s.pending + row.size, !.writes = ws, !.rows = s.rows] = u
    <3> DEFINE t == [s EXCEPT !.pending = s.pending + row.size, !.writes = ws, !.rows = s.rows]
    <3>1. t = [f \in Fields |-> t[f]]
      BY <1>a, ClientMade
    <3>2. t.st = s.st /\ t.pending = s.pending + row.size /\ t.writes = ws /\ t.since = s.since /\ t.rows = s.rows
      BY <1>a, ClientMade DEF Fields
    <3>3. u = Made(s.st, s.pending + row.size, ws, s.since, s.rows)
      BY <1>a, PendingFields
    <3> HIDE DEF t, u
    <3>4. t = Made(s.st, s.pending + row.size, ws, s.since, s.rows)
      BY <3>1, <3>2, MadeOf
    <3> QED BY <3>3, <3>4 DEF t
  <2> QED BY <2>1 DEF Queued
<1> HIDE DEF ws, rs
<1>5. ws \in Seq(Nat) /\ rs \in Seq(Nat) /\ Total(ws) = s.pending + row.size
  BY <1>1, <1>2 DEF ws, rs
<1>6. /\ v \in ClientType /\ v.st = "open" /\ v.pending = s.pending + row.size /\ v.writes = ws /\ v.rows = rs
      /\ v.since = s.since
  <2>1. v = Made(s.st, s.pending + row.size, ws, s.since, rs)
    <3>1. v = [f \in Fields |-> v[f]]
      BY <1>a, ClientMade
    <3>2. v.st = s.st /\ v.pending = s.pending + row.size /\ v.writes = ws /\ v.since = s.since /\ v.rows = rs
      BY <1>a, ClientMade DEF Fields
    <3> HIDE DEF v
    <3> QED BY <3>1, <3>2, MadeOf
  <2>2. s.pending + row.size \in Int /\ s.rows \in Seq(Nat)
    BY <1>0, <1>2
  <2> HIDE DEF v, u
  <2> QED BY <1>0, <1>5, <2>1, <2>2 DEF ClientType, Made
<1>7. /\ u \in ClientType /\ u.st = "open" /\ u.pending = s.pending + row.size /\ u.writes = ws /\ u.rows = s.rows
      /\ u.since = s.since
  <2>1. u = Made(s.st, s.pending + row.size, ws, s.since, s.rows)
    BY <1>a, PendingFields
  <2>2. s.pending + row.size \in Int /\ s.rows \in Seq(Nat)
    BY <1>0, <1>2
  <2> HIDE DEF v, u
  <2> QED BY <1>0, <1>5, <2>1, <2>2 DEF ClientType, Made
<1> HIDE DEF u, v
<1>8. ClientOK(v, n + 1)
  BY <1>2, <1>5, <1>6 DEF ClientOK, rs
<1>9. ClientOK(u, n)
  BY <1>0, <1>5, <1>7 DEF ClientOK
<1> QED BY <1>3, <1>4, <1>6, <1>7, <1>8, <1>9

\* A client is written the next row, or closed.
LEMMA WriteOK ==
    ASSUME NEW s, NEW n \in Nat, NEW row \in LiveRows, ClientOK(s, n), NEW ok
    PROVE  ClientOK(write(s, row, n + 1, ok), n + 1) /\ ClientOK(write(s, row, 0, ok), n)
<1>0. n + 1 \in Nat /\ row.size \in Int /\ s.pending \in Int
  BY DEF LiveRows, ClientOK, ClientType
<1>1. CASE s.st # "open" \/ ~ok \/ s.pending + row.size > MaxPending
  BY <1>0, <1>1, ClosedOK DEF write
<1>2. CASE ~(s.st # "open" \/ ~ok \/ s.pending + row.size > MaxPending)
  <2>1. s.st = "open" /\ s.pending + row.size <= MaxPending
    BY <1>0, <1>2, LiveAssumption
  <2>2. write(s, row, n + 1, ok) = Queued(s, row, n + 1) /\ write(s, row, 0, ok) = Queued(s, row, 0)
    BY <1>2 DEF write
  <2> QED BY <2>1, <2>2, QueuedOK
<1> QED BY <1>1, <1>2

ToldRow(row) == [event |-> row.event, miner |-> row.miner]

LEMMA BroadcastOK ==
    ASSUME NEW w, StreamOK(w), NEW row \in LiveRows, NEW broken
    PROVE  /\ StreamOK(broadcast(w, row, broken))
           /\ broadcast(w, row, broken).log = Append(w.log, ToldRow(row))
<1> DEFINE n == Len(w.log)
<1> DEFINE now == [c \in Subscribers |->
                     IF c \in w.clients THEN write(w.subs[c], row, n + 1, c \notin broken) ELSE w.subs[c]]
<1> DEFINE log1 == Append(w.log, ToldRow(row))
<1> DEFINE clients1 == {c \in w.clients : now[c].st = "open"}
<1>0. /\ w.log \in Seq(LogRows) /\ n \in Nat /\ w.clients \in SUBSET Subscribers
      /\ w.subs \in [Subscribers -> ClientType]
  BY DEF StreamOK
<1>1. broadcast(w, row, broken) = [log |-> log1, clients |-> clients1, subs |-> now]
  BY DEF broadcast, ToldRow
<1>2. log1 \in Seq(LogRows) /\ Len(log1) = n + 1
  <2>1. ToldRow(row) \in LogRows
    BY DEF ToldRow, LiveRows, LogRows
  <2> QED BY <1>0, <2>1
<1>3. ASSUME NEW c \in Subscribers
      PROVE  ClientOK(now[c], n + 1) /\ (now[c].st = "open" <=> c \in clients1)
  <2>0. ClientOK(w.subs[c], n) /\ (w.subs[c].st = "open" <=> c \in w.clients)
    BY DEF StreamOK
  <2>1. CASE c \in w.clients
    <3>1. now[c] = write(w.subs[c], row, n + 1, c \notin broken)
      BY <2>1
    <3>2. ClientOK(write(w.subs[c], row, n + 1, c \notin broken), n + 1)
      BY <1>0, <2>0, WriteOK
    <3>3. ClientOK(now[c], n + 1)
      BY <3>1, <3>2
    <3> HIDE DEF now
    <3> QED BY <2>1, <3>3
  <2>2. CASE c \notin w.clients
    <3>1. now[c] = w.subs[c]
      BY <2>2
    <3>2. ClientOK(w.subs[c], n + 1)
      BY <1>0, <2>0, <2>2, NotOpenOK
    <3>3. ClientOK(now[c], n + 1)
      BY <3>1, <3>2
    <3> HIDE DEF now
    <3> QED BY <2>0, <2>2, <3>1, <3>3
  <2> QED BY <2>1, <2>2
<1>4. now \in [Subscribers -> ClientType]
  <2>1. ASSUME NEW c \in Subscribers PROVE now[c] \in ClientType
    BY <1>3 DEF ClientOK
  <2>2. now = [c \in Subscribers |-> now[c]]
    OBVIOUS
  <2> HIDE DEF now
  <2> QED BY <2>1, <2>2
<1> HIDE DEF now, log1
<1>5. clients1 \in SUBSET Subscribers /\ IsFiniteSet(clients1) /\ Cardinality(clients1) <= MaxClients
  <2>1. IsFiniteSet(w.clients) /\ Cardinality(w.clients) <= MaxClients /\ clients1 \subseteq w.clients
    BY DEF StreamOK
  <2>2. IsFiniteSet(clients1) /\ Cardinality(clients1) <= Cardinality(w.clients)
    BY <2>1, FS_Subset
  <2>3. Cardinality(clients1) \in Nat /\ Cardinality(w.clients) \in Nat /\ MaxClients \in Nat
    BY <2>1, <2>2, FS_CardinalityType, LiveAssumption
  <2>4. Cardinality(clients1) <= MaxClients
    BY <2>1, <2>2, <2>3
  <2> QED BY <1>0, <2>1, <2>2, <2>4
<1> HIDE DEF clients1
<1> DEFINE o == [log |-> log1, clients |-> clients1, subs |-> now]
<1>6. o.log = log1 /\ o.clients = clients1 /\ o.subs = now
  OBVIOUS
<1>7. o \in [log : Seq(LogRows), clients : SUBSET Subscribers, subs : [Subscribers -> ClientType]]
  BY <1>2, <1>4, <1>5
<1> HIDE DEF o
<1>8. StreamOK(o)
  BY <1>2, <1>3, <1>5, <1>6, <1>7 DEF StreamOK, clients1
<1> QED BY <1>1, <1>6, <1>8 DEF o, log1

\* Rows one after the other, each numbered by its place.
LEMMA BroadcastAllOK ==
    ASSUME NEW w, StreamOK(w), NEW rows \in Seq(LiveRows), NEW broken
    PROVE  LET o == broadcastAll(w, rows, broken)
           IN  /\ StreamOK(o) /\ Len(o.log) = Len(w.log) + Len(rows)
               /\ \A i \in 1..Len(w.log) : o.log[i] = w.log[i]
               /\ \A i \in 1..Len(rows) : o.log[Len(w.log) + i] = ToldRow(rows[i])
<1> DEFINE n == Len(rows)
<1> DEFINE after[k \in 0..n] == IF k = 0 THEN w ELSE broadcast(after[k - 1], rows[k], broken)
<1> DEFINE Good == {v \in [log : Seq(LogRows), clients : SUBSET Subscribers, subs : [Subscribers -> ClientType]] :
                      StreamOK(v)}
<1> DEFINE g == [k \in 1..n |-> [v \in Good |-> broadcast(v, rows[k], broken)]]
<1>0. n \in Nat /\ w \in Good /\ w.log \in Seq(LogRows) /\ Len(w.log) \in Nat /\ \A k \in 1..n : rows[k] \in LiveRows
  BY DEF StreamOK
<1>1. g \in [1..n -> [Good -> Good]]
  <2>1. ASSUME NEW k \in 1..n, NEW v \in Good PROVE broadcast(v, rows[k], broken) \in Good
    <3>1. StreamOK(broadcast(v, rows[k], broken))
      BY <1>0, BroadcastOK
    <3> QED BY <3>1 DEF StreamOK
  <2> HIDE DEF Good, n
  <2> QED BY <2>1
<1>2. PICK f \in [0..n -> Good] : f[0] = w /\ \A k \in 1..n : f[k] = g[k][f[k - 1]]
  <2> HIDE DEF g, n, Good
  <2>1. \E f : Stepwise(f, n, Good, w, g)
    BY <1>0, <1>1, StepwiseExists
  <2> QED BY <2>1 DEF Stepwise
<1>3. ASSUME NEW k \in 1..n PROVE k - 1 \in 0..n /\ f[k - 1] \in Good /\ f[k] = broadcast(f[k - 1], rows[k], broken)
  <2>1. k - 1 \in 0..n
    BY <1>0
  <2>2. f[k - 1] \in Good
    <3> HIDE DEF Good
    <3> QED BY <2>1
  <2>3. f[k] = g[k][f[k - 1]]
    BY <1>2
  <2>4. g[k][f[k - 1]] = broadcast(f[k - 1], rows[k], broken)
    <3> HIDE DEF Good
    <3> QED BY <2>2
  <2> QED BY <2>1, <2>2, <2>3, <2>4
<1>4. f = [k \in 0..n |-> IF k = 0 THEN w ELSE broadcast(f[k - 1], rows[k], broken)]
  <2> HIDE DEF g, Good, n
  <2> QED BY <1>0, <1>2, <1>3
<1>5. after = [k \in 0..n |-> IF k = 0 THEN w ELSE broadcast(after[k - 1], rows[k], broken)]
  BY <1>4
<1>6. broadcastAll(w, rows, broken) = after[n]
  BY DEF broadcastAll
<1> HIDE DEF after, g
<1>7. \A k \in 0..n : after[k] = f[k]
  <2> DEFINE S == {k \in 0..n : after[k] = f[k]}
  <2> HIDE DEF n, Good
  <2>1. 0 \in S
    <3>1. 0 \in 0..n
      BY <1>0
    <3> QED BY <1>2, <1>5, <3>1
  <2>2. ASSUME NEW k \in 1..n, k - 1 \in S PROVE k \in S
    <3>1. k \in 0..n /\ k # 0 /\ after[k - 1] = f[k - 1]
      BY <1>0, <2>2
    <3>2. after[k] = broadcast(after[k - 1], rows[k], broken)
      BY <1>5, <3>1
    <3> QED BY <1>3, <3>1, <3>2
  <2> HIDE DEF S
  <2>3. \A k \in 0..n : k \in S
    BY <1>0, <2>1, <2>2, UpTo
  <2> QED BY <2>3 DEF S
<1> DEFINE m == Len(w.log)
<1> DEFINE Holds(k) ==
        /\ Len(f[k].log) = m + k
        /\ \A i \in 1..m : f[k].log[i] = w.log[i]
        /\ \A i \in 1..k : f[k].log[m + i] = ToldRow(rows[i])
<1> DEFINE T == {k \in 0..n : Holds(k)}
<1>8. 0 \in T
  BY <1>0, <1>2
<1>9. ASSUME NEW k \in 1..n, k - 1 \in T PROVE k \in T
  <2>1. StreamOK(f[k - 1]) /\ rows[k] \in LiveRows /\ f[k] = broadcast(f[k - 1], rows[k], broken)
    BY <1>0, <1>3
  <2>2. f[k].log = Append(f[k - 1].log, ToldRow(rows[k])) /\ f[k - 1].log \in Seq(LogRows)
    <3>1. broadcast(f[k - 1], rows[k], broken).log = Append(f[k - 1].log, ToldRow(rows[k]))
      BY <2>1, BroadcastOK
    <3> QED BY <2>1, <3>1 DEF StreamOK
  <2> DEFINE a == f[k - 1].log
  <2> DEFINE b == f[k].log
  <2> DEFINE x == ToldRow(rows[k])
  <2>3. /\ Len(a) = m + (k - 1) /\ (\A i \in 1..m : a[i] = w.log[i])
        /\ \A i \in 1..(k - 1) : a[m + i] = ToldRow(rows[i])
    BY <1>9
  <2>4. k \in Nat /\ k \in 0..n /\ m \in Nat
    BY <1>0
  <2> HIDE DEF a, b, x, m
  <2>5. b = Append(a, x) /\ a \in Seq(LogRows)
    BY <2>2 DEF a, b, x
  <2>6. Len(b) = m + k /\ (\A i \in 1..(m + (k - 1)) : b[i] = a[i]) /\ b[m + k] = x
    <3>1. Len(b) = Len(a) + 1 /\ (\A i \in 1..Len(a) : b[i] = a[i]) /\ b[Len(a) + 1] = x
      BY <2>5
    <3>2. (m + (k - 1)) + 1 = m + k
      BY <2>4
    <3> QED BY <2>3, <3>1, <3>2
  <2>7. \A i \in 1..m : b[i] = w.log[i]
    BY <2>3, <2>4, <2>6
  <2>8. ASSUME NEW i \in 1..k PROVE b[m + i] = ToldRow(rows[i])
    <3>1. CASE i = k
      BY <2>6, <3>1 DEF x
    <3>2. CASE i # k
      <4>1. i \in 1..(k - 1) /\ m + i \in 1..(m + (k - 1))
        BY <2>4, <3>2
      <4> QED BY <2>3, <2>6, <4>1
    <3> QED BY <3>1, <3>2
  <2> QED BY <2>4, <2>6, <2>7, <2>8 DEF b, m
<1> HIDE DEF T
<1>10. \A k \in 0..n : k \in T
  <2> HIDE DEF n
  <2> QED BY <1>0, <1>8, <1>9, UpTo
<1>11. n \in 0..n
  BY <1>0
<1>12. Holds(n)
  BY <1>10, <1>11 DEF T
<1>13. StreamOK(f[n]) /\ broadcastAll(w, rows, broken) = f[n]
  <2>1. f[n] \in Good
    <3> HIDE DEF Good, n
    <3> QED BY <1>11
  <2> QED BY <1>6, <1>7, <1>11, <2>1
<1> QED BY <1>12, <1>13

(***************************************************************************)
(* Miners and the order of their rows                                      *)
(***************************************************************************)

MinerStates == {"new", "connected", "logged", "refused", "gone"}
JobsOf(m) == {r \in LiveRows : r.event = "job" /\ r.miner = m}

\* Rows are held back until the login is told, and none is told before.
MinerOK(m) ==
    /\ \A i \in JobRows(m) : \E j \in LoginRows(m) : j < i
    /\ m \in DOMAIN early =>
         miner[m].st = "connected" /\ early[m] \in Seq(JobsOf(m)) /\ Len(early[m]) = miner[m].jobs
    /\ miner[m].st = "new" => miner[m].jobs = 0
    /\ miner[m].st = "connected" /\ running => m \in DOMAIN early
    /\ miner[m].st \in {"new", "connected", "refused"} => JobRows(m) = {}
    /\ miner[m].st = "logged" => Cardinality(JobRows(m)) = miner[m].jobs /\ LoginRows(m) # {}

LiveInv ==
    /\ running \in BOOLEAN /\ StreamOK(Stream)
    /\ miner \in [LMiners -> [st : MinerStates, jobs : Nat]]
    /\ DOMAIN early \subseteq LMiners
    /\ \A m \in LMiners : MinerOK(m)

LEMMA StreamParts ==
    ASSUME StreamOK(Stream)
    PROVE  /\ log \in Seq(LogRows) /\ Len(log) \in Nat /\ clients \in SUBSET Subscribers
           /\ subs \in [Subscribers -> ClientType]
           /\ IsFiniteSet(clients) /\ Cardinality(clients) <= MaxClients /\ Cardinality(clients) \in Nat
           /\ \A c \in Subscribers : ClientOK(subs[c], Len(log)) /\ (subs[c].st = "open" <=> c \in clients)
<1>1. Stream.log = log /\ Stream.clients = clients /\ Stream.subs = subs
  BY DEF Stream
<1>2. log \in Seq(LogRows) /\ clients \in SUBSET Subscribers /\ subs \in [Subscribers -> ClientType]
  BY <1>1 DEF StreamOK
<1>3. IsFiniteSet(clients) /\ Cardinality(clients) <= MaxClients
  BY <1>1 DEF StreamOK
<1>4. \A c \in Subscribers : ClientOK(subs[c], Len(log)) /\ (subs[c].st = "open" <=> c \in clients)
  BY <1>1 DEF StreamOK
<1>5. Len(log) \in Nat /\ Cardinality(clients) \in Nat
  BY <1>2, <1>3, FS_CardinalityType
<1> QED BY <1>2, <1>3, <1>4, <1>5

LEMMA StreamFrom ==
    ASSUME log \in Seq(LogRows), clients \in SUBSET Subscribers, subs \in [Subscribers -> ClientType],
           IsFiniteSet(clients), Cardinality(clients) <= MaxClients,
           \A c \in Subscribers : ClientOK(subs[c], Len(log)) /\ (subs[c].st = "open" <=> c \in clients)
    PROVE  StreamOK(Stream)
<1>1. Stream.log = log /\ Stream.clients = clients /\ Stream.subs = subs
  BY DEF Stream
<1>2. Stream \in [log : Seq(LogRows), clients : SUBSET Subscribers, subs : [Subscribers -> ClientType]]
  BY DEF Stream
<1> QED BY <1>1, <1>2 DEF StreamOK

LEMMA LiveStart == LiveInit => LiveInv
<1> SUFFICES ASSUME LiveInit PROVE LiveInv
  OBVIOUS
<1>0. /\ running = TRUE /\ log = <<>> /\ clients = {} /\ early = <<>>
      /\ subs = [c \in Subscribers |-> NewClient]
      /\ miner = [m \in LMiners |-> [st |-> "new", jobs |-> 0]]
  BY DEF LiveInit
<1>1. log \in Seq(LogRows) /\ Len(log) = 0 /\ DOMAIN log = {} /\ DOMAIN early = {}
  BY <1>0
<1>2. IsFiniteSet(clients) /\ Cardinality(clients) = 0
  BY <1>0, FS_EmptySet
<1>3. \A c \in Subscribers : subs[c] = NewClient
  BY <1>0
<1>4. NewClient \in ClientType /\ ClientOK(NewClient, 0) /\ NewClient.st = "free"
  BY NewClientOK
<1>5. subs \in [Subscribers -> ClientType]
  BY <1>0, <1>4
<1>6. StreamOK(Stream)
  <2>1. Cardinality(clients) <= MaxClients
    BY <1>2, LiveAssumption
  <2>2. ASSUME NEW c \in Subscribers
        PROVE  ClientOK(subs[c], Len(log)) /\ (subs[c].st = "open" <=> c \in clients)
    BY <1>0, <1>1, <1>3, <1>4
  <2> QED BY <1>0, <1>1, <1>2, <1>5, <2>1, <2>2, StreamFrom
<1>7. miner \in [LMiners -> [st : MinerStates, jobs : Nat]]
  BY <1>0 DEF MinerStates
<1>8. ASSUME NEW m \in LMiners PROVE MinerOK(m)
  <2>1. miner[m].st = "new" /\ miner[m].jobs = 0
    BY <1>0
  <2>2. JobRows(m) = {}
    BY <1>1 DEF JobRows
  <2> QED BY <1>1, <2>1, <2>2 DEF MinerOK
<1> QED BY <1>0, <1>1, <1>6, <1>7, <1>8 DEF LiveInv

LEMMA LiveTrue == LiveInv => NoRowSkipped /\ JobsFollowLogin
<1> SUFFICES ASSUME LiveInv PROVE NoRowSkipped /\ JobsFollowLogin
  OBVIOUS
<1>1. NoRowSkipped
  <2>1. Cardinality(clients) <= MaxClients
    BY StreamParts DEF LiveInv
  <2>2. \A c \in Subscribers : ClientOK(subs[c], Len(log)) /\ (subs[c].st = "open" <=> c \in clients)
    BY StreamParts DEF LiveInv
  <2> QED BY <2>1, <2>2 DEF NoRowSkipped, ClientOK, Since
<1>2. JobsFollowLogin
  BY DEF LiveInv, MinerOK, JobsFollowLogin
<1> QED BY <1>1, <1>2

\* One client changes.
LEMMA OneClient ==
    ASSUME StreamOK(Stream), NEW c \in Subscribers, NEW v, ClientOK(v, Len(log)),
           subs' = [subs EXCEPT ![c] = v], log' = log,
           clients' = IF v.st = "open" THEN clients \cup {c} ELSE clients \ {c},
           v.st = "open" => c \in clients \/ Cardinality(clients) < MaxClients
    PROVE  StreamOK(Stream)'
<1>0. /\ log \in Seq(LogRows) /\ Len(log) \in Nat /\ clients \in SUBSET Subscribers
      /\ subs \in [Subscribers -> ClientType]
      /\ IsFiniteSet(clients) /\ Cardinality(clients) <= MaxClients /\ Cardinality(clients) \in Nat
  BY StreamParts
<1>1. v \in ClientType
  BY DEF ClientOK
<1>2. subs' \in [Subscribers -> ClientType] /\ subs'[c] = v /\ \A d \in Subscribers : d # c => subs'[d] = subs[d]
  BY <1>0, <1>1
<1>3. IsFiniteSet(clients') /\ Cardinality(clients') <= MaxClients
  <2>0. MaxClients \in Nat
    BY LiveAssumption
  <2>1. CASE v.st = "open"
    <3>1. clients' = clients \cup {c} /\ IsFiniteSet(clients')
      BY <1>0, <2>1, FS_AddElement
    <3>2. CASE c \in clients
      <4>1. clients' = clients
        BY <3>1, <3>2
      <4> QED BY <1>0, <4>1
    <3>3. CASE c \notin clients
      <4>1. Cardinality(clients') = Cardinality(clients) + 1 /\ Cardinality(clients) < MaxClients
        BY <1>0, <2>1, <3>1, <3>3, FS_AddElement
      <4> QED BY <1>0, <2>0, <3>1, <4>1
    <3> QED BY <3>2, <3>3
  <2>2. CASE v.st # "open"
    <3>1. clients' \subseteq clients
      BY <2>2
    <3>2. IsFiniteSet(clients') /\ Cardinality(clients') <= Cardinality(clients)
      BY <1>0, <3>1, FS_Subset
    <3>3. Cardinality(clients') \in Nat
      BY <3>2, FS_CardinalityType
    <3> QED BY <1>0, <2>0, <3>2, <3>3
  <2> QED BY <2>1, <2>2
<1>4. ASSUME NEW d \in Subscribers
      PROVE  ClientOK(subs'[d], Len(log')) /\ (subs'[d].st = "open" <=> d \in clients')
  <2>1. ClientOK(subs[d], Len(log)) /\ (subs[d].st = "open" <=> d \in clients)
    BY StreamParts
  <2>2. CASE d = c
    BY <1>2, <2>2
  <2>3. CASE d # c
    BY <1>2, <2>1, <2>3
  <2> QED BY <2>2, <2>3
<1>5. clients' \in SUBSET Subscribers /\ log' \in Seq(LogRows)
  BY <1>0
<1>6. StreamOK(Stream')
  <2>1. Stream'.log = log' /\ Stream'.clients = clients' /\ Stream'.subs = subs'
    BY DEF Stream
  <2>2. Stream' \in [log : Seq(LogRows), clients : SUBSET Subscribers, subs : [Subscribers -> ClientType]]
    BY <1>2, <1>5 DEF Stream
  <2> QED BY <1>3, <1>4, <2>1, <2>2 DEF StreamOK
<1> QED BY <1>6 DEF StreamOK

\* A step that only clients notice.
LEMMA OnlyClients ==
    ASSUME LiveInv, StreamOK(Stream)', UNCHANGED <<log, early, miner>>, running' \in BOOLEAN, running' => running
    PROVE  LiveInv'
<1>1. ASSUME NEW m \in LMiners PROVE MinerOK(m)'
  <2>1. MinerOK(m) /\ JobRows(m)' = JobRows(m) /\ LoginRows(m)' = LoginRows(m)
    BY DEF LiveInv, JobRows, LoginRows
  <2> QED BY <2>1 DEF MinerOK
<1>2. miner' \in [LMiners -> [st : MinerStates, jobs : Nat]] /\ DOMAIN early' \subseteq LMiners
  BY DEF LiveInv
<1> QED BY <1>1, <1>2 DEF LiveInv

LEMMA AcceptStep ==
    ASSUME LiveInv, NEW c \in Subscribers, NEW ok \in BOOLEAN, Accept(c, ok)
    PROVE  LiveInv'
<1>0. /\ UNCHANGED <<running, log, early, miner>> /\ running \in BOOLEAN /\ StreamOK(Stream)
      /\ Len(log) \in Nat /\ Cardinality(clients) \in Nat /\ MaxClients \in Nat
  BY StreamParts, LiveAssumption DEF Accept, LiveInv
<1>1. subs[c].st = "free" /\ c \notin clients /\ ClientOK(subs[c], Len(log))
  BY <1>0, StreamParts DEF Accept
<1>2. CASE Cardinality(clients) >= MaxClients
  <2> DEFINE v == [subs[c] EXCEPT !.st = "closing"]
  <2>1. subs' = [subs EXCEPT ![c] = v]
    BY <1>2 DEF Accept
  <2>2. clients' = IF v.st = "open" THEN clients \cup {c} ELSE clients
    BY <1>2 DEF Accept
  <2>3. subs[c] \in ClientType /\ subs[c].pending = Total(subs[c].writes)
    BY <1>1 DEF ClientOK
  <2>4. /\ v \in ClientType /\ v.st = "closing" /\ v.pending = subs[c].pending /\ v.writes = subs[c].writes
    BY <2>3 DEF ClientType
  <2> HIDE DEF v
  <2>5. ClientOK(v, Len(log)) /\ clients' = IF v.st = "open" THEN clients \cup {c} ELSE clients \ {c}
    BY <1>1, <2>2, <2>3, <2>4 DEF ClientOK
  <2>6. StreamOK(Stream)'
    BY <1>0, <2>1, <2>4, <2>5, OneClient
  <2> QED BY <1>0, <2>6, OnlyClients
<1>3. CASE Cardinality(clients) < MaxClients
  <2> DEFINE s == [NewClient EXCEPT !.st = "open", !.since = Len(log)]
  <2> DEFINE v == write(s, Header, 0, ok)
  <2>0. ~(Cardinality(clients) >= MaxClients)
    BY <1>0, <1>3
  <2>1. subs' = [subs EXCEPT ![c] = v] /\ clients' = IF v.st = "open" THEN clients \cup {c} ELSE clients
    BY <2>0 DEF Accept
  <2>2. Header \in LiveRows
    BY DEF Header, Row, LiveRows, LiveEvents
  <2>3. ClientOK(s, Len(log))
    BY <1>0, NewClientOK
  <2> HIDE DEF s
  <2>4. ClientOK(v, Len(log))
    BY <1>0, <2>2, <2>3, WriteOK
  <2> HIDE DEF v
  <2>5. clients' = IF v.st = "open" THEN clients \cup {c} ELSE clients \ {c}
    BY <1>1, <2>1
  <2>6. StreamOK(Stream)'
    BY <1>0, <1>3, <2>1, <2>4, <2>5, OneClient
  <2> QED BY <1>0, <2>6, OnlyClients
<1> QED BY <1>0, <1>2, <1>3

LEMMA WriteDoneStep ==
    ASSUME LiveInv, NEW c \in Subscribers, NEW ok \in BOOLEAN, WriteDone(c, ok)
    PROVE  LiveInv'
<1> DEFINE s == subs[c]
<1> DEFINE d == [s EXCEPT !.pending = s.pending - Head(s.writes), !.writes = Tail(s.writes)]
<1>0. /\ UNCHANGED <<running, log, early, miner>> /\ running \in BOOLEAN /\ StreamOK(Stream) /\ Len(log) \in Nat
      /\ ClientOK(s, Len(log)) /\ (s.st = "open" <=> c \in clients)
      /\ s.writes # <<>> /\ (s.st = "closing" => ~ok)
      /\ subs' = [subs EXCEPT ![c] = IF ok THEN d ELSE closeClient(d)]
      /\ clients' = IF ok THEN clients ELSE clients \ {c}
  BY StreamParts DEF WriteDone, LiveInv
<1>1. /\ s \in ClientType /\ s.writes \in Seq(Nat) /\ s.pending = Total(s.writes) /\ s.pending \in Int
      /\ s.rows \in Seq(Nat) /\ s.since \in Nat /\ s.st \in {"free", "open", "closing"}
  BY <1>0 DEF ClientOK, ClientType
<1>2. /\ Tail(s.writes) \in Seq(Nat) /\ Head(s.writes) \in Nat
      /\ Total(Tail(s.writes)) = s.pending - Head(s.writes)
  BY <1>0, <1>1, TotalTail
<1>a. IsClient(s)
  BY <1>1 DEF IsClient, ClientType
<1>3. d = Made(s.st, s.pending - Head(s.writes), Tail(s.writes), s.since, s.rows)
  BY <1>a, PendingFields
<1> DEFINE t == Tail(s.writes)
<1> DEFINE p == s.pending - Head(s.writes)
<1>4. t \in Seq(Nat) /\ p \in Int /\ Total(t) = p /\ p <= s.pending /\ d = Made(s.st, p, t, s.since, s.rows)
  BY <1>1, <1>2, <1>3
<1> HIDE DEF d, s, t, p
<1>5. d \in ClientType /\ d.st = s.st /\ d.pending = p /\ d.writes = t /\ d.since = s.since /\ d.rows = s.rows
  BY <1>1, <1>4 DEF ClientType, Made
<1>6. ClientOK(d, Len(log))
  <2>1. s.st = "open" => s.since <= Len(log) /\ s.rows = Since(s.since, Len(log)) /\ s.pending <= MaxPending
    BY <1>0 DEF ClientOK
  <2>2. MaxPending \in Int
    BY LiveAssumption
  <2> QED BY <1>1, <1>4, <1>5, <2>1, <2>2 DEF ClientOK
<1>7. CASE ok
  <2>1. s.st # "closing" /\ subs' = [subs EXCEPT ![c] = d] /\ clients' = clients
    BY <1>0, <1>7
  <2>2. clients' = IF d.st = "open" THEN clients \cup {c} ELSE clients \ {c}
    BY <1>0, <1>5, <2>1
  <2>3. StreamOK(Stream)'
    BY <1>0, <1>5, <1>6, <2>1, <2>2, OneClient
  <2> QED BY <1>0, <2>3, OnlyClients
<1>8. CASE ~ok
  <2> DEFINE v == closeClient(d)
  <2>1. subs' = [subs EXCEPT ![c] = v] /\ clients' = clients \ {c}
    BY <1>0, <1>8
  <2>2. ClientOK(v, Len(log)) /\ v.st # "open"
    BY <1>0, <1>6, ClosedOK
  <2> HIDE DEF v
  <2>3. StreamOK(Stream)'
    BY <1>0, <2>1, <2>2, OneClient
  <2> QED BY <1>0, <2>3, OnlyClients
<1> QED BY <1>7, <1>8

LEMMA ReadOrEndStep == ASSUME LiveInv, NEW c \in Subscribers, ReadOrEnd(c) PROVE LiveInv'
<1> DEFINE v == closeClient(subs[c])
<1>0. /\ UNCHANGED <<running, log, early, miner>> /\ running \in BOOLEAN /\ StreamOK(Stream) /\ Len(log) \in Nat
      /\ ClientOK(subs[c], Len(log)) /\ subs' = [subs EXCEPT ![c] = v] /\ clients' = clients \ {c}
  BY StreamParts DEF ReadOrEnd, LiveInv
<1>1. ClientOK(v, Len(log)) /\ v.st # "open"
  BY <1>0, ClosedOK
<1> HIDE DEF v
<1>2. StreamOK(Stream)'
  BY <1>0, <1>1, OneClient
<1> QED BY <1>0, <1>2, OnlyClients

LEMMA ClientClosedStep == ASSUME LiveInv, NEW c \in Subscribers, ClientClosed(c) PROVE LiveInv'
<1>0. /\ UNCHANGED <<running, log, early, miner>> /\ running \in BOOLEAN /\ StreamOK(Stream) /\ Len(log) \in Nat
      /\ subs[c].st = "closing" /\ subs' = [subs EXCEPT ![c] = NewClient] /\ clients' = clients
      /\ c \notin clients
  BY StreamParts DEF ClientClosed, LiveInv
<1>1. ClientOK(NewClient, Len(log)) /\ NewClient.st # "open"
  BY <1>0, NewClientOK
<1>2. clients' = clients \ {c}
  BY <1>0
<1>3. StreamOK(Stream)'
  BY <1>0, <1>1, <1>2, OneClient
<1> QED BY <1>0, <1>3, OnlyClients

LEMMA LiveStopStep == ASSUME LiveInv, Stop PROVE LiveInv'
<1>0. /\ running' = FALSE /\ early' = <<>> /\ clients' = {} /\ UNCHANGED <<log, miner>> /\ Len(log) \in Nat
      /\ subs' = [c \in Subscribers |-> IF c \in clients THEN closeClient(subs[c]) ELSE subs[c]]
      /\ log \in Seq(LogRows)
  BY StreamParts DEF Stop, LiveInv
<1>1. ASSUME NEW c \in Subscribers PROVE ClientOK(subs'[c], Len(log')) /\ subs'[c].st # "open"
  <2>0. ClientOK(subs[c], Len(log)) /\ (subs[c].st = "open" <=> c \in clients)
    BY StreamParts DEF LiveInv
  <2>1. CASE c \in clients
    <3>1. subs'[c] = closeClient(subs[c])
      BY <1>0, <2>1
    <3> QED BY <1>0, <2>0, <3>1, ClosedOK
  <2>2. CASE c \notin clients
    BY <1>0, <2>0, <2>2
  <2> QED BY <2>1, <2>2
<1>2. subs' \in [Subscribers -> ClientType]
  <2>1. subs' = [c \in Subscribers |-> subs'[c]]
    BY <1>0
  <2>2. ASSUME NEW c \in Subscribers PROVE subs'[c] \in ClientType
    BY <1>1 DEF ClientOK
  <2> QED BY <2>1, <2>2
<1>3. IsFiniteSet(clients') /\ Cardinality(clients') <= MaxClients
  BY <1>0, FS_EmptySet, LiveAssumption
<1>4. StreamOK(Stream')
  <2>1. Stream'.log = log' /\ Stream'.clients = clients' /\ Stream'.subs = subs'
    BY DEF Stream
  <2>2. Stream' \in [log : Seq(LogRows), clients : SUBSET Subscribers, subs : [Subscribers -> ClientType]]
    BY <1>0, <1>2 DEF Stream
  <2> QED BY <1>0, <1>1, <1>3, <2>1, <2>2 DEF StreamOK
<1>5. DOMAIN early' = {}
  BY <1>0
<1>6. ASSUME NEW m \in LMiners PROVE MinerOK(m)'
  <2>1. MinerOK(m) /\ JobRows(m)' = JobRows(m) /\ LoginRows(m)' = LoginRows(m) /\ miner'[m] = miner[m]
    BY <1>0 DEF LiveInv, JobRows, LoginRows
  <2> QED BY <1>0, <1>5, <2>1 DEF MinerOK
<1> QED BY <1>0, <1>4, <1>5, <1>6 DEF LiveInv, StreamOK

\* Rows that are told get the next numbers.
LEMMA EmitOK ==
    ASSUME StreamOK(Stream), NEW rows \in Seq(LiveRows), NEW broken, Emit(rows, broken)
    PROVE  /\ StreamOK(Stream)' /\ Len(log') = Len(log) + Len(rows) /\ log' \in Seq(LogRows)
           /\ \A i \in 1..Len(log) : log'[i] = log[i]
           /\ \A i \in 1..Len(rows) : log'[Len(log) + i] = ToldRow(rows[i])
<1> DEFINE o == broadcastAll(Stream, rows, broken)
<1>1. log' = o.log /\ clients' = o.clients /\ subs' = o.subs
  BY DEF Emit
<1>2. Stream.log = log
  BY DEF Stream
<1>3. /\ StreamOK(o) /\ Len(o.log) = Len(log) + Len(rows)
      /\ \A i \in 1..Len(log) : o.log[i] = log[i]
      /\ \A i \in 1..Len(rows) : o.log[Len(log) + i] = ToldRow(rows[i])
  BY <1>2, BroadcastAllOK
<1> HIDE DEF o
<1>4. Stream' = o
  <2>1. o = [log |-> o.log, clients |-> o.clients, subs |-> o.subs]
    BY <1>3 DEF StreamOK
  <2>2. Stream' = [log |-> log', clients |-> clients', subs |-> subs']
    BY DEF Stream
  <2> QED BY <1>1, <2>1, <2>2
<1>5. o.log \in Seq(LogRows)
  BY <1>3 DEF StreamOK
<1>6. StreamOK(Stream')
  BY <1>3, <1>4
<1>7. StreamOK(Stream)'
  BY <1>6 DEF StreamOK
<1> QED BY <1>1, <1>3, <1>5, <1>7

RowsOf(event, m) == {i \in DOMAIN log : log[i].event = event /\ log[i].miner = m}

LEMMA RowsAre == ASSUME NEW m PROVE JobRows(m) = RowsOf("job", m) /\ LoginRows(m) = RowsOf("login", m)
BY DEF JobRows, LoginRows, RowsOf

\* What is new among the rows of a miner.
LEMMA NewRows ==
    ASSUME StreamOK(Stream), NEW rows \in Seq(LiveRows), NEW broken, Emit(rows, broken), NEW event, NEW m, NEW j
    PROVE  j \in RowsOf(event, m)' <=>
             \/ j \in RowsOf(event, m)
             \/ \E i \in 1..Len(rows) : j = Len(log) + i /\ rows[i].event = event /\ rows[i].miner = m
<1> DEFINE n == Len(log)
<1> DEFINE k == Len(rows)
<1> DEFINE R == {i \in 1..n : log[i].event = event /\ log[i].miner = m}
<1> DEFINE Q == {i \in 1..(n + k) : log'[i].event = event /\ log'[i].miner = m}
<1>0. /\ n \in Nat /\ k \in Nat /\ log \in Seq(LogRows) /\ log' \in Seq(LogRows) /\ Len(log') = n + k
      /\ (\A i \in 1..n : log'[i] = log[i])
      /\ \A i \in 1..k : log'[n + i] = ToldRow(rows[i])
  BY EmitOK, StreamParts
<1>1. RowsOf(event, m) = R /\ RowsOf(event, m)' = Q
  <2>1. DOMAIN log = 1..n /\ DOMAIN log' = 1..(n + k)
    BY <1>0
  <2> QED BY <2>1 DEF RowsOf
<1>2. ASSUME NEW i \in 1..k PROVE log'[n + i].event = rows[i].event /\ log'[n + i].miner = rows[i].miner
  <2>1. log'[n + i] = ToldRow(rows[i])
    BY <1>0
  <2> HIDE DEF n, k
  <2> QED BY <2>1 DEF ToldRow
<1> HIDE DEF n, k
<1>3. ASSUME j \in Q PROVE j \in R \/ \E i \in 1..k : j = n + i /\ rows[i].event = event /\ rows[i].miner = m
  <2>1. CASE j \in 1..n
    BY <1>0, <1>3, <2>1
  <2>2. CASE j \notin 1..n
    <3>1. j - n \in 1..k /\ j = n + (j - n)
      BY <1>0, <1>3, <2>2
    <3>2. rows[j - n].event = event /\ rows[j - n].miner = m
      BY <1>2, <1>3, <3>1
    <3> QED BY <3>1, <3>2
  <2> QED BY <2>1, <2>2
<1>4. ASSUME j \in R PROVE j \in Q
  BY <1>0, <1>4
<1>5. ASSUME NEW i \in 1..k, j = n + i, rows[i].event = event, rows[i].miner = m PROVE j \in Q
  BY <1>0, <1>2, <1>5
<1> HIDE DEF Q, R
<1> QED BY <1>1, <1>3, <1>4, <1>5 DEF n, k

\* A miner that none of the rows is about.
LEMMA OtherMiner ==
    ASSUME StreamOK(Stream), NEW rows \in Seq(LiveRows), NEW broken, Emit(rows, broken), NEW x, MinerOK(x),
           \A i \in 1..Len(rows) : rows[i].miner = x => rows[i].event \notin {"job", "login"},
           miner'[x] = miner[x], x \in DOMAIN early' <=> x \in DOMAIN early,
           x \in DOMAIN early => early'[x] = early[x], running' = running
    PROVE  MinerOK(x)'
<1>1. ASSUME NEW j PROVE /\ j \in RowsOf("job", x)' <=> j \in RowsOf("job", x)
                         /\ j \in RowsOf("login", x)' <=> j \in RowsOf("login", x)
  <2>1. j \in RowsOf("job", x)' <=>
             \/ j \in RowsOf("job", x)
             \/ \E i \in 1..Len(rows) : j = Len(log) + i /\ rows[i].event = "job" /\ rows[i].miner = x
    BY NewRows
  <2>2. j \in RowsOf("login", x)' <=>
             \/ j \in RowsOf("login", x)
             \/ \E i \in 1..Len(rows) : j = Len(log) + i /\ rows[i].event = "login" /\ rows[i].miner = x
    BY NewRows
  <2> QED BY <2>1, <2>2
<1>2. JobRows(x)' = JobRows(x) /\ LoginRows(x)' = LoginRows(x)
  <2>1. RowsOf("job", x)' = RowsOf("job", x) /\ RowsOf("login", x)' = RowsOf("login", x)
    BY <1>1
  <2>2. JobRows(x)' = RowsOf("job", x)' /\ LoginRows(x)' = RowsOf("login", x)'
    BY DEF JobRows, LoginRows, RowsOf
  <2> QED BY <2>1, <2>2, RowsAre
<1> QED BY <1>2 DEF MinerOK

LEMMA RowOK ==
    ASSUME NEW event \in LiveEvents, NEW m \in LMiners \cup {None}, NEW bytes \in RowSizes
    PROVE  /\ Row(event, m, bytes) \in LiveRows /\ <<Row(event, m, bytes)>> \in Seq(LiveRows)
           /\ Row(event, m, bytes).event = event /\ Row(event, m, bytes).miner = m
<1>1. bytes \in Nat
  BY LiveAssumption
<1>2. Row(event, m, bytes) = [event |-> event, miner |-> m, size |-> bytes]
  BY DEF Row
<1>3. Row(event, m, bytes) \in LiveRows
  BY <1>1, <1>2 DEF LiveRows
<1> QED BY <1>2, <1>3

\* The rows of a miner after one more row.
LEMMA OneRow ==
    ASSUME StreamOK(Stream), NEW row \in LiveRows, NEW broken, Emit(<<row>>, broken), NEW event, NEW m
    PROVE  RowsOf(event, m)' = RowsOf(event, m) \cup
                                 (IF row.event = event /\ row.miner = m THEN {Len(log) + 1} ELSE {})
<1>1. <<row>> \in Seq(LiveRows) /\ Len(<<row>>) = 1 /\ <<row>>[1] = row /\ 1..1 = {1}
  OBVIOUS
<1>2. ASSUME NEW j
      PROVE  j \in RowsOf(event, m)' <=>
               j \in RowsOf(event, m) \/ (j = Len(log) + 1 /\ row.event = event /\ row.miner = m)
  <2>1. j \in RowsOf(event, m)' <=>
           \/ j \in RowsOf(event, m)
           \/ \E i \in 1..Len(<<row>>) : j = Len(log) + i /\ <<row>>[i].event = event /\ <<row>>[i].miner = m
    <3> DEFINE rows == <<row>>
    <3>1. rows \in Seq(LiveRows) /\ Emit(rows, broken)
      BY <1>1
    <3> HIDE DEF rows
    <3>2. j \in RowsOf(event, m)' <=>
             \/ j \in RowsOf(event, m)
             \/ \E i \in 1..Len(rows) : j = Len(log) + i /\ rows[i].event = event /\ rows[i].miner = m
      BY <3>1, NewRows
    <3> QED BY <3>2 DEF rows
  <2> QED BY <1>1, <2>1
<1>3. ASSUME NEW j
      PROVE  j \in RowsOf(event, m)' <=>
               j \in RowsOf(event, m) \cup (IF row.event = event /\ row.miner = m THEN {Len(log) + 1} ELSE {})
  BY <1>2
<1> QED BY <1>3

LEMMA RowsBelow ==
    ASSUME StreamOK(Stream), NEW event, NEW m
    PROVE  /\ RowsOf(event, m) \subseteq 1..Len(log) /\ IsFiniteSet(RowsOf(event, m))
           /\ Cardinality(RowsOf(event, m)) \in Nat
<1>1. log \in Seq(LogRows) /\ Len(log) \in Nat
  BY StreamParts
<1>2. RowsOf(event, m) \subseteq 1..Len(log)
  BY <1>1 DEF RowsOf
<1>3. IsFiniteSet(1..Len(log))
  BY <1>1, FS_Interval
<1> QED BY <1>2, <1>3, FS_Subset, FS_CardinalityType

\* MinerOK after a step, from the rows.
LEMMA MinerFrom ==
    ASSUME NEW m,
           \A i \in RowsOf("job", m)' : \E j \in RowsOf("login", m)' : j < i,
           m \in DOMAIN early' =>
             miner'[m].st = "connected" /\ early'[m] \in Seq(JobsOf(m)) /\ Len(early'[m]) = miner'[m].jobs,
           miner'[m].st = "new" => miner'[m].jobs = 0,
           miner'[m].st = "connected" /\ running' => m \in DOMAIN early',
           miner'[m].st \in {"new", "connected", "refused"} => RowsOf("job", m)' = {},
           miner'[m].st = "logged" =>
             Cardinality(RowsOf("job", m)') = miner'[m].jobs /\ RowsOf("login", m)' # {}
    PROVE  MinerOK(m)'
<1>1. JobRows(m)' = RowsOf("job", m)' /\ LoginRows(m)' = RowsOf("login", m)'
  BY DEF JobRows, LoginRows, RowsOf
<1> QED BY <1>1 DEF MinerOK

LEMMA OtherRowStep ==
    ASSUME LiveInv, NEW bytes \in RowSizes, NEW broken \in SUBSET clients, OtherRow(bytes, broken)
    PROVE  LiveInv'
<1> DEFINE row == Row("other", None, bytes)
<1>0. row \in LiveRows /\ row.event = "other" /\ <<row>> \in Seq(LiveRows)
  BY RowOK DEF LiveEvents
<1>1. Emit(<<row>>, broken) /\ UNCHANGED <<running, early, miner>> /\ StreamOK(Stream)
  BY DEF OtherRow, LiveInv
<1> HIDE DEF row
<1>2. StreamOK(Stream)'
  BY <1>0, <1>1, EmitOK
<1>3. \A i \in 1..Len(<<row>>) : <<row>>[i].event \notin {"job", "login"}
  BY <1>0
<1>4. ASSUME NEW m \in LMiners PROVE MinerOK(m)'
  <2>1. MinerOK(m)
    BY DEF LiveInv
  <2> QED BY <1>0, <1>1, <1>3, <2>1, OtherMiner
<1> QED BY <1>1, <1>2, <1>4 DEF LiveInv

\* A miner is told of, and the others keep what they had.
LEMMA OneMiner ==
    ASSUME LiveInv, NEW rows \in Seq(LiveRows), NEW broken, Emit(rows, broken), NEW m \in LMiners,
           \A i \in 1..Len(rows) : rows[i].miner = m,
           miner' \in [LMiners -> [st : MinerStates, jobs : Nat]],
           \A x \in LMiners : x # m => miner'[x] = miner[x],
           DOMAIN early' \subseteq LMiners,
           \A x \in LMiners : x # m =>
              (x \in DOMAIN early' <=> x \in DOMAIN early) /\ (x \in DOMAIN early => early'[x] = early[x]),
           running' = running, MinerOK(m)'
    PROVE  LiveInv'
<1>1. StreamOK(Stream) /\ running \in BOOLEAN
  BY DEF LiveInv
<1>2. StreamOK(Stream)'
  BY <1>1, EmitOK
<1>3. ASSUME NEW x \in LMiners PROVE MinerOK(x)'
  <2>1. CASE x = m
    BY <2>1
  <2>2. CASE x # m
    <3>1. MinerOK(x) /\ \A i \in 1..Len(rows) : rows[i].miner # x
      BY <2>2 DEF LiveInv
    <3> QED BY <1>1, <2>2, <3>1, OtherMiner
  <2> QED BY <2>1, <2>2
<1> QED BY <1>1, <1>2, <1>3 DEF LiveInv

LEMMA ConnectedStep ==
    ASSUME LiveInv, NEW m \in LMiners, NEW bytes \in RowSizes, NEW broken \in SUBSET clients,
           Connected(m, bytes, broken)
    PROVE  LiveInv'
<1> DEFINE row == Row("connected", m, bytes)
<1>0. row \in LiveRows /\ row.event = "connected" /\ row.miner = m /\ <<row>> \in Seq(LiveRows)
  BY RowOK DEF LiveEvents
<1>1. /\ Emit(<<row>>, broken) /\ running' = running /\ StreamOK(Stream) /\ MinerOK(m)
      /\ miner[m].st = "new" /\ miner' = [miner EXCEPT ![m].st = "connected"]
      /\ early' = [x \in DOMAIN early \cup {m} |-> IF x = m THEN <<>> ELSE early[x]]
      /\ miner \in [LMiners -> [st : MinerStates, jobs : Nat]] /\ DOMAIN early \subseteq LMiners
  BY DEF Connected, LiveInv
<1> HIDE DEF row
<1>2. /\ miner' \in [LMiners -> [st : MinerStates, jobs : Nat]]
      /\ miner'[m].st = "connected" /\ miner'[m].jobs = miner[m].jobs
      /\ \A x \in LMiners : x # m => miner'[x] = miner[x]
  BY <1>1 DEF MinerStates
<1>3. /\ DOMAIN early' \subseteq LMiners /\ m \in DOMAIN early' /\ early'[m] = <<>>
      /\ \A x \in LMiners : x # m =>
            (x \in DOMAIN early' <=> x \in DOMAIN early) /\ (x \in DOMAIN early => early'[x] = early[x])
  BY <1>1
<1>4. miner[m].jobs = 0 /\ RowsOf("job", m) = {}
  BY <1>1, RowsAre DEF MinerOK
<1>5. RowsOf("job", m)' = {}
  <2>1. RowsOf("job", m)' = RowsOf("job", m) \cup {}
    BY <1>0, <1>1, OneRow
  <2> QED BY <1>4, <2>1
<1>6. <<>> \in Seq(JobsOf(m)) /\ Len(<<>>) = 0
  OBVIOUS
<1>7. MinerOK(m)'
  BY <1>2, <1>3, <1>4, <1>5, <1>6, MinerFrom
<1> DEFINE rows == <<row>>
<1>8. rows \in Seq(LiveRows) /\ Emit(rows, broken) /\ \A i \in 1..Len(rows) : rows[i].miner = m
  BY <1>0, <1>1
<1> HIDE DEF rows
<1> QED BY <1>1, <1>2, <1>3, <1>7, <1>8, OneMiner

LEMMA JobSentStep ==
    ASSUME LiveInv, NEW m \in LMiners, NEW bytes \in RowSizes, NEW broken \in SUBSET clients,
           JobSent(m, bytes, broken)
    PROVE  LiveInv'
<1> DEFINE row == Row("job", m, bytes)
<1>0. row \in LiveRows /\ row.event = "job" /\ row.miner = m /\ <<row>> \in Seq(LiveRows) /\ row \in JobsOf(m)
  BY RowOK DEF LiveEvents, JobsOf
<1>1. /\ running /\ running' = running /\ StreamOK(Stream) /\ MinerOK(m)
      /\ miner[m].st \in {"connected", "logged"} /\ miner' = [miner EXCEPT ![m].jobs = miner[m].jobs + 1]
      /\ miner \in [LMiners -> [st : MinerStates, jobs : Nat]] /\ DOMAIN early \subseteq LMiners
  BY DEF JobSent, LiveInv
<1>2. /\ miner' \in [LMiners -> [st : MinerStates, jobs : Nat]]
      /\ miner'[m].st = miner[m].st /\ miner'[m].jobs = miner[m].jobs + 1
      /\ \A x \in LMiners : x # m => miner'[x] = miner[x]
  BY <1>1
<1>3. CASE m \in DOMAIN early
  <2>1. early' = [early EXCEPT ![m] = Append(early[m], row)] /\ Quiet
    BY <1>3 DEF JobSent, holds
  <2> HIDE DEF row
  <2>2. miner[m].st = "connected" /\ early[m] \in Seq(JobsOf(m)) /\ Len(early[m]) = miner[m].jobs
    BY <1>1, <1>3 DEF MinerOK
  <2>3. JobRows(m) = {} /\ JobRows(m)' = JobRows(m) /\ LoginRows(m)' = LoginRows(m)
    BY <1>1, <2>1, <2>2 DEF MinerOK, JobRows, LoginRows, Quiet
  <2> DEFINE jobsHeld == Append(early[m], row)
  <2>4. jobsHeld \in Seq(JobsOf(m)) /\ Len(jobsHeld) = miner[m].jobs + 1
    BY <1>0, <2>2
  <2> HIDE DEF jobsHeld
  <2>5. /\ DOMAIN early' = DOMAIN early /\ early'[m] = jobsHeld
        /\ \A x \in DOMAIN early : x # m => early'[x] = early[x]
    BY <1>3, <2>1 DEF jobsHeld
  <2>6. MinerOK(m)'
    BY <1>1, <1>2, <1>3, <2>2, <2>3, <2>4, <2>5 DEF MinerOK
  <2>7. ASSUME NEW x \in LMiners PROVE MinerOK(x)'
    <3>1. CASE x = m
      BY <2>6, <3>1
    <3>2. CASE x # m
      <4>1. MinerOK(x) /\ JobRows(x)' = JobRows(x) /\ LoginRows(x)' = LoginRows(x)
        BY <2>1 DEF LiveInv, JobRows, LoginRows, Quiet
      <4> QED BY <1>1, <1>2, <2>5, <3>2, <4>1 DEF MinerOK
    <3> QED BY <3>1, <3>2
  <2>8. StreamOK(Stream)'
    <3>1. Stream' = Stream
      BY <2>1 DEF Stream, Quiet
    <3>2. StreamOK(Stream')
      BY <1>1, <3>1
    <3> QED BY <3>2 DEF StreamOK
  <2> QED BY <1>1, <1>2, <2>5, <2>7, <2>8 DEF LiveInv
<1>4. CASE m \notin DOMAIN early
  <2>1. Emit(<<row>>, broken) /\ early' = early
    BY <1>4 DEF JobSent, holds
  <2> HIDE DEF row
  <2>2. /\ miner[m].st = "logged" /\ Cardinality(RowsOf("job", m)) = miner[m].jobs /\ RowsOf("login", m) # {}
        /\ \A i \in RowsOf("job", m) : \E j \in RowsOf("login", m) : j < i
    BY <1>1, <1>4, RowsAre DEF MinerOK
  <2>3. /\ RowsOf("job", m)' = RowsOf("job", m) \cup {Len(log) + 1}
        /\ RowsOf("login", m)' = RowsOf("login", m)
    <3>1. RowsOf("job", m)' = RowsOf("job", m) \cup {Len(log) + 1}
      BY <1>0, <1>1, <2>1, OneRow
    <3>2. RowsOf("login", m)' = RowsOf("login", m) \cup {}
      BY <1>0, <1>1, <2>1, OneRow
    <3> QED BY <3>1, <3>2
  <2>4. Cardinality(RowsOf("job", m)') = miner[m].jobs + 1
    <3>0. Len(log) \in Nat
      BY <1>1, StreamParts
    <3>1. IsFiniteSet(RowsOf("job", m)) /\ Len(log) + 1 \notin RowsOf("job", m)
      <4>1. RowsOf("job", m) \subseteq 1..Len(log) /\ IsFiniteSet(RowsOf("job", m))
        BY <1>1, RowsBelow
      <4> QED BY <3>0, <4>1
    <3>2. Cardinality(RowsOf("job", m) \cup {Len(log) + 1}) = Cardinality(RowsOf("job", m)) + 1
      BY <3>1, FS_AddElement
    <3> QED BY <2>2, <2>3, <3>2
  <2>5. \A i \in RowsOf("job", m)' : \E j \in RowsOf("login", m)' : j < i
    <3>1. PICK j \in RowsOf("login", m) : TRUE
      BY <2>2
    <3>2. j < Len(log) + 1
      <4>1. RowsOf("login", m) \subseteq 1..Len(log) /\ Len(log) \in Nat
        BY <1>1, RowsBelow, StreamParts
      <4> QED BY <4>1
    <3> QED BY <2>2, <2>3, <3>1, <3>2
  <2>6. MinerOK(m)'
    BY <1>2, <1>4, <2>1, <2>2, <2>3, <2>4, <2>5, MinerFrom
  <2>7. \A i \in 1..Len(<<row>>) : <<row>>[i].miner = m
    BY <1>0
  <2> QED BY <1>0, <1>1, <1>2, <2>1, <2>6, <2>7, OneMiner
<1> QED BY <1>3, <1>4

LEMMA Erased ==
    ASSUME NEW m
    PROVE  /\ DOMAIN EntryErased(m) = DOMAIN early \ {m}
           /\ \A x \in DOMAIN early \ {m} : EntryErased(m)[x] = early[x]
BY DEF EntryErased, Restrict

LEMMA DisconnectedStep ==
    ASSUME LiveInv, NEW m \in LMiners, NEW bytes \in RowSizes, NEW broken \in SUBSET clients,
           Disconnected(m, bytes, broken)
    PROVE  LiveInv'
<1> DEFINE row == Row("disconnected", m, bytes)
<1>0. row \in LiveRows /\ row.event = "disconnected" /\ row.miner = m /\ <<row>> \in Seq(LiveRows)
  BY RowOK DEF LiveEvents
<1>1. /\ Emit(<<row>>, broken) /\ running' = running /\ StreamOK(Stream) /\ MinerOK(m)
      /\ miner' = [miner EXCEPT ![m].st = "gone"] /\ early' = EntryErased(m)
      /\ miner \in [LMiners -> [st : MinerStates, jobs : Nat]] /\ DOMAIN early \subseteq LMiners
  BY DEF Disconnected, LiveInv
<1> HIDE DEF row
<1>2. /\ miner' \in [LMiners -> [st : MinerStates, jobs : Nat]]
      /\ miner'[m].st = "gone"
      /\ \A x \in LMiners : x # m => miner'[x] = miner[x]
  BY <1>1 DEF MinerStates
<1>3. /\ DOMAIN early' \subseteq LMiners /\ m \notin DOMAIN early'
      /\ \A x \in LMiners : x # m =>
            (x \in DOMAIN early' <=> x \in DOMAIN early) /\ (x \in DOMAIN early => early'[x] = early[x])
  BY <1>1, Erased
<1>4. RowsOf("job", m)' = RowsOf("job", m) /\ RowsOf("login", m)' = RowsOf("login", m)
  <2>1. RowsOf("job", m)' = RowsOf("job", m) \cup {}
    BY <1>0, <1>1, OneRow
  <2>2. RowsOf("login", m)' = RowsOf("login", m) \cup {}
    BY <1>0, <1>1, OneRow
  <2> QED BY <2>1, <2>2
<1>5. \A i \in RowsOf("job", m) : \E j \in RowsOf("login", m) : j < i
  BY <1>1, RowsAre DEF MinerOK
<1>6. MinerOK(m)'
  BY <1>2, <1>3, <1>4, <1>5, MinerFrom
<1> DEFINE rows == <<row>>
<1>7. rows \in Seq(LiveRows) /\ Emit(rows, broken) /\ \A i \in 1..Len(rows) : rows[i].miner = m
  BY <1>0, <1>1
<1> HIDE DEF rows
<1> QED BY <1>1, <1>2, <1>3, <1>6, <1>7, OneMiner

LEMMA LoginStep ==
    ASSUME LiveInv, NEW m \in LMiners, NEW bytes \in RowSizes, NEW accepted \in BOOLEAN,
           NEW broken \in SUBSET clients, Login(m, bytes, accepted, broken)
    PROVE  LiveInv'
<1> DEFINE row == Row("login", m, bytes)
<1> DEFINE jobsHeld == IF m \in DOMAIN early /\ accepted THEN early[m] ELSE <<>>
<1> DEFINE rows == loginRows(m, row, accepted)
<1> DEFINE n == Len(log)
<1> DEFINE k == Len(jobsHeld)
<1>0. row \in LiveRows /\ row.event = "login" /\ row.miner = m
  BY RowOK DEF LiveEvents
<1>1. /\ Emit(rows, broken) /\ running /\ running' = running /\ StreamOK(Stream) /\ MinerOK(m)
      /\ miner[m].st = "connected"
      /\ miner' = [miner EXCEPT ![m].st = IF accepted THEN "logged" ELSE "refused"] /\ early' = EntryErased(m)
      /\ miner \in [LMiners -> [st : MinerStates, jobs : Nat]] /\ DOMAIN early \subseteq LMiners
  BY DEF Login, LiveInv
<1>2. rows = <<row>> \o jobsHeld
  BY DEF loginRows
<1> HIDE DEF row
<1>3. m \in DOMAIN early /\ early[m] \in Seq(JobsOf(m)) /\ Len(early[m]) = miner[m].jobs /\ RowsOf("job", m) = {}
  BY <1>1, RowsAre DEF MinerOK
<1>4. jobsHeld \in Seq(JobsOf(m)) /\ k \in Nat /\ (accepted => k = miner[m].jobs) /\ (~accepted => k = 0) /\ n \in Nat
  <2>1. n \in Nat
    BY <1>1, StreamParts
  <2>2. CASE accepted
    <3>1. jobsHeld = early[m]
      BY <1>3, <2>2
    <3> HIDE DEF jobsHeld
    <3> QED BY <1>3, <2>1, <2>2, <3>1
  <2>3. CASE ~accepted
    <3>1. jobsHeld = <<>>
      BY <2>3
    <3> HIDE DEF jobsHeld
    <3> QED BY <2>1, <2>3, <3>1
  <2> QED BY <2>2, <2>3
<1> HIDE DEF jobsHeld, rows
<1>a. JobsOf(m) \subseteq LiveRows /\ \A r \in JobsOf(m) : r.event = "job" /\ r.miner = m
  BY DEF JobsOf
<1>5. /\ rows \in Seq(LiveRows) /\ Len(rows) = k + 1 /\ rows[1] = row
      /\ \A i \in 1..k : rows[i + 1] = jobsHeld[i] /\ jobsHeld[i] \in JobsOf(m)
  <2>1. jobsHeld \in Seq(LiveRows)
    BY <1>4, <1>a
  <2> HIDE DEF k
  <2>2. Len(jobsHeld) = k
    BY DEF k
  <2>3. rows \in Seq(LiveRows) /\ Len(rows) = k + 1 /\ rows[1] = row
    BY <1>0, <1>2, <1>4, <2>1, <2>2
  <2>4. \A i \in 1..k : rows[i + 1] = jobsHeld[i] /\ jobsHeld[i] \in JobsOf(m)
    BY <1>0, <1>2, <1>4, <2>1, <2>2
  <2> QED BY <2>3, <2>4
<1> HIDE DEF k, n
<1>6. ASSUME NEW i \in 2..(k + 1) PROVE rows[i].event = "job" /\ rows[i].miner = m
  <2>1. i - 1 \in 1..k /\ (i - 1) + 1 = i
    BY <1>4
  <2>2. rows[i] = jobsHeld[i - 1] /\ jobsHeld[i - 1] \in JobsOf(m)
    BY <1>5, <2>1
  <2> QED BY <1>a, <2>2
<1>7. \A i \in 1..Len(rows) : rows[i].miner = m
  <2>1. ASSUME NEW i \in 1..Len(rows) PROVE i = 1 \/ i \in 2..(k + 1)
    BY <1>4, <1>5
  <2> QED BY <1>0, <1>5, <1>6, <2>1
<1>8. RowsOf("job", m)' = (n + 2)..(n + k + 1)
  <2>1. ASSUME NEW j PROVE j \in RowsOf("job", m)' <=> j \in (n + 2)..(n + k + 1)
    <3>1. j \in RowsOf("job", m)' <=>
            \E i \in 1..Len(rows) : j = n + i /\ rows[i].event = "job" /\ rows[i].miner = m
      <4>1. j \in RowsOf("job", m)' <=>
              \/ j \in RowsOf("job", m)
              \/ \E i \in 1..Len(rows) : j = Len(log) + i /\ rows[i].event = "job" /\ rows[i].miner = m
        BY <1>1, <1>5, NewRows
      <4> QED BY <1>3, <4>1 DEF n
    <3>2. \A i \in 1..Len(rows) : rows[i].event = "job" <=> i \in 2..(k + 1)
      <4>1. ASSUME NEW i \in 1..Len(rows) PROVE i = 1 \/ i \in 2..(k + 1)
        BY <1>4, <1>5
      <4>2. rows[1].event # "job" /\ 1 \notin 2..(k + 1)
        BY <1>0, <1>4, <1>5
      <4> QED BY <1>6, <4>1, <4>2
    <3>3. j \in RowsOf("job", m)' <=> \E i \in 2..(k + 1) : j = n + i
      <4>1. \A i \in 2..(k + 1) : i \in 1..Len(rows)
        BY <1>4, <1>5
      <4>2. ASSUME NEW i \in 2..(k + 1), j = n + i PROVE j \in RowsOf("job", m)'
        <5>1. i \in 1..Len(rows) /\ rows[i].event = "job" /\ rows[i].miner = m
          BY <1>6, <4>1
        <5> QED BY <3>1, <4>2, <5>1
      <4>3. ASSUME j \in RowsOf("job", m)' PROVE \E i \in 2..(k + 1) : j = n + i
        <5>1. PICK i \in 1..Len(rows) : j = n + i /\ rows[i].event = "job"
          BY <3>1, <4>3
        <5>2. i \in 2..(k + 1)
          BY <3>2, <5>1
        <5> QED BY <5>1, <5>2
      <4> QED BY <4>2, <4>3
    <3>4. (\E i \in 2..(k + 1) : j = n + i) <=> j \in (n + 2)..(n + k + 1)
      <4>1. ASSUME NEW i \in 2..(k + 1), j = n + i PROVE j \in (n + 2)..(n + k + 1)
        BY <1>4, <4>1
      <4>2. ASSUME j \in (n + 2)..(n + k + 1) PROVE \E i \in 2..(k + 1) : j = n + i
        <5>1. j - n \in 2..(k + 1) /\ j = n + (j - n)
          BY <1>4, <4>2
        <5> QED BY <5>1
      <4> QED BY <4>1, <4>2
    <3> QED BY <3>3, <3>4
  <2> QED BY <2>1
<1>9. n + 1 \in RowsOf("login", m)'
  <2>1. 1 \in 1..Len(rows)
    BY <1>4, <1>5
  <2>2. n + 1 \in RowsOf("login", m)' <=>
              \/ n + 1 \in RowsOf("login", m)
              \/ \E i \in 1..Len(rows) : n + 1 = Len(log) + i /\ rows[i].event = "login" /\ rows[i].miner = m
    BY <1>1, <1>5, NewRows
  <2> QED BY <1>0, <1>5, <2>1, <2>2 DEF n
<1>10. Cardinality(RowsOf("job", m)') = k
  <2>1. n + 2 \in Int /\ n + k + 1 \in Int
    BY <1>4
  <2>2. Cardinality((n + 2)..(n + k + 1)) = IF n + 2 > n + k + 1 THEN 0 ELSE (n + k + 1) - (n + 2) + 1
    BY <2>1, FS_Interval
  <2> QED BY <1>4, <1>8, <2>2
<1>11. /\ miner' \in [LMiners -> [st : MinerStates, jobs : Nat]]
       /\ miner'[m].st = (IF accepted THEN "logged" ELSE "refused") /\ miner'[m].jobs = miner[m].jobs
       /\ \A x \in LMiners : x # m => miner'[x] = miner[x]
  BY <1>1 DEF MinerStates
<1>12. /\ DOMAIN early' \subseteq LMiners /\ m \notin DOMAIN early'
       /\ \A x \in LMiners : x # m =>
             (x \in DOMAIN early' <=> x \in DOMAIN early) /\ (x \in DOMAIN early => early'[x] = early[x])
  BY <1>1, Erased
<1>13. \A i \in RowsOf("job", m)' : \E j \in RowsOf("login", m)' : j < i
  <2>1. \A i \in (n + 2)..(n + k + 1) : n + 1 < i
    BY <1>4
  <2> QED BY <1>8, <1>9, <2>1
<1>14. ~accepted => RowsOf("job", m)' = {}
  <2>1. ~accepted => (n + 2)..(n + k + 1) = {}
    BY <1>4
  <2> QED BY <1>8, <2>1
<1>15. MinerOK(m)'
  BY <1>4, <1>9, <1>10, <1>11, <1>12, <1>13, <1>14, MinerFrom
<1> QED BY <1>1, <1>5, <1>7, <1>11, <1>12, <1>15, OneMiner

LEMMA LiveStep == LiveInv /\ [LiveNext]_liveVars => LiveInv'
<1> SUFFICES ASSUME LiveInv, [LiveNext]_liveVars PROVE LiveInv'
  OBVIOUS
<1>1. CASE UNCHANGED liveVars
  <2>1. UNCHANGED <<log, early, miner, running, clients, subs>>
    BY <1>1 DEF liveVars
  <2>2. StreamOK(Stream')
    <3>1. Stream' = Stream
      BY <2>1 DEF Stream
    <3> QED BY <3>1 DEF LiveInv
  <2>3. StreamOK(Stream)' /\ running \in BOOLEAN
    BY <2>2 DEF StreamOK, LiveInv
  <2> QED BY <2>1, <2>3, OnlyClients
<1>2. CASE LiveNext
  BY <1>2, LiveStopStep, ReadOrEndStep, ClientClosedStep, AcceptStep, WriteDoneStep, OtherRowStep, ConnectedStep,
     JobSentStep, DisconnectedStep, LoginStep DEF LiveNext, DaemonRow, ResultRow, RejectedRow
<1> QED BY <1>1, <1>2

(***************************************************************************)
(* Log files: a line is known by its place among those that were said.     *)
(***************************************************************************)

OrdIn(s, line) == SelectInSeq(s, LAMBDA l : l = line)
SaidIn(s, line) == \E k \in 1..Len(s) : s[k] = line

LEMMA OrdinalAt ==
    ASSUME NEW A, NEW s \in Seq(A), Uniq(s), NEW k \in 1..Len(s)
    PROVE  OrdIn(s, s[k]) = k
<1>1. {i \in 1..Len(s) : s[i] = s[k]} = {k}
  BY DEF Uniq
<1>2. Min({k}) = k
  BY DEF Min
<1> QED BY <1>1, <1>2 DEF OrdIn, SelectInSeq

LEMMA OrdinalOf ==
    /\ \A line : Ordinal(line) = OrdIn(said, line)
    /\ \A line : Ordinal(line)' = OrdIn(said', line)
BY DEF Ordinal, OrdIn, SelectInSeq

LEMMA OrdinalKnown ==
    ASSUME NEW A, NEW s \in Seq(A), Uniq(s), NEW line, SaidIn(s, line)
    PROVE  OrdIn(s, line) \in 1..Len(s) /\ s[OrdIn(s, line)] = line
BY OrdinalAt DEF SaidIn

\* A line that is said keeps its place when another one is.
LEMMA OrdinalKeeps ==
    ASSUME NEW A, NEW s \in Seq(A), NEW x \in A, Uniq(s), ~SaidIn(s, x)
    PROVE  /\ Append(s, x) \in Seq(A) /\ Uniq(Append(s, x))
           /\ OrdIn(Append(s, x), x) = Len(s) + 1 /\ SaidIn(Append(s, x), x)
           /\ \A line : SaidIn(s, line) =>
                 SaidIn(Append(s, x), line) /\ OrdIn(Append(s, x), line) = OrdIn(s, line)
<1> DEFINE t == Append(s, x)
<1>1. /\ t \in Seq(A) /\ Len(t) = Len(s) + 1 /\ Len(s) \in Nat /\ t[Len(s) + 1] = x
      /\ \A k \in 1..Len(s) : t[k] = s[k]
  OBVIOUS
<1> HIDE DEF t
<1>2. Uniq(t)
  <2>1. ASSUME NEW i \in 1..Len(t), NEW j \in 1..Len(t), t[i] = t[j] PROVE i = j
    <3>1. CASE i \in 1..Len(s) /\ j \in 1..Len(s)
      BY <1>1, <2>1, <3>1 DEF Uniq
    <3>2. CASE i = Len(s) + 1 /\ j \in 1..Len(s)
      BY <1>1, <2>1, <3>2 DEF SaidIn
    <3>3. CASE j = Len(s) + 1 /\ i \in 1..Len(s)
      BY <1>1, <2>1, <3>3 DEF SaidIn
    <3>4. CASE i = Len(s) + 1 /\ j = Len(s) + 1
      BY <3>4
    <3> QED BY <1>1, <3>1, <3>2, <3>3, <3>4
  <2> QED BY <2>1 DEF Uniq
<1>3. OrdIn(t, x) = Len(s) + 1 /\ SaidIn(t, x)
  <2>1. Len(s) + 1 \in 1..Len(t)
    BY <1>1
  <2>2. OrdIn(t, t[Len(s) + 1]) = Len(s) + 1
    BY <1>1, <1>2, <2>1, OrdinalAt
  <2> QED BY <1>1, <2>1, <2>2 DEF SaidIn
<1>4. ASSUME NEW line, SaidIn(s, line) PROVE SaidIn(t, line) /\ OrdIn(t, line) = OrdIn(s, line)
  <2>1. PICK k \in 1..Len(s) : s[k] = line
    BY <1>4 DEF SaidIn
  <2>2. k \in 1..Len(t) /\ t[k] = line
    BY <1>1, <2>1
  <2>3. OrdIn(s, s[k]) = k
    BY OrdinalAt
  <2>4. OrdIn(t, t[k]) = k
    BY <1>1, <1>2, <2>2, OrdinalAt
  <2> QED BY <2>1, <2>2, <2>3, <2>4 DEF SaidIn
<1> QED BY <1>1, <1>2, <1>3, <1>4 DEF t

(***************************************************************************)
(* The places of lines that are kept, and the size of the file             *)
(***************************************************************************)

LineSet == ({"message"} \X Nat) \cup ({"login", "close"} \X AMiners)
KeptLines == [line : LineSet, size : Nat \ {0}]

LEMMA Places ==
    ASSUME NEW l, l.buffers \in Seq(KeptLines), l.pos \in Nat
    PROVE  /\ PlaceOf(l, 1) = l.pos
           /\ \A i \in 1..(Len(l.buffers) + 1) : PlaceOf(l, i) \in Nat
           /\ \A i \in 1..Len(l.buffers) : PlaceOf(l, i + 1) = PlaceOf(l, i) + l.buffers[i].size
<1> DEFINE b == l.buffers
<1> DEFINE N == Len(b)
<1> DEFINE place[n \in 1..(N + 1)] == IF n = 1 THEN l.pos ELSE place[n - 1] + b[n - 1].size
<1> DEFINE g == [k \in 1..N |-> [x \in Nat |-> x + b[k].size]]
<1>0. N \in Nat /\ \A k \in 1..N : b[k].size \in Nat
  <2>1. N \in Nat
    OBVIOUS
  <2>2. ASSUME NEW k \in 1..N PROVE b[k].size \in Nat
    <3>1. b[k] \in KeptLines
      OBVIOUS
    <3> QED BY <3>1 DEF KeptLines
  <2> QED BY <2>1, <2>2
<1>1. g \in [1..N -> [Nat -> Nat]]
  BY <1>0
<1>2. PICK f \in [0..N -> Nat] : f[0] = l.pos /\ \A k \in 1..N : f[k] = g[k][f[k - 1]]
  <2> HIDE DEF g, N
  <2>1. \E f : Stepwise(f, N, Nat, l.pos, g)
    BY <1>0, <1>1, StepwiseExists
  <2> QED BY <2>1 DEF Stepwise
<1>3. ASSUME NEW k \in 1..N PROVE f[k] = f[k - 1] + b[k].size /\ f[k - 1] \in Nat
  <2>1. k - 1 \in 0..N
    BY <1>0
  <2>2. f[k - 1] \in Nat
    BY <2>1
  <2> QED BY <1>2, <2>2
<1> DEFINE h == [n \in 1..(N + 1) |-> f[n - 1]]
<1>4. h = [n \in 1..(N + 1) |-> IF n = 1 THEN l.pos ELSE h[n - 1] + b[n - 1].size]
  <2>1. ASSUME NEW n \in 1..(N + 1) PROVE h[n] = IF n = 1 THEN l.pos ELSE h[n - 1] + b[n - 1].size
    <3>1. CASE n = 1
      BY <1>2, <3>1
    <3>2. CASE n # 1
      <4>1. n - 1 \in 1..N /\ n - 1 \in 1..(N + 1)
        BY <1>0, <3>2
      <4>2. f[n - 1] = f[(n - 1) - 1] + b[n - 1].size
        BY <1>3, <4>1
      <4>3. h[n] = f[n - 1] /\ h[n - 1] = f[(n - 1) - 1]
        BY <4>1
      <4> QED BY <3>2, <4>2, <4>3
    <3> QED BY <3>1, <3>2
  <2>2. h = [n \in 1..(N + 1) |-> h[n]]
    OBVIOUS
  <2> HIDE DEF h
  <2> QED BY <2>1, <2>2
<1>5. place = [n \in 1..(N + 1) |-> IF n = 1 THEN l.pos ELSE place[n - 1] + b[n - 1].size]
  <2> HIDE DEF h
  <2> QED BY <1>4
<1>6. \A i : PlaceOf(l, i) = place[i]
  BY DEF PlaceOf
<1> HIDE DEF place, g
<1>7. \A k \in 0..N : place[k + 1] = f[k]
  <2> DEFINE S == {k \in 0..N : place[k + 1] = f[k]}
  <2> HIDE DEF N
  <2>1. 0 \in S
    BY <1>0, <1>2, <1>5
  <2>2. ASSUME NEW k \in 1..N, k - 1 \in S PROVE k \in S
    <3>1. k \in 0..N /\ k + 1 \in 1..(N + 1) /\ k + 1 # 1 /\ (k + 1) - 1 = k /\ (k - 1) + 1 = k
      BY <1>0
    <3>2. place[k + 1] = place[(k + 1) - 1] + b[(k + 1) - 1].size
      BY <1>5, <3>1
    <3>3. place[k] = f[k - 1]
      BY <2>2, <3>1
    <3> QED BY <1>3, <3>1, <3>2, <3>3
  <2> HIDE DEF S
  <2>3. \A k \in 0..N : k \in S
    BY <1>0, <2>1, <2>2, UpTo
  <2> QED BY <2>3 DEF S
<1> HIDE DEF N
<1>8. PlaceOf(l, 1) = l.pos
  BY <1>0, <1>2, <1>6, <1>7
<1>9. ASSUME NEW i \in 1..(N + 1) PROVE PlaceOf(l, i) \in Nat
  <2>1. i - 1 \in 0..N /\ (i - 1) + 1 = i
    BY <1>0
  <2>2. place[i] = f[i - 1] /\ f[i - 1] \in Nat
    BY <1>7, <2>1
  <2> QED BY <1>6, <2>2
<1>10. ASSUME NEW i \in 1..N PROVE PlaceOf(l, i + 1) = PlaceOf(l, i) + b[i].size
  <2>1. i - 1 \in 0..N /\ (i - 1) + 1 = i /\ i \in 0..N
    BY <1>0
  <2>2. place[i] = f[i - 1] /\ place[i + 1] = f[i]
    BY <1>7, <2>1
  <2> QED BY <1>3, <1>6, <2>2
<1> QED BY <1>8, <1>9, <1>10 DEF N

\* A line that is kept ends before the later ones begin.
LEMMA PlacesInOrder ==
    ASSUME NEW l, l.buffers \in Seq(KeptLines), l.pos \in Nat,
           NEW i \in 1..Len(l.buffers), NEW j \in 1..(Len(l.buffers) + 1), i < j
    PROVE  PlaceOf(l, i) + l.buffers[i].size <= PlaceOf(l, j)
<1> DEFINE N == Len(l.buffers)
<1>0. N \in Nat /\ \A k \in 1..N : l.buffers[k].size \in Nat
  <2>1. N \in Nat
    OBVIOUS
  <2>2. ASSUME NEW k \in 1..N PROVE l.buffers[k].size \in Nat
    <3>1. l.buffers[k] \in KeptLines
      OBVIOUS
    <3> QED BY <3>1 DEF KeptLines
  <2> QED BY <2>1, <2>2
<1> HIDE DEF N
<1>1. /\ \A k \in 1..(N + 1) : PlaceOf(l, k) \in Nat
      /\ \A k \in 1..N : PlaceOf(l, k + 1) = PlaceOf(l, k) + l.buffers[k].size
  BY Places DEF N
<1> DEFINE n == N - i
<1> DEFINE S == {k \in 0..n : PlaceOf(l, i + 1) <= PlaceOf(l, i + 1 + k)}
<1>2. i \in 1..N /\ n \in Nat /\ i \in Nat
  BY <1>0 DEF N
<1>3. 0 \in S
  <2>1. i + 1 \in 1..(N + 1) /\ i + 1 + 0 = i + 1
    BY <1>0, <1>2
  <2>2. PlaceOf(l, i + 1) \in Nat
    BY <1>1, <2>1
  <2>3. PlaceOf(l, i + 1 + 0) = PlaceOf(l, i + 1)
    BY <2>1
  <2>4. PlaceOf(l, i + 1) <= PlaceOf(l, i + 1 + 0)
    BY <2>2, <2>3
  <2>5. 0 \in 0..n
    BY <1>2
  <2> HIDE DEF n
  <2>6. \A k \in {0} : k \in S
    <3>1. ASSUME NEW k, k = 0 PROVE k \in S
      <4>1. PlaceOf(l, i + 1) <= PlaceOf(l, i + 1 + k)
        BY <2>4, <3>1
      <4> QED BY <2>5, <3>1, <4>1
    <3> QED BY <3>1
  <2> QED BY <2>6
<1>4. ASSUME NEW k \in 1..n, k - 1 \in S PROVE k \in S
  <2>1. i + k \in 1..N /\ i + 1 + (k - 1) = i + k /\ i + 1 + k = (i + k) + 1 /\ i + k \in 1..(N + 1)
    <3>1. k \in Nat /\ 1 <= k /\ k <= N - i /\ i \in Nat /\ 1 <= i /\ i <= N
      BY <1>0, <1>2
    <3>2. i + k \in Nat /\ 1 <= i + k /\ i + k <= N
      BY <1>0, <3>1
    <3> QED BY <1>0, <3>1, <3>2
  <2>2. PlaceOf(l, (i + k) + 1) = PlaceOf(l, i + k) + l.buffers[i + k].size /\ l.buffers[i + k].size \in Nat
    BY <1>0, <1>1, <2>1
  <2>3. PlaceOf(l, i + 1) <= PlaceOf(l, i + k)
    BY <1>4, <2>1
  <2>4. PlaceOf(l, i + k) \in Nat /\ PlaceOf(l, i + 1) \in Nat
    BY <1>0, <1>1, <1>2, <2>1
  <2>5. PlaceOf(l, i + 1) <= PlaceOf(l, (i + k) + 1)
    <3> DEFINE a == PlaceOf(l, i + 1)
    <3> DEFINE b == PlaceOf(l, i + k)
    <3> DEFINE c == l.buffers[i + k].size
    <3>1. a \in Nat /\ b \in Nat /\ c \in Nat /\ a <= b
      BY <2>2, <2>3, <2>4
    <3> HIDE DEF a, b, c
    <3>2. a <= b + c
      BY <3>1
    <3> QED BY <2>2, <3>2 DEF a, b, c
  <2>6. k \in 0..n
    BY <1>2
  <2> QED BY <2>1, <2>5, <2>6
<1> HIDE DEF S
<1>5. \A k \in 0..n : k \in S
  <2> HIDE DEF n
  <2> QED BY <1>2, <1>3, <1>4, UpTo
<1>6. j - (i + 1) \in 0..n /\ i + 1 + (j - (i + 1)) = j
  BY <1>0, <1>2 DEF N
<1>7. PlaceOf(l, i + 1) <= PlaceOf(l, j)
  BY <1>5, <1>6 DEF S
<1> QED BY <1>1, <1>2, <1>7

\* The greatest number of a bounded set.
LEMMA GreatestNumber ==
    ASSUME NEW S \in SUBSET Nat, S # {}, NEW N \in Nat, \A s \in S : s <= N
    PROVE  \E e \in S : \A o \in S : o <= e
<1> DEFINE T == {N - s : s \in S}
<1>1. T \in SUBSET Nat /\ T # {}
  <2>1. ASSUME NEW s \in S PROVE N - s \in Nat
    BY s <= N
  <2> QED BY <2>1
<1>2. PICK t \in T : \A u \in T : t <= u
  <2> HIDE DEF T
  <2> QED BY <1>1, LeastNumber
<1>3. PICK e \in S : t = N - e
  BY <1>2
<1>4. ASSUME NEW o \in S PROVE o <= e
  <2>1. t <= N - o
    BY <1>2
  <2> QED BY <1>3, <2>1
<1> QED BY <1>4

(***************************************************************************)
(* The invariant of the log files                                          *)
(***************************************************************************)

LoggerFields == {"kind", "file", "pos", "buffers", "wake"}
WriteType == [line : LineSet, size : Nat \ {0}, at : Nat, st : {"going", "done", "short", "lost"}]

LoggerOK ==
    /\ DOMAIN logger = LoggerFields /\ logger.kind \in {"messages", "miners"}
    /\ logger.file \in BOOLEAN /\ logger.wake \in BOOLEAN
    /\ logger.pos \in Nat /\ logger.buffers \in Seq(KeptLines)
    /\ logger.buffers # <<>> => logger.wake
    /\ logger.wake => logger.file

\* What was said, by the kind of the log.
SaidOK(s, kind) ==
    /\ s \in Seq(LineSet) /\ Uniq(s)
    /\ kind = "messages" => \A k \in 1..Len(s) : s[k] = <<"message", k>>
    /\ kind = "miners" => \A k \in 1..Len(s) : s[k] \in {"login", "close"} \X AMiners
    /\ \A k \in 1..Len(s) : s[k][1] = "close" => \E j \in 1..(k - 1) : s[j] = <<"login", s[k][2]>>

\* What was said of a miner.
VisitorOK(m) ==
    /\ visitors[m] = "new" => ~SaidIn(said, <<"login", m>>)
    /\ visitors[m] # "gone" => ~SaidIn(said, <<"close", m>>)
    /\ visitors[m] = "mapped" /\ logger.file => SaidIn(said, <<"login", m>>)

EndsBefore(n) == \A w \in written : w.at + w.size <= n

WrittenOK ==
    /\ written \subseteq WriteType
    /\ \A w \in written : SaidIn(said, w.line)
    /\ \A v, w \in written : v.line = w.line => v = w
    /\ \E n \in Nat : EndsBefore(n)
    /\ \A v, w \in written :
         v.st # "lost" /\ w.st # "lost" /\ Ordinal(v.line) < Ordinal(w.line) => v.at + v.size <= w.at
    /\ logger.file => \A w \in written : w.st # "lost" => w.at + w.size <= logger.pos

BuffersOK ==
    /\ \A i \in 1..Len(logger.buffers) : SaidIn(said, logger.buffers[i].line)
    /\ \A i, j \in 1..Len(logger.buffers) :
         i < j => Ordinal(logger.buffers[i].line) < Ordinal(logger.buffers[j].line)
    /\ \A w \in written, i \in 1..Len(logger.buffers) : Ordinal(w.line) < Ordinal(logger.buffers[i].line)

LogInv ==
    /\ LoggerOK /\ SaidOK(said, logger.kind)
    /\ visitors \in [AMiners -> {"new", "mapped", "gone"}] /\ \A m \in AMiners : VisitorOK(m)
    /\ WrittenOK /\ BuffersOK

LEMMA LogStart == LogInit => LogInv
<1> SUFFICES ASSUME LogInit PROVE LogInv
  OBVIOUS
<1>0. /\ written = {} /\ said = <<>> /\ visitors = [m \in AMiners |-> "new"]
      /\ \E kind \in {"messages", "miners"} : logger = NewLogger(kind)
  BY DEF LogInit
<1>1. PICK kind \in {"messages", "miners"} : logger = NewLogger(kind)
  BY <1>0
<1>2. logger = [kind |-> kind, file |-> FALSE, pos |-> 0, buffers |-> <<>>, wake |-> FALSE]
  BY <1>1 DEF NewLogger
<1>3. LoggerOK
  BY <1>2 DEF LoggerOK, LoggerFields
<1>4. Len(said) = 0 /\ said \in Seq(LineSet)
  BY <1>0
<1>5. SaidOK(said, logger.kind) /\ \A line : ~SaidIn(said, line)
  BY <1>4 DEF SaidOK, Uniq, SaidIn
<1>6. visitors \in [AMiners -> {"new", "mapped", "gone"}] /\ \A m \in AMiners : VisitorOK(m)
  BY <1>0, <1>5 DEF VisitorOK
<1>7. WrittenOK
  BY <1>0 DEF WrittenOK, EndsBefore
<1>8. Len(logger.buffers) = 0
  BY <1>2
<1>9. BuffersOK
  BY <1>8 DEF BuffersOK
<1> QED BY <1>3, <1>5, <1>6, <1>7, <1>9 DEF LogInv

LEMMA LogTrue == LogInv => LogsIntact
<1> SUFFICES ASSUME LogInv PROVE LogsIntact
  OBVIOUS
<1>0. said \in Seq(LineSet) /\ Uniq(said) /\ DOMAIN said = 1..Len(said)
  BY DEF LogInv, SaidOK
<1>a. \A line : SaidIn(said, line) => Ordinal(line) \in 1..Len(said) /\ said[Ordinal(line)] = line
  BY <1>0, OrdinalOf, OrdinalKnown
<1>1. ASSUME NEW v \in Kept, NEW w \in Kept, v # w
      PROVE  Ordinal(v.line) < Ordinal(w.line) \/ Ordinal(w.line) < Ordinal(v.line)
  <2>1. v \in written /\ w \in written
    BY DEF Kept
  <2>2. v.line # w.line /\ SaidIn(said, v.line) /\ SaidIn(said, w.line)
    BY <1>1, <2>1 DEF LogInv, WrittenOK
  <2>3. /\ Ordinal(v.line) \in 1..Len(said) /\ said[Ordinal(v.line)] = v.line
        /\ Ordinal(w.line) \in 1..Len(said) /\ said[Ordinal(w.line)] = w.line
    BY <1>a, <2>2
  <2> QED BY <2>2, <2>3
<1>2. ASSUME NEW v \in Kept, NEW w \in Kept, Ordinal(v.line) < Ordinal(w.line) PROVE v.at + v.size <= w.at
  <2>1. v \in written /\ w \in written /\ v.st # "lost" /\ w.st # "lost"
    BY DEF Kept
  <2> QED BY <1>2, <2>1 DEF LogInv, WrittenOK
<1>3. DOMAIN logger.buffers = 1..Len(logger.buffers) /\ (logger.buffers # <<>> => logger.wake)
  BY DEF LogInv, LoggerOK
<1>4. \A i, j \in DOMAIN logger.buffers : i < j => Ordinal(logger.buffers[i].line) < Ordinal(logger.buffers[j].line)
  BY <1>3 DEF LogInv, BuffersOK
<1>5. \A i \in DOMAIN said : said[i][1] = "close" => \E j \in 1..(i - 1) : said[j] = <<"login", said[i][2]>>
  BY <1>0 DEF LogInv, SaidOK
<1> QED BY <1>1, <1>2, <1>3, <1>4, <1>5 DEF LogsIntact

\* A line that is new is said and kept.
LEMMA LineKept ==
    ASSUME LogInv, logger.file, NEW x \in LineSet, ~SaidIn(said, x), NEW bytes \in LineSizes,
           said' = Append(said, x), written' = written,
           logger' = [logger EXCEPT !.buffers = Append(logger.buffers, [line |-> x, size |-> bytes]), !.wake = TRUE],
           SaidOK(said', logger.kind),
           visitors' \in [AMiners -> {"new", "mapped", "gone"}], \A m \in AMiners : VisitorOK(m)'
    PROVE  LogInv'
<1> DEFINE b == logger.buffers
<1> DEFINE e == [line |-> x, size |-> bytes]
<1> DEFINE c == Append(b, e)
<1>0. /\ LoggerOK /\ said \in Seq(LineSet) /\ Uniq(said) /\ WrittenOK /\ BuffersOK /\ b \in Seq(KeptLines)
      /\ Len(said) \in Nat /\ bytes \in Nat \ {0}
  BY LogFileAssumption DEF LogInv, LoggerOK, SaidOK
<1>1. e \in KeptLines /\ e.line = x
  BY <1>0 DEF KeptLines
<1>2. /\ c \in Seq(KeptLines) /\ c # <<>> /\ Len(c) = Len(b) + 1 /\ Len(b) \in Nat
      /\ c[Len(b) + 1] = e /\ \A i \in 1..Len(b) : c[i] = b[i]
  <2> HIDE DEF b, e
  <2>1. b \in Seq(KeptLines) /\ e \in KeptLines
    BY <1>0, <1>1
  <2>2. /\ c \in Seq(KeptLines) /\ Len(c) = Len(b) + 1 /\ Len(b) \in Nat
        /\ c[Len(b) + 1] = e /\ \A i \in 1..Len(b) : c[i] = b[i]
    BY <2>1
  <2>3. c # <<>>
    BY <2>2
  <2> QED BY <2>2, <2>3
<1>3. /\ DOMAIN logger' = LoggerFields /\ logger'.buffers = c /\ logger'.wake = TRUE
      /\ logger'.kind = logger.kind /\ logger'.file = logger.file /\ logger'.pos = logger.pos
  BY <1>0 DEF LoggerOK, LoggerFields
<1> HIDE DEF b, c, e
<1>4. LoggerOK'
  BY <1>0, <1>2, <1>3 DEF LoggerOK
<1>5. /\ OrdIn(said', x) = Len(said) + 1 /\ SaidIn(said', x)
      /\ \A line : SaidIn(said, line) =>
            SaidIn(said', line) /\ OrdIn(said', line) = Ordinal(line) /\ Ordinal(line) < Len(said) + 1
  <2>1. /\ OrdIn(said', x) = Len(said) + 1 /\ SaidIn(said', x)
        /\ \A line : SaidIn(said, line) => SaidIn(said', line) /\ OrdIn(said', line) = OrdIn(said, line)
    BY <1>0, OrdinalKeeps
  <2>2. \A line : SaidIn(said, line) => OrdIn(said, line) \in 1..Len(said)
    BY <1>0, OrdinalKnown
  <2>3. \A line : SaidIn(said, line) => OrdIn(said, line) < Len(said) + 1
    BY <1>0, <2>2
  <2> QED BY <2>1, <2>3, OrdinalOf
<1>6. WrittenOK'
  <2>1. /\ \A w \in written : SaidIn(said, w.line)
        /\ \A w \in written : SaidIn(said', w.line) /\ OrdIn(said', w.line) = Ordinal(w.line)
    BY <1>0, <1>5 DEF WrittenOK
  <2>2. \A v, w \in written :
           v.st # "lost" /\ w.st # "lost" /\ OrdIn(said', v.line) < OrdIn(said', w.line) => v.at + v.size <= w.at
    BY <1>0, <2>1 DEF WrittenOK
  <2>3. \E n \in Nat : EndsBefore(n)'
    BY <1>0 DEF WrittenOK, EndsBefore
  <2>4. logger'.file => \A w \in written : w.st # "lost" => w.at + w.size <= logger'.pos
    BY <1>0, <1>3 DEF WrittenOK
  <2>5. written \subseteq WriteType /\ \A v, w \in written : v.line = w.line => v = w
    BY <1>0 DEF WrittenOK
  <2> QED BY <2>1, <2>2, <2>3, <2>4, <2>5, OrdinalOf DEF WrittenOK
<1>7. BuffersOK'
  <2>1. ASSUME NEW i \in 1..Len(b)
        PROVE  SaidIn(said', b[i].line) /\ OrdIn(said', b[i].line) = Ordinal(b[i].line) /\ Ordinal(b[i].line) < Len(said) + 1
    BY <1>0, <1>5 DEF BuffersOK, b
  <2>2. ASSUME NEW i \in 1..Len(c) PROVE SaidIn(said', c[i].line)
    <3>1. CASE i \in 1..Len(b)
      BY <1>2, <2>1, <3>1
    <3>2. CASE i = Len(b) + 1
      BY <1>1, <1>2, <1>5, <3>2
    <3> QED BY <1>2, <3>1, <3>2
  <2>3. ASSUME NEW i \in 1..Len(c), NEW j \in 1..Len(c), i < j
        PROVE  OrdIn(said', c[i].line) < OrdIn(said', c[j].line)
    <3>1. i \in 1..Len(b) /\ c[i] = b[i]
      BY <1>2, <2>3
    <3>2. CASE j \in 1..Len(b)
      <4>1. Ordinal(b[i].line) < Ordinal(b[j].line) /\ c[j] = b[j]
        BY <1>0, <1>2, <2>3, <3>1, <3>2 DEF BuffersOK, b
      <4> QED BY <2>1, <3>1, <3>2, <4>1
    <3>3. CASE j = Len(b) + 1
      <4>1. c[j].line = x
        BY <1>1, <1>2, <3>3
      <4> QED BY <1>5, <2>1, <3>1, <4>1
    <3> QED BY <1>2, <3>2, <3>3
  <2>4. ASSUME NEW w \in written, NEW i \in 1..Len(c) PROVE OrdIn(said', w.line) < OrdIn(said', c[i].line)
    <3>0. SaidIn(said, w.line)
      BY <1>0 DEF WrittenOK
    <3>1. CASE i \in 1..Len(b)
      <4>1. Ordinal(w.line) < Ordinal(b[i].line) /\ c[i] = b[i]
        BY <1>0, <1>2, <3>1 DEF BuffersOK, b
      <4> QED BY <1>5, <2>1, <3>0, <3>1, <4>1
    <3>2. CASE i = Len(b) + 1
      <4>1. c[i].line = x
        BY <1>1, <1>2, <3>2
      <4> QED BY <1>5, <3>0, <4>1
    <3> QED BY <1>2, <3>1, <3>2
  <2> QED BY <1>3, <2>2, <2>3, <2>4, OrdinalOf DEF BuffersOK
<1> QED BY <1>3, <1>4, <1>6, <1>7 DEF LogInv

\* A step that the file does not notice.
LEMMA OnlyVisitors ==
    ASSUME LogInv, UNCHANGED <<logger, written, said>>,
           visitors' \in [AMiners -> {"new", "mapped", "gone"}], \A m \in AMiners : VisitorOK(m)'
    PROVE  LogInv'
<1>1. \A line : Ordinal(line)' = Ordinal(line)
  BY OrdinalOf
<1>2. LoggerOK' /\ SaidOK(said, logger.kind)'
  BY DEF LogInv, LoggerOK, SaidOK
<1>3. WrittenOK'
  BY <1>1 DEF LogInv, WrittenOK, EndsBefore
<1>4. BuffersOK'
  BY <1>1 DEF LogInv, BuffersOK
<1> QED BY <1>2, <1>3, <1>4 DEF LogInv

\* Writes that are those of before, fewer, at another state or shorter.
LEMMA WritesKeep ==
    ASSUME WrittenOK, said' = said, written' \subseteq WriteType,
           \A v \in written' : \E o \in written :
              o.line = v.line /\ o.at = v.at /\ v.size <= o.size /\ (v.st # "lost" => o.st # "lost"),
           \A v, w \in written' : v.line = w.line => v = w,
           logger.pos \in Nat, logger'.file => logger.file /\ logger'.pos = logger.pos
    PROVE  WrittenOK'
<1>1. \A line : Ordinal(line)' = Ordinal(line)
  BY OrdinalOf
<1>2. \A w \in written' : SaidIn(said', w.line)
  BY DEF WrittenOK
<1>a. \A w \in written : w.at \in Nat /\ w.size \in Nat
  BY DEF WrittenOK, WriteType
<1>b. \A w \in written' : w.at \in Nat /\ w.size \in Nat
  BY DEF WriteType
<1>3. \E n \in Nat : EndsBefore(n)'
  <2>1. PICK n \in Nat : EndsBefore(n)
    BY DEF WrittenOK
  <2>2. ASSUME NEW v \in written' PROVE v.at + v.size <= n
    <3>1. PICK o \in written : o.at = v.at /\ v.size <= o.size
      OBVIOUS
    <3>2. o.at + o.size <= n
      BY <2>1 DEF EndsBefore
    <3> QED BY <1>a, <1>b, <3>1, <3>2
  <2> QED BY <2>2 DEF EndsBefore
<1>4. \A v, w \in written' :
         v.st # "lost" /\ w.st # "lost" /\ OrdIn(said', v.line) < OrdIn(said', w.line) => v.at + v.size <= w.at
  <2>1. ASSUME NEW v \in written', NEW w \in written', v.st # "lost", w.st # "lost",
               OrdIn(said', v.line) < OrdIn(said', w.line)
        PROVE  v.at + v.size <= w.at
    <3>1. PICK o \in written : o.line = v.line /\ o.at = v.at /\ v.size <= o.size /\ o.st # "lost"
      BY <2>1
    <3>2. PICK p \in written : p.line = w.line /\ p.at = w.at /\ w.size <= p.size /\ p.st # "lost"
      BY <2>1
    <3>3. Ordinal(o.line) < Ordinal(p.line)
      BY <2>1, <3>1, <3>2, OrdinalOf
    <3>4. o.at + o.size <= p.at
      BY <3>1, <3>2, <3>3 DEF WrittenOK
    <3> QED BY <1>a, <1>b, <3>1, <3>2, <3>4
  <2> QED BY <2>1
<1>5. logger'.file => \A w \in written' : w.st # "lost" => w.at + w.size <= logger'.pos
  <2>1. ASSUME logger'.file, NEW w \in written', w.st # "lost" PROVE w.at + w.size <= logger'.pos
    <3>1. PICK p \in written : p.line = w.line /\ p.at = w.at /\ w.size <= p.size /\ p.st # "lost"
      BY <2>1
    <3>2. p.at + p.size <= logger.pos /\ logger'.pos = logger.pos
      BY <2>1, <3>1 DEF WrittenOK
    <3>3. logger.pos \in Nat
      OBVIOUS
    <3> QED BY <1>a, <1>b, <3>1, <3>2, <3>3
  <2> QED BY <2>1
<1> QED BY <1>2, <1>3, <1>4, <1>5, OrdinalOf DEF WrittenOK

LEMMA WriteEndsStep ==
    ASSUME LogInv, NEW w \in written, NEW st \in {"done", "short", "lost"}, NEW bytes \in 1..w.size,
           WriteEnds(w, st, bytes)
    PROVE  LogInv'
<1> DEFINE u == [w EXCEPT !.st = st, !.size = bytes]
<1>0. /\ w.st = "going" /\ written' = (written \ {w}) \cup {u} /\ UNCHANGED <<logger, said, visitors>>
      /\ w \in WriteType /\ written \subseteq WriteType /\ WrittenOK /\ BuffersOK
  BY DEF WriteEnds, LogInv, WrittenOK
<1>1. u \in WriteType /\ u.line = w.line /\ u.at = w.at /\ u.size <= w.size
  <2>1. bytes \in Nat \ {0} /\ bytes <= w.size
    BY <1>0 DEF WriteType
  <2> QED BY <1>0, <2>1 DEF WriteType
<1>p. logger.pos \in Nat
  BY DEF LogInv, LoggerOK
<1>s. \A o \in written : o.size <= o.size
  BY <1>0 DEF WriteType
<1> HIDE DEF u
<1>2. ASSUME NEW v \in written'
      PROVE  \E o \in written :
                o.line = v.line /\ o.at = v.at /\ v.size <= o.size /\ (v.st # "lost" => o.st # "lost")
  <2>1. CASE v = u
    BY <1>0, <1>1, <2>1
  <2>2. CASE v # u
    BY <1>0, <1>s, <2>2
  <2> QED BY <2>1, <2>2
<1>3. ASSUME NEW v \in written', NEW x \in written', v.line = x.line PROVE v = x
  <2>1. \A a, b \in written : a.line = b.line => a = b
    BY <1>0 DEF WrittenOK
  <2>2. CASE v = u /\ x = u
    BY <2>2
  <2>3. CASE v = u /\ x # u
    BY <1>0, <1>1, <1>3, <2>1, <2>3
  <2>4. CASE v # u /\ x = u
    BY <1>0, <1>1, <1>3, <2>1, <2>4
  <2>5. CASE v # u /\ x # u
    BY <1>0, <1>3, <2>1, <2>5
  <2> QED BY <2>2, <2>3, <2>4, <2>5
<1>4. WrittenOK'
  <2>1. written' \subseteq WriteType
    BY <1>0, <1>1
  <2> QED BY <1>0, <1>p, <1>2, <1>3, <2>1, WritesKeep
<1>5. BuffersOK'
  <2>1. \A line : Ordinal(line)' = Ordinal(line)
    BY <1>0, OrdinalOf
  <2>2. ASSUME NEW v \in written', NEW i \in 1..Len(logger.buffers)
        PROVE  OrdIn(said', v.line) < OrdIn(said', logger.buffers[i].line)
    <3>1. PICK o \in written : o.line = v.line
      BY <1>2
    <3>2. Ordinal(o.line) < Ordinal(logger.buffers[i].line)
      BY <1>0 DEF BuffersOK
    <3> QED BY <1>0, <3>1, <3>2, OrdinalOf
  <2> QED BY <1>0, <2>1, <2>2, OrdinalOf DEF BuffersOK
<1>6. LoggerOK' /\ SaidOK(said, logger.kind)' /\ \A m \in AMiners : VisitorOK(m)'
  BY <1>0 DEF LogInv, LoggerOK, SaidOK, VisitorOK
<1>7. visitors' \in [AMiners -> {"new", "mapped", "gone"}]
  BY <1>0 DEF LogInv
<1> QED BY <1>4, <1>5, <1>6, <1>7 DEF LogInv

LEMMA NewLoggerFields ==
    ASSUME NEW kind
    PROVE  /\ DOMAIN NewLogger(kind) = LoggerFields /\ NewLogger(kind).kind = kind /\ NewLogger(kind).file = FALSE
           /\ NewLogger(kind).pos = 0 /\ NewLogger(kind).buffers = <<>> /\ NewLogger(kind).wake = FALSE
BY DEF NewLogger, LoggerFields

LEMMA LoggerEndsStep == ASSUME LogInv, NEW killed \in BOOLEAN, LoggerEnds(killed) PROVE LogInv'
<1>0. /\ logger' = NewLogger(logger.kind) /\ said' = said /\ written' \subseteq written
      /\ visitors' = [m \in AMiners |-> IF visitors[m] = "mapped" THEN "gone" ELSE visitors[m]]
      /\ WrittenOK /\ written \subseteq WriteType
  BY DEF LoggerEnds, LogInv, WrittenOK
<1>1. LoggerOK' /\ logger'.kind = logger.kind /\ logger'.file = FALSE /\ logger'.buffers = <<>>
  <2>1. /\ DOMAIN logger' = LoggerFields /\ logger'.kind = logger.kind /\ logger'.file = FALSE
        /\ logger'.pos = 0 /\ logger'.buffers = <<>> /\ logger'.wake = FALSE
    BY <1>0, NewLoggerFields
  <2>2. logger.kind \in {"messages", "miners"}
    BY DEF LogInv, LoggerOK
  <2>3. <<>> \in Seq(KeptLines) /\ FALSE \in BOOLEAN /\ 0 \in Nat
    OBVIOUS
  <2> QED BY <2>1, <2>2, <2>3 DEF LoggerOK
<1>2. WrittenOK'
  <2>1. \A v \in written' : \E o \in written :
              o.line = v.line /\ o.at = v.at /\ v.size <= o.size /\ (v.st # "lost" => o.st # "lost")
    BY <1>0 DEF WriteType
  <2>2. \A v, w \in written' : v.line = w.line => v = w
    BY <1>0 DEF WrittenOK
  <2>3. logger.pos \in Nat
    BY DEF LogInv, LoggerOK
  <2> QED BY <1>0, <1>1, <2>1, <2>2, <2>3, WritesKeep
<1>3. BuffersOK'
  <2>1. Len(logger'.buffers) = 0
    BY <1>1
  <2> QED BY <2>1 DEF BuffersOK
<1>4. visitors' \in [AMiners -> {"new", "mapped", "gone"}] /\ \A m \in AMiners : VisitorOK(m)'
  BY <1>0, <1>1 DEF LogInv, VisitorOK
<1> QED BY <1>0, <1>1, <1>2, <1>3, <1>4 DEF LogInv

LEMMA FileSizeIs ==
    ASSUME WrittenOK
    PROVE  FileSize \in Nat /\ \A w \in written : w.st \in {"done", "short"} => w.at + w.size <= FileSize
<1> DEFINE ends == {w.at + w.size : w \in {v \in written : v.st \in {"done", "short"}}} \cup {0}
<1>1. \A w \in written : w.at + w.size \in Nat
  BY DEF WrittenOK, WriteType
<1>2. ends \in SUBSET Nat /\ ends # {}
  BY <1>1
<1>3. PICK n \in Nat : EndsBefore(n)
  BY DEF WrittenOK
<1>4. \A s \in ends : s <= n
  BY <1>3 DEF EndsBefore
<1> HIDE DEF ends
<1>5. \E e \in ends : \A o \in ends : o <= e
  BY <1>2, <1>4, GreatestNumber
<1>6. FileSize = CHOOSE e \in ends : \A o \in ends : o <= e
  BY DEF FileSize, ends
<1>7. FileSize \in ends /\ \A o \in ends : o <= FileSize
  BY <1>5, <1>6
<1> QED BY <1>2, <1>7 DEF ends

LEMMA OpenStep == ASSUME LogInv, NEW opens \in BOOLEAN, Open(opens) PROVE LogInv'
<1>0. /\ UNCHANGED <<written, said, visitors>> /\ WrittenOK /\ written \subseteq WriteType
      /\ (\A w \in written : w.st # "going") /\ \A m \in AMiners : visitors[m] # "mapped"
  BY DEF Open, LogInv, WrittenOK
<1>1. CASE ~opens
  <2>1. logger' = logger
    BY <1>1 DEF Open
  <2>2. \A m \in AMiners : VisitorOK(m)'
    BY <1>0, <2>1 DEF LogInv, VisitorOK
  <2>3. visitors' \in [AMiners -> {"new", "mapped", "gone"}]
    BY <1>0 DEF LogInv
  <2> QED BY <1>0, <2>1, <2>2, <2>3, OnlyVisitors
<1>2. CASE opens
  <2> DEFINE N == NewLogger(logger.kind)
  <2>1. logger' = [N EXCEPT !.file = TRUE, !.pos = FileSize]
    BY <1>2 DEF Open, openFile
  <2>2. /\ DOMAIN N = LoggerFields /\ N.kind = logger.kind /\ N.buffers = <<>> /\ N.wake = FALSE
    BY NewLoggerFields
  <2> HIDE DEF N
  <2>3. /\ DOMAIN logger' = LoggerFields /\ logger'.kind = logger.kind /\ logger'.file = TRUE
        /\ logger'.pos = FileSize /\ logger'.buffers = <<>> /\ logger'.wake = FALSE
    BY <2>1, <2>2 DEF LoggerFields
  <2>4. FileSize \in Nat /\ \A w \in written : w.st \in {"done", "short"} => w.at + w.size <= FileSize
    BY <1>0, FileSizeIs
  <2>5. logger.kind \in {"messages", "miners"}
    BY DEF LogInv, LoggerOK
  <2>6. LoggerOK'
    <3>1. <<>> \in Seq(KeptLines) /\ FALSE \in BOOLEAN /\ TRUE \in BOOLEAN
      OBVIOUS
    <3> QED BY <2>3, <2>4, <2>5, <3>1 DEF LoggerOK
  <2>7. WrittenOK'
    <3>1. \A w \in written : w.st # "lost" => w.at + w.size <= logger'.pos
      BY <1>0, <2>3, <2>4 DEF WriteType
    <3>2. \A line : Ordinal(line)' = Ordinal(line)
      BY <1>0, OrdinalOf
    <3> QED BY <1>0, <3>1, <3>2 DEF WrittenOK, EndsBefore
  <2>8. BuffersOK'
    <3>1. Len(logger'.buffers) = 0
      BY <2>3
    <3> QED BY <3>1 DEF BuffersOK
  <2>9. visitors' \in [AMiners -> {"new", "mapped", "gone"}] /\ \A m \in AMiners : VisitorOK(m)'
    BY <1>0 DEF LogInv, VisitorOK
  <2>10. SaidOK(said, logger.kind)'
    BY <1>0, <2>3 DEF LogInv, SaidOK
  <2> QED BY <2>6, <2>7, <2>8, <2>9, <2>10 DEF LogInv
<1> QED BY <1>1, <1>2

\* What is said after one more line.
LEMMA SaidMore ==
    ASSUME NEW A, NEW s \in Seq(A), NEW x \in A, NEW line
    PROVE  SaidIn(Append(s, x), line) <=> SaidIn(s, line) \/ line = x
<1> DEFINE t == Append(s, x)
<1>1. /\ Len(t) = Len(s) + 1 /\ Len(s) \in Nat /\ t[Len(s) + 1] = x /\ \A k \in 1..Len(s) : t[k] = s[k]
  OBVIOUS
<1> HIDE DEF t
<1>2. ASSUME SaidIn(t, line) PROVE SaidIn(s, line) \/ line = x
  <2>1. PICK k \in 1..Len(t) : t[k] = line
    BY <1>2 DEF SaidIn
  <2>2. k \in 1..Len(s) \/ k = Len(s) + 1
    BY <1>1
  <2> QED BY <1>1, <2>1, <2>2 DEF SaidIn
<1>3. ASSUME SaidIn(s, line) PROVE SaidIn(t, line)
  <2>1. PICK k \in 1..Len(s) : s[k] = line
    BY <1>3 DEF SaidIn
  <2>2. k \in 1..Len(t) /\ t[k] = line
    BY <1>1, <2>1
  <2> QED BY <2>2 DEF SaidIn
<1>4. Len(s) + 1 \in 1..Len(t)
  BY <1>1
<1>5. line = x => SaidIn(t, line)
  BY <1>1, <1>4 DEF SaidIn
<1> QED BY <1>2, <1>3, <1>5 DEF t

LEMMA SaidAppend ==
    ASSUME NEW s, NEW kind \in {"messages", "miners"}, SaidOK(s, kind), NEW x \in LineSet, ~SaidIn(s, x),
           kind = "messages" => x = <<"message", Len(s) + 1>>,
           kind = "miners" => x \in {"login", "close"} \X AMiners,
           x[1] = "close" => SaidIn(s, <<"login", x[2]>>)
    PROVE  SaidOK(Append(s, x), kind)
<1> DEFINE t == Append(s, x)
<1>0. s \in Seq(LineSet) /\ Uniq(s) /\ Len(s) \in Nat
  BY DEF SaidOK
<1>1. /\ t \in Seq(LineSet) /\ Len(t) = Len(s) + 1 /\ t[Len(s) + 1] = x /\ \A k \in 1..Len(s) : t[k] = s[k]
  BY <1>0
<1>2. Uniq(t)
  BY <1>0, OrdinalKeeps
<1> HIDE DEF t
<1>3. \A k \in 1..Len(t) : k \in 1..Len(s) \/ k = Len(s) + 1
  BY <1>0, <1>1
<1>4. kind = "messages" => \A k \in 1..Len(t) : t[k] = <<"message", k>>
  BY <1>1, <1>3 DEF SaidOK
<1>5. kind = "miners" => \A k \in 1..Len(t) : t[k] \in {"login", "close"} \X AMiners
  BY <1>1, <1>3 DEF SaidOK
<1>6. ASSUME NEW k \in 1..Len(t), t[k][1] = "close" PROVE \E j \in 1..(k - 1) : t[j] = <<"login", t[k][2]>>
  <2>1. CASE k \in 1..Len(s)
    <3>1. t[k] = s[k]
      BY <1>1, <2>1
    <3>2. PICK j \in 1..(k - 1) : s[j] = <<"login", s[k][2]>>
      BY <1>6, <2>1, <3>1 DEF SaidOK
    <3>3. j \in 1..Len(s) /\ t[j] = s[j]
      BY <1>0, <1>1, <2>1
    <3> QED BY <3>1, <3>2, <3>3
  <2>2. CASE k = Len(s) + 1
    <3>1. t[k] = x /\ k - 1 = Len(s)
      BY <1>0, <1>1, <2>2
    <3>2. PICK j \in 1..Len(s) : s[j] = <<"login", x[2]>>
      BY <1>6, <3>1 DEF SaidIn
    <3> QED BY <1>1, <3>1, <3>2
  <2> QED BY <1>3, <2>1, <2>2
<1> QED BY <1>1, <1>2, <1>4, <1>5, <1>6 DEF SaidOK, t

LEMMA LogMessageStep == ASSUME LogInv, NEW bytes \in LineSizes, LogMessage(bytes) PROVE LogInv'
<1> DEFINE x == <<"message", Len(said) + 1>>
<1>0. /\ logger.kind = "messages" /\ logger.file /\ UNCHANGED <<written, visitors>> /\ said' = Append(said, x)
      /\ logger' = printFile(printFile(logger, x, bytes, TRUE), x, bytes, FALSE)
      /\ SaidOK(said, "messages") /\ said \in Seq(LineSet) /\ Len(said) \in Nat
  <2>1. /\ logger.kind = "messages" /\ logger.file /\ UNCHANGED <<written, visitors>> /\ said' = Append(said, x)
        /\ logger' = printFile(printFile(logger, x, bytes, TRUE), x, bytes, FALSE)
    BY DEF LogMessage
  <2>2. SaidOK(said, "messages")
    BY <2>1 DEF LogInv
  <2>3. said \in Seq(LineSet)
    BY <2>2 DEF SaidOK
  <2>4. Len(said) \in Nat
    BY <2>3
  <2> HIDE DEF x
  <2> QED BY <2>1, <2>2, <2>3, <2>4
<1>1. logger' = [logger EXCEPT !.buffers = Append(logger.buffers, [line |-> x, size |-> bytes]), !.wake = TRUE]
  BY <1>0 DEF printFile, keepLine
<1>2. x \in LineSet /\ x[1] = "message"
  BY <1>0 DEF LineSet
<1>3. ~SaidIn(said, x)
  <2>1. ASSUME NEW k \in 1..Len(said), said[k] = x PROVE FALSE
    <3>1. <<"message", k>> = <<"message", Len(said) + 1>>
      BY <1>0, <2>1 DEF SaidOK
    <3>2. k = Len(said) + 1
      BY <3>1
    <3> QED BY <1>0, <3>2
  <2> QED BY <2>1 DEF SaidIn
<1>4. SaidOK(said', "messages")
  <2>1. "messages" \in {"messages", "miners"} /\ x[1] # "close"
    BY <1>2
  <2>2. SaidOK(Append(said, x), "messages")
    <3> HIDE DEF x
    <3>1. "messages" = "messages" => x = <<"message", Len(said) + 1>>
      BY DEF x
    <3> QED BY <1>0, <1>2, <1>3, <2>1, <3>1, SaidAppend
  <2> QED BY <1>0, <2>2
<1>5. ASSUME NEW m \in AMiners PROVE VisitorOK(m)'
  <2>1. x # <<"login", m>> /\ x # <<"close", m>>
    OBVIOUS
  <2> HIDE DEF x
  <2>2. /\ SaidIn(said', <<"login", m>>) <=> SaidIn(said, <<"login", m>>)
        /\ SaidIn(said', <<"close", m>>) <=> SaidIn(said, <<"close", m>>)
    BY <1>0, <1>2, <2>1, SaidMore
  <2>3. logger.file /\ visitors' = visitors
    BY <1>0
  <2>4. VisitorOK(m)
    BY DEF LogInv
  <2> QED BY <2>2, <2>3, <2>4 DEF VisitorOK
<1>6. visitors' \in [AMiners -> {"new", "mapped", "gone"}]
  BY <1>0 DEF LogInv
<1> HIDE DEF x
<1>7. x \in LineSet /\ logger.file /\ said' = Append(said, x) /\ written' = written
  BY <1>0, <1>2
<1>8. SaidOK(said', logger.kind)
  BY <1>0, <1>4
<1>9. \A m \in AMiners : VisitorOK(m)'
  BY <1>5
<1> QED BY <1>1, <1>3, <1>6, <1>7, <1>8, <1>9, LineKept

\* A line about a miner.
LEMMA SayStep ==
    ASSUME LogInv, logger.kind = "miners", written' = written, NEW what \in {"login", "close"}, NEW m \in AMiners,
           NEW bytes \in LineSizes, Say(what, m, bytes), NEW st \in {"mapped", "gone"},
           visitors' = [visitors EXCEPT ![m] = st],
           what = "login" => visitors[m] = "new" /\ st = "mapped",
           what = "close" => visitors[m] = "mapped" /\ st = "gone"
    PROVE  LogInv'
<1> DEFINE x == <<what, m>>
<1>0. /\ logger' = keepLine(logger, x, bytes) /\ said' = (IF logger.file THEN Append(said, x) ELSE said)
      /\ SaidOK(said, "miners") /\ said \in Seq(LineSet)
      /\ visitors \in [AMiners -> {"new", "mapped", "gone"}] /\ \A y \in AMiners : VisitorOK(y)
  BY DEF Say, LogInv, SaidOK
<1>1. /\ visitors' \in [AMiners -> {"new", "mapped", "gone"}] /\ visitors'[m] = st
      /\ \A y \in AMiners : y # m => visitors'[y] = visitors[y]
  BY <1>0
<1>2. x \in LineSet /\ x \in {"login", "close"} \X AMiners /\ x[1] = what /\ x[2] = m
  BY DEF LineSet
<1>3. ~SaidIn(said, x) /\ (what = "login" => ~SaidIn(said, <<"close", m>>))
  BY <1>0 DEF VisitorOK
<1>4. CASE logger.file
  <2>1. logger' = [logger EXCEPT !.buffers = Append(logger.buffers, [line |-> x, size |-> bytes]), !.wake = TRUE]
    BY <1>0, <1>4 DEF keepLine
  <2>2. said' = Append(said, x)
    BY <1>0, <1>4
  <2>3. what = "close" => SaidIn(said, <<"login", m>>)
    BY <1>0, <1>4 DEF VisitorOK
  <2>4. \A line : SaidIn(said', line) <=> SaidIn(said, line) \/ line = x
    <3> HIDE DEF x
    <3> QED BY <1>0, <1>2, <2>2, SaidMore
  <2>5. SaidOK(said', "miners")
    <3>1. "miners" \in {"messages", "miners"} /\ "miners" # "messages"
      OBVIOUS
    <3>2. x[1] = "close" => SaidIn(said, <<"login", x[2]>>)
      BY <1>2, <2>3
    <3> HIDE DEF x
    <3>3. SaidOK(Append(said, x), "miners")
      BY <1>0, <1>2, <1>3, <3>1, <3>2, SaidAppend
    <3> QED BY <2>2, <3>3
  <2>6. ASSUME NEW y \in AMiners PROVE VisitorOK(y)'
    <3>0. VisitorOK(y)
      BY <1>0
    <3>1. CASE y # m
      <4>1. x # <<"login", y>> /\ x # <<"close", y>>
        BY <3>1
      <4> HIDE DEF x
      <4>2. /\ SaidIn(said', <<"login", y>>) <=> SaidIn(said, <<"login", y>>)
            /\ SaidIn(said', <<"close", y>>) <=> SaidIn(said, <<"close", y>>)
        BY <2>4, <4>1
      <4> QED BY <1>1, <1>4, <3>0, <3>1, <4>2 DEF VisitorOK
    <3>2. CASE y = m /\ what = "login"
      <4>1. visitors'[y] = "mapped" /\ <<"close", m>> # x /\ x = <<"login", m>>
        BY <1>1, <3>2
      <4>2. ~SaidIn(said', <<"close", m>>) /\ SaidIn(said', <<"login", m>>)
        <5> HIDE DEF x
        <5> QED BY <1>3, <2>4, <3>2, <4>1
      <4> QED BY <3>2, <4>1, <4>2 DEF VisitorOK
    <3>3. CASE y = m /\ what = "close"
      <4>1. visitors'[y] = "gone"
        BY <1>1, <3>3
      <4> QED BY <4>1 DEF VisitorOK
    <3> QED BY <3>1, <3>2, <3>3
  <2> HIDE DEF x
  <2> QED BY <1>1, <1>2, <1>3, <1>4, <2>1, <2>2, <2>5, <2>6, LineKept
<1>5. CASE ~logger.file
  <2>1. UNCHANGED <<logger, written, said>>
    BY <1>0, <1>5 DEF keepLine
  <2>2. ASSUME NEW y \in AMiners PROVE VisitorOK(y)'
    <3>0. VisitorOK(y)
      BY <1>0
    <3>1. CASE y # m
      BY <1>1, <2>1, <3>0, <3>1 DEF VisitorOK
    <3>2. CASE y = m
      BY <1>1, <1>3, <1>5, <2>1, <3>0, <3>2 DEF VisitorOK
    <3> QED BY <3>1, <3>2
  <2> QED BY <1>1, <2>1, <2>2, OnlyVisitors
<1> QED BY <1>4, <1>5

\* A visitor that no line is about.
LEMMA VisitorOnly ==
    ASSUME LogInv, UNCHANGED <<logger, written, said>>, NEW m \in AMiners, visitors[m] = "new",
           NEW st \in {"new", "gone"}, visitors' = [visitors EXCEPT ![m] = st]
    PROVE  LogInv'
<1>0. visitors \in [AMiners -> {"new", "mapped", "gone"}] /\ \A y \in AMiners : VisitorOK(y)
  BY DEF LogInv
<1>1. /\ visitors' \in [AMiners -> {"new", "mapped", "gone"}] /\ visitors'[m] = st
      /\ \A y \in AMiners : y # m => visitors'[y] = visitors[y]
  BY <1>0
<1>2. ASSUME NEW y \in AMiners PROVE VisitorOK(y)'
  BY <1>0, <1>1 DEF VisitorOK
<1> QED BY <1>1, <1>2, OnlyVisitors

LEMMA LoggedInStep ==
    ASSUME LogInv, NEW m \in AMiners, NEW rejected \in BOOLEAN, NEW bytes \in LineSizes,
           LoggedIn(m, rejected, bytes)
    PROVE  LogInv'
<1>0. /\ logger.kind = "miners" /\ visitors[m] = "new" /\ written' = written
      /\ visitors' = [visitors EXCEPT ![m] = IF rejected THEN "new" ELSE "mapped"]
  BY DEF LoggedIn
<1>1. CASE rejected
  <2>1. UNCHANGED <<logger, written, said>> /\ visitors' = [visitors EXCEPT ![m] = "new"]
    BY <1>0, <1>1 DEF LoggedIn
  <2> QED BY <1>0, <2>1, VisitorOnly
<1>2. CASE ~rejected
  <2>1. Say("login", m, bytes) /\ visitors' = [visitors EXCEPT ![m] = "mapped"]
    BY <1>0, <1>2 DEF LoggedIn
  <2>2. "login" \in {"login", "close"} /\ "mapped" \in {"mapped", "gone"} /\ "login" # "close"
    OBVIOUS
  <2> QED BY <1>0, <2>1, <2>2, SayStep
<1> QED BY <1>1, <1>2

LEMMA LeftStep ==
    ASSUME LogInv, NEW m \in AMiners, NEW bytes \in LineSizes, Left(m, bytes)
    PROVE  LogInv'
<1>0. /\ logger.kind = "miners" /\ visitors[m] # "gone" /\ written' = written
      /\ visitors' = [visitors EXCEPT ![m] = "gone"] /\ visitors[m] \in {"new", "mapped", "gone"}
  BY DEF Left, LogInv
<1>1. CASE visitors[m] = "new"
  <2>1. UNCHANGED <<logger, written, said>>
    BY <1>0, <1>1 DEF Left
  <2> QED BY <1>0, <1>1, <2>1, VisitorOnly
<1>2. CASE visitors[m] = "mapped"
  <2>1. Say("close", m, bytes)
    BY <1>0, <1>2 DEF Left
  <2>2. "close" \in {"login", "close"} /\ "gone" \in {"mapped", "gone"} /\ "login" # "close"
    OBVIOUS
  <2> QED BY <1>0, <1>2, <2>1, <2>2, SayStep
<1> QED BY <1>0, <1>1, <1>2

\* The writes of a flush go behind all others, in the order of their lines.
LEMMA FlushStep == ASSUME LogInv, Flush PROVE LogInv'
<1> DEFINE b == logger.buffers
<1> DEFINE N == Len(b)
<1> DEFINE new(i) == [line |-> b[i].line, size |-> b[i].size, at |-> PlaceOf(logger, i), st |-> "going"]
<1>0. /\ logger.wake /\ UNCHANGED <<said, visitors>> /\ written' = written \cup {new(i) : i \in DOMAIN b}
      /\ logger' = [logger EXCEPT !.wake = FALSE, !.buffers = <<>>, !.pos = PlaceOf(logger, N + 1)]
  BY DEF Flush
<1>1. /\ LoggerOK /\ WrittenOK /\ BuffersOK /\ written \subseteq WriteType /\ logger.file
      /\ b \in Seq(KeptLines) /\ N \in Nat /\ DOMAIN b = 1..N /\ logger.pos \in Nat
  BY <1>0 DEF LogInv, LoggerOK, WrittenOK
<1>a. SaidOK(said, logger.kind) /\ said \in Seq(LineSet) /\ Uniq(said)
  BY DEF LogInv, SaidOK
<1>2. /\ PlaceOf(logger, 1) = logger.pos
      /\ \A i \in 1..(N + 1) : PlaceOf(logger, i) \in Nat
      /\ \A i \in 1..N : \A j \in 1..(N + 1) : i < j => PlaceOf(logger, i) + b[i].size <= PlaceOf(logger, j)
  BY <1>1, Places, PlacesInOrder
<1>3. \A i \in 1..N : b[i].line \in LineSet /\ b[i].size \in Nat /\ b[i].size # 0
  <2>1. ASSUME NEW i \in 1..N PROVE b[i] \in KeptLines
    BY <1>1
  <2> QED BY <2>1 DEF KeptLines
<1>4. ASSUME NEW i \in 1..(N + 1) PROVE logger.pos <= PlaceOf(logger, i)
  <2>1. CASE i = 1
    BY <1>1, <1>2, <2>1
  <2>2. CASE i # 1
    <3>1. 1 \in 1..N /\ 1 < i
      BY <1>1, <2>2
    <3>2. PlaceOf(logger, 1) + b[1].size <= PlaceOf(logger, i) /\ PlaceOf(logger, i) \in Nat /\ b[1].size \in Nat
      BY <1>2, <1>3, <3>1
    <3> QED BY <1>1, <1>2, <3>2
  <2> QED BY <2>1, <2>2
<1>5. /\ \A i \in 1..N : SaidIn(said, b[i].line)
      /\ \A i, j \in 1..N : i < j => Ordinal(b[i].line) < Ordinal(b[j].line)
      /\ \A w \in written, i \in 1..N : Ordinal(w.line) < Ordinal(b[i].line)
      /\ \A w \in written : SaidIn(said, w.line)
  BY <1>1 DEF BuffersOK, WrittenOK
<1>6. \A line : SaidIn(said, line) => Ordinal(line) \in Nat
  BY <1>a, OrdinalOf, OrdinalKnown
<1>7. \A i \in 1..N : /\ new(i) \in WriteType /\ new(i).line = b[i].line /\ new(i).size = b[i].size
                      /\ new(i).at = PlaceOf(logger, i) /\ new(i).st = "going"
  <2>1. ASSUME NEW i \in 1..N PROVE new(i) \in WriteType
    <3>1. PlaceOf(logger, i) \in Nat
      BY <1>1, <1>2
    <3> QED BY <1>3, <3>1 DEF WriteType
  <2> QED BY <2>1
<1>8. ASSUME NEW w \in written' PROVE w \in written \/ \E i \in 1..N : w = new(i)
  BY <1>0, <1>1
<1> DEFINE pos1 == PlaceOf(logger, N + 1)
<1>9. /\ DOMAIN logger' = LoggerFields /\ logger'.kind = logger.kind /\ logger'.file = logger.file
      /\ logger'.pos = pos1 /\ logger'.buffers = <<>> /\ logger'.wake = FALSE
  BY <1>0, <1>1 DEF LoggerOK, LoggerFields
<1>10. pos1 \in Nat /\ logger.pos <= pos1 /\ \A i \in 1..N : PlaceOf(logger, i) + b[i].size <= pos1
  <2>1. N + 1 \in 1..(N + 1) /\ \A i \in 1..N : i < N + 1
    BY <1>1
  <2> QED BY <1>2, <1>4, <2>1
<1> HIDE DEF new, pos1, N, b
<1>11. LoggerOK'
  <2>1. <<>> \in Seq(KeptLines) /\ FALSE \in BOOLEAN
    OBVIOUS
  <2> QED BY <1>1, <1>9, <1>10, <2>1 DEF LoggerOK
<1>12. ASSUME NEW w \in written' PROVE w \in WriteType /\ SaidIn(said, w.line)
  BY <1>1, <1>5, <1>7, <1>8
<1>13. ASSUME NEW v \in written', NEW w \in written', v.line = w.line PROVE v = w
  <2>1. CASE v \in written /\ w \in written
    BY <1>1, <1>13, <2>1 DEF WrittenOK
  <2>2. ASSUME NEW i \in 1..N, v = new(i), NEW j \in 1..N, w = new(j) PROVE v = w
    <3>1. Ordinal(b[i].line) = Ordinal(b[j].line) /\ Ordinal(b[i].line) \in Nat
      BY <1>5, <1>6, <1>7, <1>13, <2>2
    <3>2. i = j
      BY <1>1, <1>5, <3>1
    <3> QED BY <2>2, <3>2
  <2>3. ASSUME NEW i \in 1..N, v = new(i), w \in written PROVE FALSE
    BY <1>5, <1>6, <1>7, <1>13, <2>3
  <2>4. ASSUME NEW i \in 1..N, w = new(i), v \in written PROVE FALSE
    BY <1>5, <1>6, <1>7, <1>13, <2>4
  <2> QED BY <1>8, <2>1, <2>2, <2>3, <2>4
<1>14. ASSUME NEW w \in written', w.st # "lost" PROVE w.at + w.size <= pos1
  <2>1. CASE w \in written
    <3>1. w.at + w.size <= logger.pos /\ w.at \in Nat /\ w.size \in Nat
      BY <1>1, <1>14, <2>1 DEF WrittenOK, WriteType
    <3> QED BY <1>1, <1>10, <3>1
  <2>2. CASE \E i \in 1..N : w = new(i)
    BY <1>7, <1>10, <2>2
  <2> QED BY <1>8, <2>1, <2>2
<1>15. ASSUME NEW v \in written', NEW w \in written', v.st # "lost", w.st # "lost", Ordinal(v.line) < Ordinal(w.line)
       PROVE  v.at + v.size <= w.at
  <2>1. CASE v \in written /\ w \in written
    BY <1>1, <1>15, <2>1 DEF WrittenOK
  <2>2. ASSUME NEW i \in 1..N, v = new(i), NEW j \in 1..N, w = new(j) PROVE v.at + v.size <= w.at
    <3>1. Ordinal(b[i].line) < Ordinal(b[j].line) /\ Ordinal(b[i].line) \in Nat /\ Ordinal(b[j].line) \in Nat
      BY <1>5, <1>6, <1>7, <1>15, <2>2
    <3>2. i < j
      <4>1. i = j => FALSE
        BY <3>1
      <4>2. j < i => Ordinal(b[j].line) < Ordinal(b[i].line)
        BY <1>5
      <4> QED BY <1>1, <3>1, <4>1, <4>2
    <3>3. j \in 1..(N + 1)
      BY <1>1
    <3> QED BY <1>2, <1>7, <2>2, <3>2, <3>3
  <2>3. ASSUME NEW i \in 1..N, w = new(i), v \in written PROVE v.at + v.size <= w.at
    <3>1. v.at + v.size <= logger.pos /\ v.at \in Nat /\ v.size \in Nat
      BY <1>1, <1>15, <2>3 DEF WrittenOK, WriteType
    <3>2. i \in 1..(N + 1) /\ w.at = PlaceOf(logger, i)
      BY <1>1, <1>7, <2>3
    <3>3. logger.pos <= PlaceOf(logger, i) /\ PlaceOf(logger, i) \in Nat
      BY <1>2, <1>4, <3>2
    <3> QED BY <1>1, <3>1, <3>2, <3>3
  <2>4. ASSUME NEW i \in 1..N, v = new(i), w \in written PROVE FALSE
    BY <1>5, <1>6, <1>7, <1>15, <2>4
  <2> QED BY <1>8, <2>1, <2>2, <2>3, <2>4
<1>16. \E n \in Nat : EndsBefore(n)'
  <2>1. PICK n \in Nat : EndsBefore(n)
    BY <1>1 DEF WrittenOK
  <2>2. n + pos1 \in Nat
    BY <1>10
  <2>3. ASSUME NEW w \in written' PROVE w.at + w.size <= n + pos1
    <3>1. CASE w \in written
      <4>1. w.at + w.size <= n /\ w.at \in Nat /\ w.size \in Nat
        BY <1>1, <2>1, <3>1 DEF EndsBefore, WriteType
      <4> QED BY <1>10, <4>1
    <3>2. CASE \E i \in 1..N : w = new(i)
      <4>1. w.at + w.size <= pos1
        BY <1>7, <1>10, <3>2
      <4>2. w.at \in Nat /\ w.size \in Nat
        BY <1>12 DEF WriteType
      <4> QED BY <1>10, <4>1, <4>2
    <3> QED BY <1>8, <3>1, <3>2
  <2>4. PICK p \in Nat : p = n + pos1
    BY <2>2
  <2>5. \A w \in written' : w.at + w.size <= p
    BY <2>3, <2>4
  <2> QED BY <2>5 DEF EndsBefore
<1>17. WrittenOK'
  <2>1. \A line : Ordinal(line)' = Ordinal(line)
    BY <1>0, OrdinalOf
  <2>2. written' \subseteq WriteType /\ \A w \in written' : SaidIn(said', w.line)
    BY <1>0, <1>12
  <2>3. \A v, w \in written' :
         v.st # "lost" /\ w.st # "lost" /\ OrdIn(said', v.line) < OrdIn(said', w.line) => v.at + v.size <= w.at
    BY <1>0, <1>15, OrdinalOf
  <2>4. logger'.file => \A w \in written' : w.st # "lost" => w.at + w.size <= logger'.pos
    BY <1>9, <1>14
  <2> QED BY <1>13, <1>16, <2>2, <2>3, <2>4, OrdinalOf DEF WrittenOK
<1>18. BuffersOK'
  <2>1. Len(logger'.buffers) = 0
    BY <1>9
  <2> QED BY <2>1 DEF BuffersOK
<1>19. /\ visitors' \in [AMiners -> {"new", "mapped", "gone"}] /\ \A m \in AMiners : VisitorOK(m)'
       /\ SaidOK(said, logger.kind)'
  BY <1>0, <1>9 DEF LogInv, VisitorOK
<1> QED BY <1>11, <1>17, <1>18, <1>19 DEF LogInv

LEMMA LogStep == LogInv /\ [LogNext]_logVars => LogInv'
<1> SUFFICES ASSUME LogInv, [LogNext]_logVars PROVE LogInv'
  OBVIOUS
<1>1. CASE UNCHANGED logVars
  <2>1. UNCHANGED <<logger, written, said>> /\ visitors' = visitors
    BY <1>1 DEF logVars
  <2>2. visitors' \in [AMiners -> {"new", "mapped", "gone"}] /\ \A m \in AMiners : VisitorOK(m)'
    BY <2>1 DEF LogInv, VisitorOK
  <2> QED BY <2>1, <2>2, OnlyVisitors
<1>2. CASE LogNext
  BY <1>2, OpenStep, LogMessageStep, LeftStep, LoggedInStep, FlushStep, WriteEndsStep, LoggerEndsStep DEF LogNext
<1> QED BY <1>1, <1>2

(***************************************************************************)
(* Targets and difficulties                                                *)
(***************************************************************************)

LEMMA Quotient ==
    ASSUME NEW a \in Nat, NEW b \in Nat, b # 0
    PROVE  a \div b \in Nat /\ b * (a \div b) <= a /\ a < b * (a \div b) + b
OBVIOUS

LEMMA Product == ASSUME NEW a \in Nat, NEW b \in Nat PROVE a * b \in Nat /\ a * b = b * a
OBVIOUS

LEMMA ProductLess ==
    ASSUME NEW a \in Nat, NEW b \in Nat, NEW c \in Nat, a <= b
    PROVE  a * c <= b * c /\ c * a <= c * b
OBVIOUS

\* What is not above a quotient.
LEMMA QuotientAtLeast ==
    ASSUME NEW a \in Nat, NEW b \in Nat, b # 0, NEW q \in Nat, b * q <= a
    PROVE  q <= a \div b
<1>1. a \div b \in Nat /\ a < b * (a \div b) + b
  BY Quotient
<1>2. ASSUME ~ (q <= a \div b) PROVE FALSE
  <2> DEFINE d == a \div b
  <2>1. d \in Nat /\ a < b * d + b /\ d + 1 <= q
    BY <1>1, <1>2
  <2> HIDE DEF d
  <2>2. b * (d + 1) <= b * q
    BY <2>1, ProductLess
  <2>3. b * (d + 1) = b * d + b
    BY <2>1
  <2>4. b * d \in Nat /\ b * q \in Nat
    BY <2>1, Product
  <2> QED BY <2>1, <2>2, <2>3, <2>4
<1> QED BY <1>2

LEMMA WordSize ==
    /\ HalfValues \in Nat /\ HalfValues >= 4 /\ MaxWord \in Nat /\ MaxHalf \in Nat
    /\ MaxWord = (HalfValues - 1) * (HalfValues + 1) /\ MaxWord >= 15
    /\ HalfValues * (HalfValues - 1) <= MaxWord
<1>1. HalfValues \in Nat /\ HalfValues >= 4
  BY TargetsAssumption
<1>2. HalfValues * HalfValues >= 4 * HalfValues /\ HalfValues * HalfValues \in Nat
  BY <1>1
<1>3. HalfValues * (HalfValues - 1) = HalfValues * HalfValues - HalfValues
  BY <1>1
<1>4. (HalfValues - 1) * (HalfValues + 1) = HalfValues * HalfValues - 1
  BY <1>1
<1> QED BY <1>1, <1>2, <1>3, <1>4 DEF MaxWord, MaxHalf

\* A target, and a difficulty that it is not harder than.
Fair(target, diff) == target \in 1..MaxWord /\ diff \in 1..MaxWord /\ target * diff <= MaxWord

LEMMA ToDiffFair ==
    ASSUME NEW t \in 1..MaxWord
    PROVE  Fair(t, toDiff(t)) /\ toDiff(t) = MaxWord \div t
<1>0. MaxWord \in Nat /\ t \in Nat /\ t # 0 /\ t <= MaxWord
  BY WordSize
<1> DEFINE d == MaxWord \div t
<1>1. toDiff(t) = d
  BY <1>0 DEF toDiff
<1>2. d \in Nat /\ t * d <= MaxWord
  BY <1>0, Quotient
<1>3. 1 <= d
  <2>1. t * 1 <= MaxWord
    BY <1>0
  <2> QED BY <1>0, <2>1, QuotientAtLeast
<1>4. d <= MaxWord
  <2> HIDE DEF d
  <2>1. 1 * d <= t * d
    BY <1>0, <1>2, ProductLess
  <2>2. t * d \in Nat /\ 1 * d = d
    BY <1>0, <1>2
  <2> QED BY <1>0, <1>2, <2>1, <2>2
<1> HIDE DEF d
<1> QED BY <1>0, <1>1, <1>2, <1>3, <1>4 DEF Fair, d

\* Half a target, expanded.
LEMMA ExpandWord ==
    ASSUME NEW c \in 1..MaxHalf
    PROVE  Expand(c) \in 1..MaxWord /\ HalfValues * c <= Expand(c)
<1> DEFINE S == HalfValues
<1> DEFINE u == MaxHalf \div c
<1>0. S \in Nat /\ S >= 4 /\ MaxWord \in Nat /\ MaxHalf = S - 1 /\ MaxHalf \in Nat /\ c \in Nat /\ c # 0 /\ c <= MaxHalf
  BY WordSize DEF MaxHalf
<1>1. u \in Nat /\ c * u <= MaxHalf
  BY <1>0, Quotient
<1>2. 1 <= u
  <2>1. c * 1 <= MaxHalf
    BY <1>0
  <2> QED BY <1>0, <2>1, QuotientAtLeast
<1> HIDE DEF u
<1>3. u * (S * c) <= MaxWord
  <2>1. u * (S * c) = S * (c * u)
    BY <1>0, <1>1
  <2>2. c * u \in Nat
    BY <1>0, <1>1
  <2>3. S * (c * u) <= S * MaxHalf
    BY <1>0, <1>1, <2>2, ProductLess
  <2>4. S * MaxHalf <= MaxWord
    BY <1>0, WordSize
  <2>5. S * (c * u) \in Nat /\ S * MaxHalf \in Nat
    BY <1>0, <2>2, Product
  <2> QED BY <1>0, <2>1, <2>3, <2>4, <2>5
<1>4. S * c \in Nat /\ 1 <= S * c
  <2>1. S * 1 <= S * c
    BY <1>0, ProductLess
  <2>2. S * c \in Nat /\ S * 1 = S
    BY <1>0
  <2> QED BY <1>0, <2>1, <2>2
<1>5. u # 0
  BY <1>1, <1>2
<1>6. S * c <= MaxWord \div u
  <2> DEFINE p == S * c
  <2>1. p \in Nat /\ u * p <= MaxWord
    BY <1>3, <1>4
  <2> HIDE DEF p
  <2>2. p <= MaxWord \div u
    BY <1>0, <1>1, <1>5, <2>1, QuotientAtLeast
  <2> QED BY <2>2 DEF p
<1>7. MaxWord \div u \in Nat /\ MaxWord \div u <= MaxWord
  <2> DEFINE q == MaxWord \div u
  <2>1. q \in Nat /\ u * q <= MaxWord
    BY <1>0, <1>1, <1>5, Quotient
  <2> HIDE DEF q
  <2>2. 1 * q <= u * q /\ 1 * q = q /\ u * q \in Nat
    BY <1>1, <1>2, <2>1, ProductLess
  <2>3. q <= MaxWord
    BY <1>0, <2>1, <2>2
  <2> QED BY <2>1, <2>3 DEF q
<1>8. Expand(c) = MaxWord \div u
  BY DEF Expand, u
<1> QED BY <1>0, <1>4, <1>6, <1>7, <1>8

OfferOK(job) ==
    /\ job.raw.size \in {4, 8} /\ job.raw.value \in 1..MaxWord
    /\ Fair(TargetOf(job.raw), job.diff)

LEMMA SetTargetOK ==
    ASSUME NEW bytes \in {4, 8}, NEW v \in 1..MaxWord, bytes = 4 => v \in 1..MaxHalf
    PROVE  OfferOK(setTarget([size |-> bytes, value |-> v]))
<1> DEFINE raw == [size |-> bytes, value |-> v]
<1> DEFINE job == setTarget(raw)
<1>1. raw.size = bytes /\ raw.value = v /\ job.raw = raw /\ job.diff = toDiff(TargetOf(raw))
  BY DEF setTarget
<1> HIDE DEF job, raw
<1>2. TargetOf(raw) \in 1..MaxWord
  <2>1. CASE bytes = 4
    BY <1>1, <2>1, ExpandWord DEF TargetOf
  <2>2. CASE bytes = 8
    BY <1>1, <2>2 DEF TargetOf
  <2> QED BY <2>1, <2>2
<1>3. Fair(TargetOf(raw), job.diff)
  BY <1>1, <1>2, ToDiffFair
<1>4. OfferOK(job)
  BY <1>1, <1>3 DEF OfferOK
<1> QED BY <1>4 DEF job, raw

LEMMA SetDiffOK == ASSUME NEW d \in 1..MaxWord PROVE OfferOK(setDiff(d))
<1> DEFINE t == toDiff(d)
<1> DEFINE job == setDiff(d)
<1>1. job.diff = d /\ job.raw.size = 8 /\ job.raw.value = t /\ TargetOf(job.raw) = t
  BY DEF setDiff, TargetOf
<1>2. Fair(d, t)
  BY ToDiffFair
<1>3. Fair(t, d)
  BY <1>2, WordSize, Product DEF Fair
<1> HIDE DEF job, t
<1>4. OfferOK(job)
  BY <1>1, <1>3 DEF OfferOK, Fair
<1> QED BY <1>4 DEF job

LEMMA HalfInWord == 1..MaxHalf \subseteq 1..MaxWord
<1>1. HalfValues \in Nat /\ HalfValues >= 4 /\ HalfValues <= HalfValues * HalfValues /\ HalfValues * HalfValues \in Nat
  BY WordSize
<1> QED BY <1>1 DEF MaxHalf, MaxWord

LEMMA JobsOK == ASSUME NEW job \in PoolJobs \cup TemplateJobs PROVE OfferOK(job)
<1>1. CASE \E v \in 1..MaxHalf : job = setTarget([size |-> 4, value |-> v])
  BY <1>1, HalfInWord, SetTargetOK
<1>2. CASE \E d \in JobDiffs : job = setTarget([size |-> 8, value |-> toDiff(d)])
  <2>1. PICK d \in JobDiffs : job = setTarget([size |-> 8, value |-> toDiff(d)])
    BY <1>2
  <2>2. toDiff(d) \in 1..MaxWord
    BY ToDiffFair, TargetsAssumption DEF Fair
  <2> QED BY <2>1, <2>2, SetTargetOK
<1>3. CASE \E d \in JobDiffs : job = setDiff(d)
  BY <1>3, SetDiffOK, TargetsAssumption
<1> QED BY <1>1, <1>2, <1>3 DEF PoolJobs, TemplateJobs

\* The order is made from the offer and the difficulty of the miner.
TargetsInv ==
    /\ OfferOK(offer) /\ wanted \in CustomDiffs \cup {0}
    /\ order = setJobTarget(offer, wanted)

LEMMA TargetsStart == TargetsInit => TargetsInv
<1>1. OfferOK(setDiff(1))
  BY WordSize, SetDiffOK
<1> QED BY <1>1 DEF TargetsInit, TargetsInv

LEMMA TargetsStep == TargetsInv /\ [TargetsNext]_targetVars => TargetsInv'
<1> SUFFICES ASSUME TargetsInv, [TargetsNext]_targetVars PROVE TargetsInv'
  OBVIOUS
<1>1. ASSUME NEW job \in PoolJobs \cup TemplateJobs, IssueJob(job) PROVE TargetsInv'
  <2>1. offer' = job /\ wanted' = wanted /\ order' = setJobTarget(job, wanted)
    BY <1>1 DEF IssueJob
  <2>2. OfferOK(offer')
    BY <1>1, <2>1, JobsOK
  <2> QED BY <2>1, <2>2 DEF TargetsInv
<1>2. CASE UNCHANGED targetVars
  BY <1>2 DEF TargetsInv, targetVars
<1> QED BY <1>1, <1>2 DEF TargetsNext

\* The upper half of a custom target.
LEMMA CompactOK ==
    ASSUME NEW c \in CustomDiffs
    PROVE  (MaxWord \div c) \div HalfValues \in 1..MaxHalf
<1> DEFINE S == HalfValues
<1> DEFINE q == MaxWord \div c
<1> DEFINE h == q \div S
<1>0. S \in Nat /\ S >= 4 /\ MaxWord \in Nat /\ MaxHalf \in Nat /\ MaxHalf = S - 1 /\ MaxWord = S * S - 1
  BY WordSize DEF MaxHalf, MaxWord
<1>1. c \in Nat /\ c # 0 /\ c <= S - 1
  BY <1>0, TargetsAssumption DEF CustomDiffs, IntMax
<1>2. q \in Nat /\ c * q <= MaxWord
  BY <1>0, <1>1, Quotient
<1>3. c * S <= MaxWord
  <2>1. c * S <= (S - 1) * S
    BY <1>0, <1>1, ProductLess
  <2>2. (S - 1) * S = S * S - S /\ S * S \in Nat /\ c * S \in Nat
    BY <1>0, <1>1
  <2> QED BY <1>0, <2>1, <2>2
<1>4. S <= q
  BY <1>0, <1>1, <1>3, QuotientAtLeast
<1>5. q <= MaxWord
  <2> HIDE DEF q
  <2>1. 1 * q <= c * q /\ 1 * q = q /\ c * q \in Nat
    BY <1>1, <1>2, ProductLess
  <2> QED BY <1>0, <1>2, <2>1
<1> HIDE DEF q
<1>6. h \in Nat /\ S * h <= q
  BY <1>0, <1>2, Quotient
<1>7. 1 <= h
  <2>1. S * 1 <= q
    BY <1>0, <1>4
  <2> QED BY <1>0, <1>2, <2>1, QuotientAtLeast
<1> HIDE DEF h
<1>8. h <= S - 1
  <2>1. ASSUME h >= S PROVE FALSE
    <3>1. S * S <= S * h /\ S * h \in Nat /\ S * S \in Nat
      BY <1>0, <1>6, <2>1, ProductLess
    <3> QED BY <1>0, <1>2, <1>5, <1>6, <3>1
  <2> QED BY <1>0, <1>6, <2>1
<1> QED BY <1>0, <1>6, <1>7, <1>8 DEF h, q

\* An order is the offer's target, or one of the miner's own.
LEMMA OrderIs ==
    ASSUME TargetsInv
    PROVE  \/ order.raw = offer.raw /\ order.issued = offer.diff
           \/ \E c \in CustomDiffs :
                /\ c < offer.diff /\ order.raw.size = 4
                /\ order.raw.value = (MaxWord \div c) \div HalfValues
                /\ order.issued = toDiff(Expand(order.raw.value))
<1>1. CASE wanted = 0 \/ wanted >= offer.diff
  BY <1>1 DEF TargetsInv, setJobTarget
<1>2. CASE wanted # 0 /\ ~ (wanted >= offer.diff)
  <2> DEFINE h == (MaxWord \div wanted) \div HalfValues
  <2>1. wanted \in CustomDiffs
    BY <1>2 DEF TargetsInv
  <2>2. h \in 1..MaxHalf /\ h # 0
    BY <2>1, CompactOK
  <2>3. /\ order = [raw |-> [size |-> 4, value |-> h], issued |-> IF h = 0 THEN offer.diff ELSE toDiff(Expand(h))]
    BY <1>2 DEF TargetsInv, setJobTarget
  <2>4. wanted < offer.diff
    <3>1. wanted \in Nat /\ offer.diff \in Nat
      BY <2>1, TargetsAssumption DEF TargetsInv, OfferOK, Fair, CustomDiffs
    <3> QED BY <1>2, <3>1
  <2> HIDE DEF h
  <2>5. order.raw.size = 4 /\ order.raw.value = h /\ order.issued = toDiff(Expand(h))
    BY <2>2, <2>3
  <2> QED BY <2>1, <2>4, <2>5 DEF h
<1> QED BY <1>1, <1>2

LEMMA OrderFair == ASSUME TargetsInv PROVE order.raw.value # 0 /\ Fair(TargetOf(order.raw), order.issued)
<1>1. CASE order.raw = offer.raw /\ order.issued = offer.diff
  BY <1>1 DEF TargetsInv, OfferOK
<1>2. ASSUME NEW c \in CustomDiffs, order.raw.size = 4, order.raw.value = (MaxWord \div c) \div HalfValues,
             order.issued = toDiff(Expand(order.raw.value))
      PROVE  order.raw.value # 0 /\ Fair(TargetOf(order.raw), order.issued)
  <2>1. order.raw.value \in 1..MaxHalf
    BY <1>2, CompactOK
  <2>2. TargetOf(order.raw) = Expand(order.raw.value)
    BY <1>2 DEF TargetOf
  <2>3. Expand(order.raw.value) \in 1..MaxWord
    BY <2>1, ExpandWord
  <2> QED BY <1>2, <2>1, <2>2, <2>3, ToDiffFair
<1> QED BY <1>1, <1>2, OrderIs

\* A result that is below a target has at least its difficulty.
LEMMA BelowTarget ==
    ASSUME NEW hash \in 0..MaxWord, NEW d \in 1..MaxWord, hash * d <= MaxWord
    PROVE  actualDiff(hash) \in Nat /\ d <= actualDiff(hash)
<1>0. MaxWord \in Nat /\ hash \in Nat /\ d \in Nat /\ d <= MaxWord
  BY WordSize
<1>1. CASE hash = 0
  BY <1>0, <1>1 DEF actualDiff
<1>2. CASE hash # 0
  <2>1. actualDiff(hash) = MaxWord \div hash
    BY <1>2 DEF actualDiff, toDiff
  <2> QED BY <1>0, <1>2, <2>1, Quotient, QuotientAtLeast
<1> QED BY <1>1, <1>2

LEMMA OwnIsSofter ==
    ASSUME TargetsInv, order.issued > offer.diff
    PROVE  order.raw.value = (MaxWord \div offer.diff) \div HalfValues
<1> DEFINE S == HalfValues
<1> DEFINE D == offer.diff
<1> DEFINE h == order.raw.value
<1>0. S \in Nat /\ S >= 4 /\ MaxWord \in Nat /\ D \in Nat /\ D # 0
  BY WordSize DEF TargetsInv, OfferOK, Fair
<1>1. order.issued # offer.diff
  BY <1>0
<1>2. PICK c \in CustomDiffs : c < D /\ order.raw.size = 4 /\ h = (MaxWord \div c) \div S /\ order.issued = toDiff(Expand(h))
  BY <1>1, OrderIs
<1>3. h \in 1..MaxHalf /\ c \in Nat /\ c # 0 /\ c <= D
  BY <1>0, <1>2, CompactOK, TargetsAssumption DEF CustomDiffs
<1>4. Expand(h) \in 1..MaxWord /\ S * h <= Expand(h) /\ order.issued = MaxWord \div Expand(h)
  BY <1>2, <1>3, ExpandWord, ToDiffFair
<1> DEFINE q == MaxWord \div D
<1> DEFINE p == MaxWord \div c
<1> DEFINE g == q \div S
<1>5. q \in Nat /\ D * q <= MaxWord /\ MaxWord < D * q + D /\ p \in Nat
  BY <1>0, <1>3, Quotient
<1>6. q <= p
  <2> HIDE DEF q
  <2>1. c * q <= D * q /\ c * q \in Nat /\ D * q \in Nat
    BY <1>0, <1>3, <1>5, ProductLess
  <2>2. c * q <= MaxWord
    BY <1>0, <1>5, <2>1
  <2> QED BY <1>0, <1>3, <1>5, <2>2, QuotientAtLeast
<1>7. h = p \div S
  BY <1>2
<1> HIDE DEF q, p
<1>8. g \in Nat /\ S * g <= q /\ q < S * g + S
  <2>1. q \in Nat
    BY <1>5
  <2>2. S \in Nat /\ S # 0
    BY <1>0
  <2> HIDE DEF S
  <2> QED BY <2>1, <2>2, Quotient
<1>9. g <= h
  <2> HIDE DEF g
  <2>1. S * g \in Nat /\ S * g <= p
    BY <1>0, <1>5, <1>6, <1>8
  <2>2. S \in Nat /\ S # 0 /\ p \in Nat /\ g \in Nat
    BY <1>0, <1>5, <1>8
  <2> HIDE DEF S
  <2>3. g <= p \div S
    BY <2>1, <2>2, QuotientAtLeast
  <2> QED BY <1>7, <2>3
<1> HIDE DEF g
<1>10. ASSUME h # g PROVE FALSE
  <2> HIDE DEF h, S, D
  <2> DEFINE e == Expand(h)
  <2>0. MaxHalf \in Nat /\ h \in Nat /\ g + 1 <= h
    BY <1>3, <1>8, <1>9, <1>10, WordSize
  <2>1. S * (g + 1) <= S * h /\ S * (g + 1) = S * g + S /\ S * g \in Nat /\ S * h \in Nat
    BY <1>0, <1>8, <2>0, ProductLess
  <2>2. e \in Nat /\ e # 0 /\ S * h <= e
    BY <1>0, <1>4
  <2> HIDE DEF e
  <2>3. q + 1 <= e
    BY <1>0, <1>5, <1>8, <2>1, <2>2
  <2> DEFINE i == MaxWord \div e
  <2>4. i \in Nat /\ e * i <= MaxWord
    BY <1>0, <2>2, Quotient
  <2>5. order.issued = i
    BY <1>4 DEF e
  <2>6. D <= i
    BY <1>0, <2>4, <2>5 DEF D
  <2> HIDE DEF i
  <2>7. D * (q + 1) <= i * (q + 1) /\ (q + 1) * i <= e * i
    BY <1>0, <1>5, <2>2, <2>3, <2>4, <2>6, ProductLess
  <2>8. D * (q + 1) = D * q + D /\ i * (q + 1) = (q + 1) * i
    BY <1>0, <1>5, <2>4
  <2>9. D * q \in Nat /\ (q + 1) * i \in Nat /\ e * i \in Nat
    BY <1>0, <1>5, <2>2, <2>4
  <2> QED BY <1>0, <1>5, <2>4, <2>7, <2>8, <2>9
<1> QED BY <1>10 DEF g, q

LEMMA TargetsTrue == TargetsInv => NoWorkWasted
<1> SUFFICES ASSUME TargetsInv PROVE NoWorkWasted
  OBVIOUS
<1>0. MaxWord \in Nat /\ offer.diff \in 1..MaxWord /\ offer.diff \in Nat
  BY WordSize DEF TargetsInv, OfferOK, Fair
<1>1. /\ order.raw.value # 0 /\ order.issued \in 1..MaxWord /\ order.issued \in Nat
      /\ TargetOf(order.raw) \in Nat /\ TargetOf(order.raw) * order.issued <= MaxWord
  BY <1>0, OrderFair DEF Fair
<1>2. ASSUME NEW hash \in 0..MaxWord, NEW verifier \in BOOLEAN, Submits(hash)
      PROVE  Judged(hash, verifier) # "low difficulty"
  <2>1. hash \in Nat /\ hash <= TargetOf(order.raw)
    BY <1>0, <1>1, <1>2 DEF Submits
  <2>2. hash * order.issued <= TargetOf(order.raw) * order.issued
    BY <1>1, <2>1, ProductLess
  <2>3. hash * order.issued <= MaxWord
    BY <1>0, <1>1, <2>1, <2>2, Product
  <2>4. actualDiff(hash) \in Nat /\ order.issued <= actualDiff(hash)
    BY <1>1, <2>3, BelowTarget
  <2>5. Candidate(hash) <=> offer.diff <= actualDiff(hash)
    BY <1>0, <2>4 DEF Candidate
  <2>6. ~ (actualDiff(hash) < order.issued) /\ (~Candidate(hash) => ~ (order.issued >= offer.diff))
    BY <1>0, <1>1, <2>4, <2>5
  <2> QED BY <2>6 DEF Judged
<1>3. ASSUME NEW hash \in 0..MaxWord, NEW verifier \in BOOLEAN, hash * offer.diff <= MaxWord,
             verifier \/ order.issued <= offer.diff
      PROVE  Judged(hash, verifier) = "upstream"
  <2>1. actualDiff(hash) \in Nat /\ offer.diff <= actualDiff(hash)
    BY <1>0, <1>3, BelowTarget
  <2>2. Candidate(hash)
    BY <1>0, <2>1 DEF Candidate
  <2>3. ~verifier => ~ (actualDiff(hash) < order.issued)
    BY <1>0, <1>1, <1>3, <2>1
  <2> QED BY <2>2, <2>3 DEF Judged
<1> QED BY <1>1, <1>2, <1>3, OwnIsSofter DEF NoWorkWasted

(***************************************************************************)
(* The composition                                                         *)
(***************************************************************************)

\* Each part begins as on its own.
LEMMA PartStarts ==
    ServicesInit =>
        /\ Init /\ LiveInit
        /\ part = "budget" => BudgetInit
        /\ part = "block" => BlockInit
        /\ part = "targets" => TargetsInit
        /\ part = "log" => LogInit
        /\ part = "http" => HttpInit
        /\ part = "socket" => SocketInit
        /\ part = "tls" => TlsInit
        /\ part = "startup" => StartupInit
BY DEF ServicesInit

\* A step of the composition is one of the part that runs.
LEMMA PartSteps ==
    [ServicesNext]_servicesVars =>
        /\ part' = part
        /\ part = "cache" => [Next]_vars
        /\ part = "budget" => [BudgetNext]_budgetVars
        /\ part = "block" => [BlockNext]_blockVars
        /\ part = "targets" => [TargetsNext]_targetVars
        /\ part = "http" => [HttpNext]_httpVars
        /\ part = "live" => [LiveNext]_liveVars
        /\ part = "socket" => [SocketNext]_socketVars
        /\ part = "log" => [LogNext]_logVars
        /\ part = "tls" => [TlsNext]_tlsVars
        /\ part = "startup" => [StartupNext]_startVars
<1>1. UNCHANGED servicesVars =>
        /\ part' = part /\ UNCHANGED vars /\ UNCHANGED budgetVars /\ UNCHANGED blockVars
        /\ UNCHANGED targetVars /\ UNCHANGED httpVars /\ UNCHANGED liveVars /\ UNCHANGED socketVars /\ UNCHANGED logVars
        /\ UNCHANGED tlsVars /\ UNCHANGED startVars
  BY DEF servicesVars, cacheVars, wireVars, outVars, hostVars
<1>2. ServicesNext => part' = part
  BY DEF ServicesNext
<1>3. ServicesNext /\ part = "cache" => Next
  BY DEF ServicesNext
<1>4. ServicesNext /\ part = "budget" => BudgetNext
  BY DEF ServicesNext
<1>5. ServicesNext /\ part = "http" => HttpNext
  BY DEF ServicesNext
<1>6. ServicesNext /\ part = "tls" => TlsNext
  BY DEF ServicesNext
<1>7. ServicesNext /\ part = "startup" => StartupNext
  BY DEF ServicesNext
<1>8. ServicesNext /\ part = "socket" => SocketNext
  BY DEF ServicesNext
<1>9. ServicesNext /\ part = "live" => LiveNext
  BY DEF ServicesNext
<1>10. ServicesNext /\ part = "log" => LogNext
  BY DEF ServicesNext
<1>11. ServicesNext /\ part = "block" => BlockNext
  BY DEF ServicesNext
<1>12. ServicesNext /\ part = "targets" => TargetsNext
  BY DEF ServicesNext
<1> QED BY <1>1, <1>2, <1>3, <1>4, <1>5, <1>6, <1>7, <1>8, <1>9, <1>10, <1>11, <1>12

\* The invariants of the parts, each while its part runs.
ServicesInv ==
    /\ part = "cache" => IInv /\ Capacity(cache)
    /\ part = "budget" => BudgetInv
    /\ part = "targets" => TargetsInv
    /\ part = "http" => HttpInv
    /\ part = "live" => LiveInv
    /\ part = "log" => LogInv
    /\ part = "tls" => TlsInv
    /\ part = "startup" => StartInv

LEMMA ServicesStart == ServicesInit => ServicesInv
BY PartStarts, InitIInv, CapacityStart, BudgetStart, TargetsStart, HttpStart, LiveStart, LogStart,
   TlsStart, StartupStart DEF ServicesInv

LEMMA ServicesStep == ServicesInv /\ [ServicesNext]_servicesVars => ServicesInv'
<1> SUFFICES ASSUME ServicesInv, [ServicesNext]_servicesVars PROVE ServicesInv'
  OBVIOUS
<1>0. part' = part
  BY PartSteps
<1>1. ASSUME part = "cache" PROVE IInv' /\ Capacity(cache)'
  <2>1. IInv /\ Capacity(cache) /\ [Next]_vars
    BY <1>1, PartSteps DEF ServicesInv
  <2>2. IInv' /\ Capacity(cache')
    BY <2>1, NextIInv, CapacityStep
  <2> QED BY <2>2
<1>2. ASSUME part = "budget" PROVE BudgetInv'
  BY <1>2, PartSteps, BudgetStep, BudgetStutter DEF ServicesInv
<1>3. ASSUME part = "http" PROVE HttpInv'
  BY <1>3, PartSteps, HttpStep DEF ServicesInv
<1>4. ASSUME part = "tls" PROVE TlsInv'
  BY <1>4, PartSteps, TlsStep DEF ServicesInv
<1>5. ASSUME part = "startup" PROVE StartInv'
  BY <1>5, PartSteps, StartupStep DEF ServicesInv
<1>6. ASSUME part = "live" PROVE LiveInv'
  BY <1>6, PartSteps, LiveStep DEF ServicesInv
<1>7. ASSUME part = "log" PROVE LogInv'
  BY <1>7, PartSteps, LogStep DEF ServicesInv
<1>8. ASSUME part = "targets" PROVE TargetsInv'
  BY <1>8, PartSteps, TargetsStep DEF ServicesInv
<1> QED BY <1>0, <1>1, <1>2, <1>3, <1>4, <1>5, <1>6, <1>7, <1>8 DEF ServicesInv

LEMMA ServicesInductive == ServicesSpec => []ServicesInv
BY ServicesStart, ServicesStep, PTL DEF ServicesSpec

\* The cache holds no more records than its limits, of all sources and of each
\* (GlobalShareCache::reserve), and the windows of RandomXVerifier are the
\* candidates that went on in the last minute, within the limits and with
\* nothing refused while there is room (allowCandidate,
\* allowEmergencyCandidate, cancelOwner): for any number of connections,
\* sources, heights and shares, any limits and a window of any length.
THEOREM LimitsExactTheorem == ServicesSpec => []LimitsExact
<1>1. ServicesInv => LimitsExact
  BY CapacityTrue, BudgetsTrue DEF ServicesInv, LimitsExact
<1> QED BY ServicesInductive, <1>1, PTL

\* A file that was chosen decides alone (BasePrivate::load), TLS is what was
\* asked for whichever files an earlier proxy left (TlsConfig, TlsGen::generate,
\* TlsContext::create), and the API shows the configuration and the summary to
\* who may see them and answers before it closes (Httpd::onHttpData): for every
\* set of options, files, documents and requests.
THEOREM ConfigurationGuardedTheorem == ServicesSpec => []ConfigurationGuarded
<1>1. ServicesInv => ConfigurationGuarded
  BY ChosenDecides, HttpTrue DEF ServicesInv, ConfigurationGuarded, TlsInv
<1> QED BY ServicesInductive, <1>1, PTL

\* A listener of an HTTP request is told of it once, whatever closes the
\* context, in whatever order, and whoever is deleted first
\* (HttpContext::close, on_message_complete, HttpClient::onTimer).
THEOREM ListenerToldOnceTheorem == ServicesSpec => [](part = "http" => ListenerToldOnce)
<1>1. ServicesInv => (part = "http" => ListenerToldOnce)
  BY HttpTrue DEF ServicesInv
<1> QED BY ServicesInductive, <1>1, PTL

\* As long as no two proxies with one path start at the same time, the path is
\* the socket of the one that runs, whichever of them stopped or crashed at any
\* step of its start (LiveEventStream::prepareSocketPath, start, stop).
THEOREM PathKeptTheorem == ~StartsOverlap /\ ServicesSpec => [](part = "socket" => PathKept)
<1> SUFFICES ASSUME ~StartsOverlap PROVE ServicesSpec => [](part = "socket" => PathKept)
  OBVIOUS
<1> DEFINE Inv == part = "socket" => SocketInv
<1>1. ServicesInit => Inv
  BY PartStarts, SocketStart
<1>2. Inv /\ [ServicesNext]_servicesVars => Inv'
  BY PartSteps, SocketStep
<1>3. Inv => (part = "socket" => PathKept)
  BY SocketTrue
<1> QED BY <1>1, <1>2, <1>3, PTL DEF ServicesSpec

\* A client of the event stream misses no row after the first it was sent, and
\* the rows tell of a miner's login before its jobs and its end
\* (LiveEventStream::broadcast, publishOrdered, replay); a log file holds the
\* lines that were said, whole and in their order (FileLogWriter::append,
\* flush); and, as long as no two proxies with one path start at the same time,
\* the path of the stream is the socket of the one that runs: for any number of
\* clients, miners and proxies, rows and lines of any size.
THEOREM StreamFaithfulTheorem == ~StartsOverlap /\ ServicesSpec => []StreamFaithful
<1>1. ServicesInv /\ (part = "socket" => PathKept) => StreamFaithful
  BY LiveTrue, LogTrue DEF ServicesInv, StreamFaithful
<1> QED BY ServicesInductive, PathKeptTheorem, <1>1, PTL

\* What was mined counts: unless a coinbase is not signed and yet has a view tag
\* in extra nonce mode, the block that is sent to the daemon is the one the
\* miner hashed and pays as its template does (Miner::setJob,
\* DaemonClient::installTemplate, submit); and a share that meets the target a
\* miner was told is not refused (Job::setDiff, Miner::setJob, JobResult): for
\* any number of transactions, miners and templates, coinbases of any fields and
\* targets of any number of digits.
THEOREM WorkCountsTheorem == ~TaggedExtra /\ ServicesSpec => []WorkCounts
<1> SUFFICES ASSUME ~TaggedExtra PROVE ServicesSpec => []WorkCounts
  OBVIOUS
<1> DEFINE Inv == part = "block" => BlockInv
<1>1. ServicesInit => Inv
  BY PartStarts, BlockStart
<1>2. Inv /\ [ServicesNext]_servicesVars => Inv'
  BY PartSteps, BlockStep
<1>3. Inv /\ ServicesInv => WorkCounts
  BY BlockTrue, TargetsTrue DEF ServicesInv, WorkCounts
<1>4. ServicesSpec => []Inv
  BY <1>1, <1>2, PTL DEF ServicesSpec
<1> QED BY <1>3, <1>4, ServicesInductive, PTL

LEMMA CacheSteps == [ServicesNext]_servicesVars => [Next]_vars
<1>1. UNCHANGED servicesVars => UNCHANGED vars
  BY DEF servicesVars, cacheVars
<1>2. ServicesNext => Next \/ UNCHANGED vars
  BY DEF ServicesNext, cacheVars
<1> QED BY <1>1, <1>2

\* Whichever part runs, the cache is one that GlobalShareCache describes: its
\* index, buckets and counts are exact and no record is lost
\* (GlobalShareCache::reserve, release, setOwnerHeights, observeHeight,
\* removeOwner, removeSource).
THEOREM CacheInServices == ServicesSpec => []CacheExact /\ NoRecordLost
<1>1. ServicesInit => Init
  BY PartStarts
<1>2. ServicesSpec => Spec
  BY <1>1, CacheSteps, PTL DEF ServicesSpec, Spec
<1> QED BY <1>2, CacheExactTheorem, NoRecordLostTheorem
=============================================================================
