---------------------------- MODULE Miner_proofs ----------------------------
(***************************************************************************)
(* Submit requests and the shared cache, for any number of connections,    *)
(* sources, jobs and requests.                                             *)
(*                                                                         *)
(* RequestsInv says which miner, job and share a request is of             *)
(* (RequestsOK), who owes it an answer (Answering), and what the state of  *)
(* a connection can be (MinersOK).  NewShare and FinishedShare are what a  *)
(* submission and the verifier's answer come to, path by path; the proofs  *)
(* about them need no other part of parseRequest or completeVerification.  *)
(*                                                                         *)
(* BucketsInv says whose client a source is (SourcesOK) and that the cache *)
(* references the heights of the jobs in use (References); Rereferenced is *)
(* what a template does to the references of one connection.  A template   *)
(* is a fold over the subscribers of a source, which DeliveryParts         *)
(* unfolds.                                                                *)
(*                                                                         *)
(* Records says which share claims each record of the cache; RecordsStep   *)
(* is the one way it is preserved.                                         *)
(*                                                                         *)
(* WorkInv says that a share which is relied upon (Relied) has its record  *)
(* while its job is in use (Recorded), that no two such shares have the    *)
(* same key (Distinct), and what was credited for them (CreditsInv).  Its  *)
(* height part (HeightsOK) needs a source whose height never falls.        *)
(***************************************************************************)
EXTENDS Miner, FiniteSetTheorems, WellFoundedInduction, TLAPS

\* The cache the connections share, with the theorems about it.
CP == INSTANCE GlobalShareCache_proofs WITH held <- {}, spent <- {}, MaxToken <- 0

MinerStates == {"new", "wait", "ready", "closing", "gone"}

JobType == [token : Nat, height : Heights, source : Sources, live : BOOLEAN]

MinerType ==
    [state : MinerStates, source : Sources \cup {0}, client : Nat, jobClient : Nat,
     deferred : Heights \cup {0}, jobs : Seq(JobType), jobHeight : Heights \cup {0},
     sequence : Nat, generation : Nat, rejections : Nat, failures : Nat]

Answers == {"Retry", "Refused", "Rejected", "OK"}

RequestType ==
    [owner : Owners, token : Tokens, nonce : Results, claimed : Results,
     answers : Seq(Answers), submitted : BOOLEAN, unverified : BOOLEAN]

\* A connection: tokens of its jobs are drawn and distinct; a snapshot is
\* deferred only by a client that has a source.
MinerOK(m) ==
    /\ m \in MinerType
    /\ m.deferred # 0 => m.source # 0
    /\ m.state \in {"new", "gone"} => m.source = 0
    /\ \A i \in DOMAIN m.jobs : m.jobs[i].token <= m.sequence
    /\ \A i, j \in DOMAIN m.jobs : m.jobs[i].token = m.jobs[j].token => i = j

MinersOK ==
    /\ miner \in [Owners -> MinerType]
    /\ \A o \in Owners : MinerOK(miner[o])
    /\ latest \in [Sources -> Heights \cup {0}]
    /\ retired \subseteq Sources
    /\ useVerifier \in BOOLEAN

(***************************************************************************)
(* Requests                                                                *)
(***************************************************************************)

Owed(q) == q \in inflight \/ \E p \in pending : p.req = q

RequestsOK ==
    /\ log \in Seq(RequestType) /\ inflight \subseteq DOMAIN log
    /\ \A p \in pending :
          /\ p.req \in DOMAIN log /\ p.req \notin inflight
          /\ p.owner = log[p.req].owner /\ p.token = log[p.req].token
    /\ \A p, r \in pending : p.req = r.req => p = r

\* A request that is owed an answer has none, any other one of a connected miner
\* has one.
Answering ==
    \A q \in DOMAIN log :
        /\ log[q].answers = <<>> \/ \E a \in Answers : log[q].answers = <<a>>
        /\ Owed(q) => log[q].answers = <<>> /\ miner[log[q].owner].state \in {"ready", "closing"}
        /\ log[q].answers = <<>> /\ miner[log[q].owner].state = "ready" => Owed(q)
        /\ miner[log[q].owner].state \notin {"new", "wait"}

(***************************************************************************)
(* Folds over finite sets                                                  *)
(***************************************************************************)

Pick(T) == CHOOSE x \in T : TRUE

LEMMA SeqEqual ==
    ASSUME NEW S, NEW s \in Seq(S), NEW t \in Seq(S), NEW k, Len(s) = k, Len(t) = k,
           \A i \in 1..k : s[i] = t[i]
    PROVE  s = t
OBVIOUS

LEMMA FunctionIsSeq ==
    ASSUME NEW S, NEW k \in Nat, NEW f \in [1..k -> S]
    PROVE  f \in Seq(S) /\ DOMAIN f = 1..k
OBVIOUS

LEMMA AppendExcept ==
    ASSUME NEW S, NEW s \in Seq(S), NEW r \in S, NEW x \in S
    PROVE  [Append(s, r) EXCEPT ![Len(s) + 1] = x] = Append(s, x)
<1> DEFINE k == Len(s) + 1
           a == Append(s, r)
           b == Append(s, x)
           e == [a EXCEPT ![k] = x]
<1>1. a \in Seq(S) /\ Len(a) = k /\ \A i \in 1..Len(s) : a[i] = s[i]
  OBVIOUS
<1>2. b \in Seq(S) /\ Len(b) = k /\ b[k] = x /\ \A i \in 1..Len(s) : b[i] = s[i]
  OBVIOUS
<1>3. k \in Nat /\ k \in 1..k /\ \A i \in 1..k : i = k \/ i \in 1..Len(s)
  OBVIOUS
<1> HIDE DEF a, b, k
<1>4. e \in Seq(S) /\ Len(e) = k
  BY <1>1, <1>3
<1>5. e[k] = x /\ \A i \in 1..k : i # k => e[i] = a[i]
  BY <1>1, <1>3
<1> HIDE DEF e
<1>6. \A i \in 1..k : e[i] = b[i]
  BY <1>1, <1>2, <1>3, <1>5
<1>7. e = b
  BY <1>2, <1>4, <1>6, SeqEqual
<1> QED BY <1>7 DEF e, a, b, k

LEMMA SmallestElement ==
    ASSUME NEW S \in SUBSET Nat, S # {}
    PROVE  \E n \in S : \A m \in S : n <= m
<1> DEFINE less == OpToRel(<, Nat)
<1>1. less = {ss \in Nat \X Nat : ss[1] < ss[2]}
  BY DEF OpToRel
<1>2. IsWellFoundedOn(less, Nat)
  BY NatLessThanWellFounded
<1> HIDE DEF less
<1>3. PICK n \in S : \A m \in S : ~ (<<m, n>> \in less)
  BY <1>2, WFMin
<1>4. ASSUME NEW m \in S PROVE n <= m
  <2>1. m \in Nat /\ n \in Nat /\ ~ (<<m, n>> \in less)
    BY <1>3
  <2>2. ~ (m < n)
    BY <1>1, <2>1
  <2> QED BY <2>1, <2>2
<1> QED BY <1>4

LEMMA PickIn == \A T : T # {} => Pick(T) \in T
  BY DEF Pick

\* Taking away the picked element makes a finite set smaller by one.
LEMMA PickSmaller ==
    ASSUME NEW T, IsFiniteSet(T), T # {}
    PROVE  /\ IsFiniteSet(T \ {Pick(T)}) /\ Cardinality(T \ {Pick(T)}) \in Nat
           /\ Cardinality(T) \in Nat
           /\ Cardinality(T \ {Pick(T)}) = Cardinality(T) - 1
<1>1. Pick(T) \in T
  BY PickIn
<1> HIDE DEF Pick
<1> QED BY <1>1, FS_RemoveElement, FS_CardinalityType

\* Induction over the subsets of a finite set in the order of a fold: G are the
\* subsets for which something has been shown.
LEMMA SetInduction ==
    ASSUME NEW S, IsFiniteSet(S), NEW G, {} \in G,
           \A T \in SUBSET S : T # {} /\ T \ {Pick(T)} \in G => T \in G
    PROVE  \A T \in SUBSET S : T \in G
<1> SUFFICES ASSUME NEW T0 \in SUBSET S, T0 \notin G PROVE FALSE
  OBVIOUS
<1> DEFINE bad == {T \in SUBSET S : T \notin G}
           sizes == {Cardinality(T) : T \in bad}
<1>1. \A T \in bad : IsFiniteSet(T) /\ Cardinality(T) \in Nat
  BY FS_Subset, FS_CardinalityType
<1>2. sizes \in SUBSET Nat /\ sizes # {}
  BY <1>1
<1> HIDE DEF sizes
<1>3. PICK n \in sizes : \A m \in sizes : n <= m
  BY <1>2, SmallestElement
<1>4. PICK T \in bad : n = Cardinality(T)
  BY <1>3 DEF sizes
<1>5. T # {} /\ T \in SUBSET S /\ T \notin G
  BY <1>4
<1>6. T \ {Pick(T)} \in SUBSET S /\ T \ {Pick(T)} \notin G
  BY <1>5
<1>7. Cardinality(T \ {Pick(T)}) \in sizes
  BY <1>6 DEF sizes
<1>8. Cardinality(T \ {Pick(T)}) < n /\ n \in Nat
  BY <1>1, <1>4, <1>5, PickSmaller
<1>9. Cardinality(T \ {Pick(T)}) \in Nat
  BY <1>2, <1>7
<1> QED BY <1>3, <1>7, <1>8, <1>9

LEMMA NatSetInduction ==
    ASSUME NEW G, 0 \in G, \A n \in Nat : n \in G => n + 1 \in G
    PROVE  \A n \in Nat : n \in G
<1> SUFFICES ASSUME NEW n0 \in Nat, n0 \notin G PROVE FALSE
  OBVIOUS
<1> DEFINE bad == {n \in Nat : n \notin G}
<1>1. bad \in SUBSET Nat /\ bad # {}
  OBVIOUS
<1>2. PICK n \in bad : \A m \in bad : n <= m
  BY <1>1, SmallestElement
<1>3. n \in Nat /\ n # 0 /\ n \notin G
  BY <1>2
<1>4. n - 1 \in Nat /\ (n - 1) + 1 = n /\ ~ (n <= n - 1)
  BY <1>3
<1>5. n - 1 \notin G
  BY <1>3, <1>4
<1> QED BY <1>2, <1>4, <1>5

TemplateStep(acc, o, h, ready, failing) == onDaemonTemplate(acc, o, h, ready, o \notin failing)

\* The states between the subscribers of a source, as NewTemplate folds them.
IsDelivery(F, D, base, h, ready, failing) ==
    F = [T \in D |-> IF T = {} THEN base
                     ELSE TemplateStep(F[T \ {Pick(T)}], Pick(T), h, ready, failing)]

LEMMA DeliveryExists ==
    ASSUME NEW S, IsFiniteSet(S), NEW base, NEW h, NEW ready, NEW failing
    PROVE  \E F : IsDelivery(F, SUBSET S, base, h, ready, failing)
<1> DEFINE Sub(n) == {T \in SUBSET S : Cardinality(T) <= n}
           G == {n \in Nat : \E F : IsDelivery(F, Sub(n), base, h, ready, failing)}
<1>1. \A T \in SUBSET S : IsFiniteSet(T) /\ Cardinality(T) \in Nat
  BY FS_Subset, FS_CardinalityType
<1>2. \A T \in SUBSET S : T # {} => Cardinality(T) > 0
  BY <1>1, FS_EmptySet
<1>3. 0 \in G
  <2> DEFINE F0 == [T \in Sub(0) |-> base]
  <2>1. \A T \in Sub(0) : T = {}
    BY <1>1, <1>2
  <2>2. IsDelivery(F0, Sub(0), base, h, ready, failing)
    BY <2>1 DEF IsDelivery
  <2> QED BY <2>2
<1>4. ASSUME NEW n \in Nat, n \in G PROVE n + 1 \in G
  <2>1. PICK F : IsDelivery(F, Sub(n), base, h, ready, failing)
    BY <1>4
  <2> DEFINE H == [T \in Sub(n + 1) |-> IF T = {} THEN base
                      ELSE TemplateStep(F[T \ {Pick(T)}], Pick(T), h, ready, failing)]
  <2>2. \A T \in Sub(n) : T \in Sub(n + 1)
    BY <1>1
  <2>3. \A T \in Sub(n + 1) : T # {} => T \ {Pick(T)} \in Sub(n)
    <3> SUFFICES ASSUME NEW T \in Sub(n + 1), T # {} PROVE T \ {Pick(T)} \in Sub(n)
      OBVIOUS
    <3>1. /\ Cardinality(T \ {Pick(T)}) \in Nat /\ Cardinality(T) \in Nat
          /\ Cardinality(T \ {Pick(T)}) = Cardinality(T) - 1 /\ Cardinality(T) <= n + 1
      BY <1>1, PickSmaller
    <3> QED BY <3>1
  <2> HIDE DEF Sub
  <2>4. \A T \in Sub(n) : H[T] = F[T]
    BY <2>1, <2>2 DEF IsDelivery
  <2>5. \A T \in Sub(n + 1) : T # {} => F[T \ {Pick(T)}] = H[T \ {Pick(T)}]
    BY <2>3, <2>4
  <2>6. H = [T \in Sub(n + 1) |-> IF T = {} THEN base
                ELSE TemplateStep(H[T \ {Pick(T)}], Pick(T), h, ready, failing)]
    <3>1. \A T \in Sub(n + 1) :
             (IF T = {} THEN base ELSE TemplateStep(F[T \ {Pick(T)}], Pick(T), h, ready, failing))
           = (IF T = {} THEN base ELSE TemplateStep(H[T \ {Pick(T)}], Pick(T), h, ready, failing))
      <4> HIDE DEF H
      <4> QED BY <2>5
    <3> QED BY <3>1
  <2>7. IsDelivery(H, Sub(n + 1), base, h, ready, failing)
    BY <2>6 DEF IsDelivery
  <2>8. n + 1 \in Nat
    OBVIOUS
  <2> QED BY <2>7, <2>8
<1> HIDE DEF G
<1>5. Cardinality(S) \in G
  BY <1>1, <1>3, <1>4, NatSetInduction
<1>6. Sub(Cardinality(S)) = SUBSET S
  <2>1. \A T \in SUBSET S : Cardinality(T) <= Cardinality(S)
    BY FS_Subset
  <2> QED BY <2>1
<1> QED BY <1>5, <1>6 DEF G

deliver(st0, S, h, ready, failing) ==
    FoldSet(LAMBDA o, acc : onDaemonTemplate(acc, o, h, ready, o \notin failing), st0, S)

LEMMA Delivery ==
    ASSUME NEW S, IsFiniteSet(S), NEW base, NEW h, NEW ready, NEW failing
    PROVE  \E F : /\ IsDelivery(F, SUBSET S, base, h, ready, failing)
                  /\ deliver(base, S, h, ready, failing) = F[S]
<1> DEFINE F == CHOOSE iter : iter = [s \in SUBSET S |->
                    IF s = {} THEN base
                    ELSE onDaemonTemplate(iter[s \ {CHOOSE x \in s : TRUE}], CHOOSE x \in s : TRUE,
                             h, ready, (CHOOSE x \in s : TRUE) \notin failing)]
<1>1. \E iter : iter = [s \in SUBSET S |->
                    IF s = {} THEN base
                    ELSE onDaemonTemplate(iter[s \ {CHOOSE x \in s : TRUE}], CHOOSE x \in s : TRUE,
                             h, ready, (CHOOSE x \in s : TRUE) \notin failing)]
  <2>1. PICK iter : IsDelivery(iter, SUBSET S, base, h, ready, failing)
    BY DeliveryExists
  <2> QED BY <2>1, Zenon DEF IsDelivery, TemplateStep, Pick
<1>2. F = [s \in SUBSET S |->
                    IF s = {} THEN base
                    ELSE onDaemonTemplate(F[s \ {CHOOSE x \in s : TRUE}], CHOOSE x \in s : TRUE,
                             h, ready, (CHOOSE x \in s : TRUE) \notin failing)]
  BY <1>1, Zenon
<1>3. deliver(base, S, h, ready, failing) = F[S]
  BY DEF deliver, FoldSet, MapThenFoldSet
<1> HIDE DEF F
<1>4. IsDelivery(F, SUBSET S, base, h, ready, failing)
  BY <1>2 DEF IsDelivery, TemplateStep, Pick
<1> QED BY <1>3, <1>4

\* The same for the shares that are destroyed with a connection.
IsDestruction(F, D, base) ==
    F = [T \in D |-> IF T = {} THEN base ELSE release2(F[T \ {Pick(T)}], Pick(T).res)]

LEMMA DestructionExists ==
    ASSUME NEW S, IsFiniteSet(S), NEW base
    PROVE  \E F : IsDestruction(F, SUBSET S, base)
<1> DEFINE Sub(n) == {T \in SUBSET S : Cardinality(T) <= n}
           G == {n \in Nat : \E F : IsDestruction(F, Sub(n), base)}
<1>1. \A T \in SUBSET S : IsFiniteSet(T) /\ Cardinality(T) \in Nat
  BY FS_Subset, FS_CardinalityType
<1>2. \A T \in SUBSET S : T # {} => Cardinality(T) > 0
  BY <1>1, FS_EmptySet
<1>3. 0 \in G
  <2> DEFINE F0 == [T \in Sub(0) |-> base]
  <2>1. \A T \in Sub(0) : T = {}
    BY <1>1, <1>2
  <2>2. IsDestruction(F0, Sub(0), base)
    BY <2>1 DEF IsDestruction
  <2> QED BY <2>2
<1>4. ASSUME NEW n \in Nat, n \in G PROVE n + 1 \in G
  <2>1. PICK F : IsDestruction(F, Sub(n), base)
    BY <1>4
  <2> DEFINE H == [T \in Sub(n + 1) |-> IF T = {} THEN base
                      ELSE release2(F[T \ {Pick(T)}], Pick(T).res)]
  <2>2. \A T \in Sub(n) : T \in Sub(n + 1)
    BY <1>1
  <2>3. \A T \in Sub(n + 1) : T # {} => T \ {Pick(T)} \in Sub(n)
    <3> SUFFICES ASSUME NEW T \in Sub(n + 1), T # {} PROVE T \ {Pick(T)} \in Sub(n)
      OBVIOUS
    <3>1. /\ Cardinality(T \ {Pick(T)}) \in Nat /\ Cardinality(T) \in Nat
          /\ Cardinality(T \ {Pick(T)}) = Cardinality(T) - 1 /\ Cardinality(T) <= n + 1
      BY <1>1, PickSmaller
    <3> QED BY <3>1
  <2> HIDE DEF Sub
  <2>4. \A T \in Sub(n) : H[T] = F[T]
    BY <2>1, <2>2 DEF IsDestruction
  <2>5. \A T \in Sub(n + 1) : T # {} => F[T \ {Pick(T)}] = H[T \ {Pick(T)}]
    BY <2>3, <2>4
  <2>6. H = [T \in Sub(n + 1) |-> IF T = {} THEN base
                ELSE release2(H[T \ {Pick(T)}], Pick(T).res)]
    <3>1. \A T \in Sub(n + 1) :
             (IF T = {} THEN base ELSE release2(F[T \ {Pick(T)}], Pick(T).res))
           = (IF T = {} THEN base ELSE release2(H[T \ {Pick(T)}], Pick(T).res))
      <4> HIDE DEF H
      <4> QED BY <2>5
    <3> QED BY <3>1
  <2>7. IsDestruction(H, Sub(n + 1), base)
    BY <2>6 DEF IsDestruction
  <2>8. n + 1 \in Nat
    OBVIOUS
  <2> QED BY <2>7, <2>8
<1>5. \A n \in Nat : n \in G
  <2> HIDE DEF G
  <2> QED BY <1>3, <1>4, NatSetInduction
<1>6. Cardinality(S) \in Nat /\ Sub(Cardinality(S)) = SUBSET S
  BY <1>1, FS_Subset
<1> QED BY <1>5, <1>6 DEF G

LEMMA Destruction ==
    ASSUME NEW S, IsFiniteSet(S), NEW base
    PROVE  \E F : IsDestruction(F, SUBSET S, base) /\ destroyed(base, S) = F[S]
<1> DEFINE F == CHOOSE iter : iter = [s \in SUBSET S |->
                    IF s = {} THEN base
                    ELSE release2(iter[s \ {CHOOSE x \in s : TRUE}], (CHOOSE x \in s : TRUE).res)]
<1>1. \E iter : iter = [s \in SUBSET S |->
                    IF s = {} THEN base
                    ELSE release2(iter[s \ {CHOOSE x \in s : TRUE}], (CHOOSE x \in s : TRUE).res)]
  <2>1. PICK iter : IsDestruction(iter, SUBSET S, base)
    BY DestructionExists
  <2> QED BY <2>1, Zenon DEF IsDestruction, Pick
<1>2. F = [s \in SUBSET S |->
                    IF s = {} THEN base
                    ELSE release2(F[s \ {CHOOSE x \in s : TRUE}], (CHOOSE x \in s : TRUE).res)]
  BY <1>1, Zenon
<1>3. destroyed(base, S) = F[S]
  BY DEF destroyed, FoldSet, MapThenFoldSet
<1> HIDE DEF F
<1>4. IsDestruction(F, SUBSET S, base)
  BY <1>2 DEF IsDestruction, Pick
<1> QED BY <1>3, <1>4

LEMMA DestroyedOne == \A c, p : destroyed(c, {p}) = release2(c, p.res)
<1> SUFFICES ASSUME NEW c, NEW p PROVE destroyed(c, {p}) = release2(c, p.res)
  OBVIOUS
<1>1. PICK F : IsDestruction(F, SUBSET {p}, c) /\ destroyed(c, {p}) = F[{p}]
  BY FS_Singleton, Destruction
<1>2. Pick({p}) = p /\ {p} \ {p} = {} /\ {p} # {}
  BY PickIn
<1>3. F[{p}] = release2(F[{}], p.res) /\ F[{}] = c
  BY <1>1, <1>2 DEF IsDestruction
<1> QED BY <1>1, <1>3

(***************************************************************************)
(* A connection                                                            *)
(***************************************************************************)

LEMMA Constants ==
    /\ Owners \subseteq Nat /\ IsFiniteSet(Owners)
    /\ Sources \subseteq Nat /\ 0 \notin Sources /\ Heights \subseteq Nat /\ 0 \notin Heights
    /\ kTelemetryJobCount \in Nat /\ maxConsecutiveRejections \in Nat
    /\ kMaxConsecutiveInfrastructureFailures \in Nat
BY MinerAssumption

LEMMA MinerFields ==
    ASSUME NEW m \in MinerType
    PROVE  /\ m.state \in MinerStates /\ m.source \in Sources \cup {0} /\ m.client \in Nat
           /\ m.jobClient \in Nat /\ m.deferred \in Heights \cup {0} /\ m.jobs \in Seq(JobType)
           /\ m.jobHeight \in Heights \cup {0} /\ m.sequence \in Nat /\ m.generation \in Nat
           /\ m.rejections \in Nat /\ m.failures \in Nat
BY DEF MinerType

\* Counting the outcome of a share may shut a connection down and changes
\* nothing else.
SameBut(m, n) ==
    /\ n \in MinerType /\ n.state \in {m.state, "closing"}
    /\ n.source = m.source /\ n.client = m.client /\ n.jobClient = m.jobClient
    /\ n.deferred = m.deferred /\ n.jobs = m.jobs /\ n.jobHeight = m.jobHeight
    /\ n.sequence = m.sequence /\ n.generation = m.generation

LEMMA Shutdown ==
    ASSUME NEW m \in MinerType
    PROVE  SameBut(m, shutdown(m)) /\ shutdown(m).state = "closing"
BY DEF shutdown, SameBut, MinerType, MinerStates

LEMMA SameTrans ==
    ASSUME NEW m, NEW n, NEW k, SameBut(m, n), SameBut(n, k)
    PROVE  SameBut(m, k)
BY DEF SameBut

LEMMA ShareOutcome ==
    ASSUME NEW m \in MinerType, NEW b
    PROVE  SameBut(m, recordShareOutcome(m, b))
<1>1. m.rejections + 1 \in Nat
  BY MinerFields
<1> DEFINE a == [m EXCEPT !.failures = 0, !.rejections = 0]
           n == [m EXCEPT !.rejections = m.rejections + 1]
<1>2. SameBut(m, a)
  BY DEF SameBut, MinerType
<1>3. SameBut(m, n)
  BY <1>1 DEF SameBut, MinerType
<1>4. SameBut(m, m)
  BY DEF SameBut
<1>5. SameBut(m, shutdown(n))
  BY <1>3, Shutdown, SameTrans DEF SameBut
<1>6. recordShareOutcome(m, b) \in {a, m, n, shutdown(n)}
  BY DEF recordShareOutcome
<1> QED BY <1>2, <1>3, <1>4, <1>5, <1>6

LEMMA InfrastructureOutcome ==
    ASSUME NEW m \in MinerType, NEW b
    PROVE  SameBut(m, recordInfrastructureOutcome(m, b))
<1>1. m.failures + 1 \in Nat
  BY MinerFields
<1> DEFINE a == [m EXCEPT !.failures = 0]
           n == [m EXCEPT !.failures = m.failures + 1]
<1>2. SameBut(m, a)
  BY DEF SameBut, MinerType
<1>3. SameBut(m, n)
  BY <1>1 DEF SameBut, MinerType
<1>5. SameBut(m, shutdown(n))
  BY <1>3, Shutdown, SameTrans DEF SameBut
<1>6. recordInfrastructureOutcome(m, b) \in {a, n, shutdown(n)}
  BY DEF recordInfrastructureOutcome
<1> QED BY <1>2, <1>3, <1>5, <1>6

\* What setJob makes of the miner and of the cache.
base(old) ==
    [(IF old.jobClient = old.client THEN old ELSE clearTelemetryJobs(old))
        EXCEPT !.jobClient = old.client, !.deferred = 0]

jobMiner(old, h, written) ==
    IF ~ isWritable(base(old)) THEN base(old)
    ELSE IF ~ written THEN shutdown(base(old))
    ELSE [rememberJob(base(old), h) EXCEPT !.state = "ready"]

jobCache(c0, o, old, h, written) ==
    LET c == IF old.jobClient = old.client THEN c0 ELSE C!removeOwner(c0, o)
    IN  IF ~ isWritable(base(old)) \/ ~ written THEN c
        ELSE C!setOwnerHeights(c, o, base(old).source,
                 eligibleHeights([rememberJob(base(old), h) EXCEPT !.state = "ready"],
                                 base(old).source))

LEMMA SetJobParts ==
    ASSUME NEW st, NEW o, NEW h, NEW written
    PROVE  setJob(st, o, h, written) =
               [cache |-> jobCache(st.cache, o, st.miner[o], h, written),
                miner |-> [st.miner EXCEPT ![o] = jobMiner(st.miner[o], h, written)]]
<1> DEFINE old == st.miner[o]
           m == base(old)
           c == IF old.jobClient = old.client THEN st.cache ELSE C!removeOwner(st.cache, o)
           sent == [rememberJob(m, h) EXCEPT !.state = "ready"]
<1>1. setJob(st, o, h, written) =
        IF ~ isWritable(m)
        THEN [cache |-> c, miner |-> [st.miner EXCEPT ![o] = m]]
        ELSE IF ~ written
        THEN [cache |-> c, miner |-> [st.miner EXCEPT ![o] = shutdown(m)]]
        ELSE [cache |-> C!setOwnerHeights(c, o, m.source, eligibleHeights(sent, m.source)),
              miner |-> [st.miner EXCEPT ![o] = sent]]
  BY Zenon DEF setJob, base
<1>2. jobCache(st.cache, o, old, h, written) =
        IF ~ isWritable(m) \/ ~ written THEN c
        ELSE C!setOwnerHeights(c, o, m.source, eligibleHeights(sent, m.source))
  BY Zenon DEF jobCache
<1>3. jobMiner(old, h, written) =
        IF ~ isWritable(m) THEN m ELSE IF ~ written THEN shutdown(m) ELSE sent
  BY Zenon DEF jobMiner
<1> HIDE DEF m, c, sent
<1>4. CASE ~ isWritable(m)
  BY <1>1, <1>2, <1>3, <1>4
<1>5. CASE isWritable(m) /\ ~ written
  BY <1>1, <1>2, <1>3, <1>5
<1>6. CASE isWritable(m) /\ written
  BY <1>1, <1>2, <1>3, <1>6
<1> QED BY <1>4, <1>5, <1>6

LEMMA BaseFields ==
    ASSUME NEW old \in MinerType
    PROVE  /\ base(old) \in MinerType
           /\ base(old).state = old.state /\ base(old).source = old.source
           /\ base(old).client = old.client /\ base(old).jobClient = old.client
           /\ base(old).deferred = 0 /\ base(old).sequence = old.sequence
           /\ base(old).generation >= old.generation
           /\ old.jobClient = old.client =>
                 /\ base(old).jobs = old.jobs /\ base(old).jobHeight = old.jobHeight
                 /\ base(old).generation = old.generation
           /\ old.jobClient # old.client => base(old).jobs = <<>> /\ base(old).jobHeight = 0
<1>1. old.generation + 1 \in Nat /\ old.client \in Nat /\ old.generation \in Nat
  BY MinerFields
<1>2. CASE old.jobClient = old.client
  <2>1. base(old) = [old EXCEPT !.jobClient = old.client, !.deferred = 0]
    BY <1>2 DEF base
  <2>2. base(old) \in MinerType
    BY <1>1, <2>1 DEF MinerType
  <2>3. /\ base(old).state = old.state /\ base(old).source = old.source
        /\ base(old).client = old.client /\ base(old).jobClient = old.client
        /\ base(old).deferred = 0 /\ base(old).sequence = old.sequence
        /\ base(old).generation = old.generation
        /\ base(old).jobs = old.jobs /\ base(old).jobHeight = old.jobHeight
    BY <2>1 DEF MinerType
  <2> QED BY <1>1, <1>2, <2>2, <2>3
<1>3. CASE old.jobClient # old.client
  <2>1. base(old) = [[old EXCEPT !.jobs = <<>>, !.jobHeight = 0,
                                 !.generation = old.generation + 1]
                        EXCEPT !.jobClient = old.client, !.deferred = 0]
    BY <1>3 DEF base, clearTelemetryJobs
  <2>2. <<>> \in Seq(JobType)
    OBVIOUS
  <2>3. base(old) \in MinerType
    BY <1>1, <2>1, <2>2 DEF MinerType
  <2>4. /\ base(old).state = old.state /\ base(old).source = old.source
        /\ base(old).client = old.client /\ base(old).jobClient = old.client
        /\ base(old).deferred = 0 /\ base(old).sequence = old.sequence
        /\ base(old).generation = old.generation + 1
        /\ base(old).jobs = <<>> /\ base(old).jobHeight = 0
    BY <2>1 DEF MinerType
  <2> QED BY <1>1, <1>3, <2>3, <2>4
<1> QED BY <1>2, <1>3

newJob(old, h) == [token |-> old.sequence + 1, height |-> h, source |-> old.source, live |-> TRUE]

sentMiner(m, h) == [rememberJob(m, h) EXCEPT !.state = "ready"]

\* The jobs of a miner that was sent one: that one and what is left of the others.
LEMMA Remembered ==
    ASSUME NEW m \in MinerType, NEW h \in Heights, m.source \in Sources,
           NEW n, n = sentMiner(m, h)
    PROVE  /\ n \in MinerType /\ n.state = "ready" /\ n.source = m.source /\ n.client = m.client
           /\ n.jobClient = m.jobClient /\ n.deferred = m.deferred /\ n.jobHeight = h
           /\ n.sequence = m.sequence + 1 /\ n.generation = m.generation
           /\ \A i \in DOMAIN n.jobs : IF i = 1 THEN n.jobs[i] = newJob(m, h)
                                       ELSE i - 1 \in DOMAIN m.jobs /\ n.jobs[i] = m.jobs[i - 1]
<1> DEFINE all == <<newJob(m, h)>> \o m.jobs
           k == IF Len(all) > kTelemetryJobCount THEN kTelemetryJobCount ELSE Len(all)
           js == SubSeq(all, 1, k)
<1>1. m.sequence \in Nat /\ m.jobs \in Seq(JobType)
  BY MinerFields
<1>2. newJob(m, h) \in JobType
  BY <1>1 DEF newJob, JobType
<1>3. all \in Seq(JobType) /\ Len(all) = 1 + Len(m.jobs) /\ Len(m.jobs) \in Nat
  <2> HIDE DEF newJob
  <2> QED BY <1>1, <1>2
<1>4. \A i \in 1..Len(all) : IF i = 1 THEN all[i] = newJob(m, h)
                             ELSE i - 1 \in DOMAIN m.jobs /\ all[i] = m.jobs[i - 1]
  <2> HIDE DEF newJob
  <2> QED BY <1>1, <1>2, <1>3
<1>5. k \in 0..Len(all)
  BY <1>3, Constants
<1> HIDE DEF all, k
<1>6. js \in Seq(JobType) /\ Len(js) = k /\ \A i \in 1..k : js[i] = all[i]
  BY <1>3, <1>5
<1>7. n = [[m EXCEPT !.sequence = m.sequence + 1, !.jobHeight = h, !.jobs = js] EXCEPT !.state = "ready"]
  BY DEF sentMiner, rememberJob, js, all, k, newJob
<1> HIDE DEF js
<1>8. \A i \in DOMAIN js : IF i = 1 THEN js[i] = newJob(m, h)
                           ELSE i - 1 \in DOMAIN m.jobs /\ js[i] = m.jobs[i - 1]
  <2> SUFFICES ASSUME NEW i \in DOMAIN js
               PROVE  IF i = 1 THEN js[i] = newJob(m, h)
                      ELSE i - 1 \in DOMAIN m.jobs /\ js[i] = m.jobs[i - 1]
    OBVIOUS
  <2>1. i \in 1..k
    BY <1>5, <1>6
  <2>2. i \in 1..Len(all)
    BY <2>1, <1>3, <1>5
  <2> QED BY <1>4, <1>6, <2>1, <2>2
<1>9. m.sequence + 1 \in Nat
  BY <1>1
<1>10. n \in MinerType
  BY <1>6, <1>7, <1>9 DEF MinerType, MinerStates
<1>11. /\ n.jobs = js /\ n.state = "ready" /\ n.source = m.source
       /\ n.client = m.client /\ n.jobClient = m.jobClient /\ n.deferred = m.deferred
       /\ n.jobHeight = h /\ n.sequence = m.sequence + 1 /\ n.generation = m.generation
  BY <1>7 DEF MinerType
<1> QED BY <1>8, <1>10, <1>11

LEMMA SameOK ==
    ASSUME NEW m, NEW n, MinerOK(m), SameBut(m, n)
    PROVE  MinerOK(n)
BY DEF SameBut, MinerOK

\* A job is made of a template: the miner gets it unless its socket is closed or
\* the write fails.
LEMMA JobMiner ==
    ASSUME NEW old, MinerOK(old), old.source \in Sources, NEW h \in Heights,
           NEW written \in BOOLEAN, NEW n, n = jobMiner(old, h, written)
    PROVE  /\ MinerOK(n)
           /\ n.source = old.source /\ n.client = old.client /\ n.jobClient = old.client
           /\ n.deferred = 0 /\ n.generation >= old.generation /\ n.sequence >= old.sequence
           /\ n.state = IF ~ isWritable(old) THEN old.state
                        ELSE IF written THEN "ready" ELSE "closing"
<1> DEFINE m == base(old)
<1>0. old \in MinerType
  BY DEF MinerOK
<1>1. /\ m \in MinerType /\ m.state = old.state /\ m.source = old.source
      /\ m.client = old.client /\ m.jobClient = old.client /\ m.deferred = 0
      /\ m.sequence = old.sequence /\ m.generation >= old.generation
      /\ m.jobs = old.jobs \/ m.jobs = <<>>
  BY <1>0, BaseFields
<1>2. isWritable(m) <=> isWritable(old)
  BY <1>1 DEF isWritable
<1>3. n = IF ~ isWritable(m) THEN m ELSE IF ~ written THEN shutdown(m)
          ELSE [rememberJob(m, h) EXCEPT !.state = "ready"]
  BY DEF jobMiner
<1> HIDE DEF m
<1>4. /\ old.generation \in Nat /\ old.sequence \in Nat /\ m.generation \in Nat
      /\ m.sequence \in Nat /\ m.jobs \in Seq(JobType)
  BY <1>0, <1>1, MinerFields
<1>5. MinerOK(m)
  <2>1. /\ \A i \in DOMAIN m.jobs : m.jobs[i].token <= m.sequence
        /\ \A i, j \in DOMAIN m.jobs : m.jobs[i].token = m.jobs[j].token => i = j
    <3>1. CASE m.jobs = <<>>
      BY <3>1
    <3>2. CASE m.jobs = old.jobs
      BY <1>1, <3>2 DEF MinerOK
    <3> QED BY <1>1, <3>1, <3>2
  <2> QED BY <1>1, <2>1 DEF MinerOK
<1>6. CASE ~ isWritable(m)
  BY <1>1, <1>2, <1>3, <1>4, <1>5, <1>6
<1>7. CASE isWritable(m) /\ ~ written
  <2>1. n = shutdown(m)
    BY <1>3, <1>7
  <2>2. SameBut(m, n) /\ n.state = "closing"
    BY <2>1, <1>1, Shutdown
  <2>3. MinerOK(n)
    BY <1>5, <2>2, SameOK
  <2> QED BY <1>1, <1>2, <1>4, <1>7, <2>2, <2>3 DEF SameBut
<1>8. CASE isWritable(m) /\ written
  <2>1. n = sentMiner(m, h)
    BY <1>3, <1>8 DEF sentMiner
  <2>2. m.source \in Sources
    BY <1>1
  <2>3. /\ n \in MinerType /\ n.state = "ready" /\ n.source = m.source /\ n.client = m.client
        /\ n.jobClient = m.jobClient /\ n.deferred = m.deferred /\ n.jobHeight = h
        /\ n.sequence = m.sequence + 1 /\ n.generation = m.generation
        /\ \A i \in DOMAIN n.jobs : IF i = 1 THEN n.jobs[i] = newJob(m, h)
                                    ELSE i - 1 \in DOMAIN m.jobs /\ n.jobs[i] = m.jobs[i - 1]
    <3>1. m \in MinerType
      BY <1>1
    <3> QED BY <3>1, <2>1, <2>2, Remembered
  <2>4. newJob(m, h).token = m.sequence + 1
    BY DEF newJob
  <2>5. n.jobs \in Seq(JobType) /\ DOMAIN n.jobs \subseteq Nat
    BY <2>3, MinerFields
  <2>6. ASSUME NEW i \in DOMAIN m.jobs
        PROVE  m.jobs[i].token \in Nat /\ m.jobs[i].token <= m.sequence
    <3>1. m.jobs[i] \in JobType
      BY <1>4
    <3> QED BY <3>1, <1>5 DEF MinerOK, JobType
  <2>7. ASSUME NEW i \in DOMAIN n.jobs
        PROVE  /\ n.jobs[i].token <= n.sequence
               /\ IF i = 1 THEN n.jobs[i].token = m.sequence + 1
                  ELSE /\ i - 1 \in DOMAIN m.jobs /\ n.jobs[i].token = m.jobs[i - 1].token
                       /\ n.jobs[i].token # m.sequence + 1
    <3>1. CASE i = 1
      <4>1. n.jobs[i].token = m.sequence + 1
        BY <2>3, <2>4, <3>1
      <4> QED BY <1>4, <2>3, <3>1, <4>1
    <3>2. CASE i # 1
      <4>1. i - 1 \in DOMAIN m.jobs /\ n.jobs[i] = m.jobs[i - 1]
        BY <2>3, <3>2
      <4>2. m.jobs[i - 1].token \in Nat /\ m.jobs[i - 1].token <= m.sequence
        BY <4>1, <2>6
      <4> QED BY <1>4, <2>3, <3>2, <4>1, <4>2
    <3> QED BY <3>1, <3>2
  <2>8. ASSUME NEW i \in DOMAIN n.jobs, NEW j \in DOMAIN n.jobs, n.jobs[i].token = n.jobs[j].token
        PROVE  i = j
    <3>1. CASE i = 1 \/ j = 1
      BY <2>7, <2>8, <3>1
    <3>2. CASE i # 1 /\ j # 1
      <4>1. i - 1 \in DOMAIN m.jobs /\ j - 1 \in DOMAIN m.jobs
            /\ m.jobs[i - 1].token = m.jobs[j - 1].token
        BY <2>7, <2>8, <3>2
      <4>2. i - 1 = j - 1
        BY <1>5, <4>1 DEF MinerOK
      <4> QED BY <2>5, <4>2
    <3> QED BY <3>1, <3>2
  <2>9. MinerOK(n)
    BY <2>3, <1>1, <2>7, <2>8 DEF MinerOK
  <2>10. n.sequence >= old.sequence
    BY <1>1, <1>4, <2>3
  <2>11. n.generation >= old.generation
    BY <1>1, <1>4, <2>3
  <2> QED BY <1>1, <1>2, <1>8, <2>3, <2>9, <2>10, <2>11
<1> QED BY <1>6, <1>7, <1>8

\* What onDaemonTemplate makes of the miner and of the cache.
templateMiner(old, h, ready, written) ==
    IF ready THEN jobMiner(old, h, written) ELSE [old EXCEPT !.deferred = h]

templateCache(c0, o, old, h, ready, written) ==
    IF ready THEN jobCache(c0, o, old, h, written) ELSE c0

LEMMA TemplateParts ==
    ASSUME NEW c, NEW mm, NEW o \in DOMAIN mm, NEW h, NEW ready \in BOOLEAN, NEW written
    PROVE  onDaemonTemplate([cache |-> c, miner |-> mm], o, h, ready, written) =
               [cache |-> templateCache(c, o, mm[o], h, ready, written),
                miner |-> [mm EXCEPT ![o] = templateMiner(mm[o], h, ready, written)]]
<1> DEFINE st == [cache |-> c, miner |-> mm]
<1>1. CASE ready
  <2>1. onDaemonTemplate(st, o, h, ready, written) = setJob(st, o, h, written)
    BY <1>1 DEF onDaemonTemplate
  <2>2. st.cache = c /\ st.miner = mm
    OBVIOUS
  <2> HIDE DEF st
  <2>3. setJob(st, o, h, written) =
          [cache |-> jobCache(c, o, mm[o], h, written),
           miner |-> [mm EXCEPT ![o] = jobMiner(mm[o], h, written)]]
    BY <2>2, SetJobParts
  <2>4. /\ templateCache(c, o, mm[o], h, ready, written) = jobCache(c, o, mm[o], h, written)
        /\ templateMiner(mm[o], h, ready, written) = jobMiner(mm[o], h, written)
    BY <1>1 DEF templateCache, templateMiner
  <2> QED BY <2>1, <2>3, <2>4 DEF st
<1>2. CASE ~ ready
  <2>1. onDaemonTemplate(st, o, h, ready, written) = [st EXCEPT !.miner[o].deferred = h]
    BY <1>2 DEF onDaemonTemplate
  <2>2. [st EXCEPT !.miner[o].deferred = h]
          = [cache |-> c, miner |-> [mm EXCEPT ![o] = [mm[o] EXCEPT !.deferred = h]]]
    OBVIOUS
  <2>3. /\ templateCache(c, o, mm[o], h, ready, written) = c
        /\ templateMiner(mm[o], h, ready, written) = [mm[o] EXCEPT !.deferred = h]
    BY <1>2 DEF templateCache, templateMiner
  <2> QED BY <2>1, <2>2, <2>3
<1> QED BY <1>1, <1>2

\* What a fetched template does to the miners T of a source.
delivered(mm, T, h, ready, failing) ==
    [o \in Owners |-> IF o \in T THEN templateMiner(mm[o], h, ready, o \notin failing) ELSE mm[o]]

\* The states F between them.
DeliveredBy(F, S, c, mm, h, ready, failing) ==
    /\ F[{}].cache = c
    /\ \A T \in SUBSET S : F[T].miner = delivered(mm, T, h, ready, failing)
    /\ \A T \in SUBSET S : T # {} =>
          F[T].cache = templateCache(F[T \ {Pick(T)}].cache, Pick(T), mm[Pick(T)],
                                     h, ready, Pick(T) \notin failing)

LEMMA DeliveryParts ==
    ASSUME NEW S \in SUBSET Owners, IsFiniteSet(S), NEW c, NEW mm \in [Owners -> MinerType],
           NEW h, NEW ready \in BOOLEAN, NEW failing, NEW F,
           IsDelivery(F, SUBSET S, [cache |-> c, miner |-> mm], h, ready, failing)
    PROVE  DeliveredBy(F, S, c, mm, h, ready, failing)
<1> DEFINE Shaped(T) == F[T] = [cache |-> F[T].cache, miner |-> delivered(mm, T, h, ready, failing)]
           G == {T \in SUBSET S : Shaped(T)}
<1>1. F[{}] = [cache |-> c, miner |-> mm]
  BY DEF IsDelivery
<1>2. \A T \in SUBSET S : T # {} =>
         F[T] = TemplateStep(F[T \ {Pick(T)}], Pick(T), h, ready, failing)
  BY DEF IsDelivery
<1>3. {} \in G
  <2>1. delivered(mm, {}, h, ready, failing) = mm
    BY DEF delivered
  <2> QED BY <1>1, <2>1
<1>4. ASSUME NEW T \in SUBSET S, T # {}, T \ {Pick(T)} \in G
      PROVE  /\ T \in G
             /\ F[T].cache = templateCache(F[T \ {Pick(T)}].cache, Pick(T), mm[Pick(T)],
                                           h, ready, Pick(T) \notin failing)
  <2> DEFINE x == Pick(T)
             R == T \ {x}
             dm == delivered(mm, R, h, ready, failing)
  <2>1. x \in T /\ x \in Owners
    BY <1>4, PickIn
  <2> HIDE DEF x
  <2>2. F[R] = [cache |-> F[R].cache, miner |-> dm]
    BY <1>4 DEF x
  <2>3. F[T] = onDaemonTemplate(F[R], x, h, ready, x \notin failing)
    BY <1>2, <1>4 DEF TemplateStep, x
  <2>4. DOMAIN dm = Owners /\ dm[x] = mm[x]
    BY <2>1 DEF delivered
  <2> HIDE DEF R, dm
  <2>5. F[T] = [cache |-> templateCache(F[R].cache, x, dm[x], h, ready, x \notin failing),
                miner |-> [dm EXCEPT ![x] = templateMiner(dm[x], h, ready, x \notin failing)]]
    BY <2>1, <2>2, <2>3, <2>4, TemplateParts
  <2>6. [dm EXCEPT ![x] = templateMiner(mm[x], h, ready, x \notin failing)]
          = delivered(mm, T, h, ready, failing)
    BY <2>1 DEF delivered, dm, R
  <2>7. F[T] = [cache |-> templateCache(F[R].cache, x, mm[x], h, ready, x \notin failing),
                miner |-> delivered(mm, T, h, ready, failing)]
    BY <2>4, <2>5, <2>6
  <2>8. F[T].cache = templateCache(F[R].cache, x, mm[x], h, ready, x \notin failing)
    BY <2>7
  <2>9. Shaped(T)
    BY <2>7, <2>8
  <2> QED BY <2>8, <2>9 DEF R, x
<1>5. \A T \in SUBSET S : T \in G
  <2> HIDE DEF G
  <2>1. \A T \in SUBSET S : T # {} /\ T \ {Pick(T)} \in G => T \in G
    BY <1>4
  <2> QED BY <1>3, <2>1, SetInduction
<1>6. ASSUME NEW T \in SUBSET S PROVE F[T].miner = delivered(mm, T, h, ready, failing)
  <2>1. F[T] = [cache |-> F[T].cache, miner |-> delivered(mm, T, h, ready, failing)]
    BY <1>5
  <2> DEFINE d == delivered(mm, T, h, ready, failing)
             a == F[T].cache
  <2> HIDE DEF d, a
  <2>2. F[T] = [cache |-> a, miner |-> d]
    BY <2>1 DEF a, d
  <2> QED BY <2>2 DEF d
<1>7. ASSUME NEW T \in SUBSET S, T # {}
      PROVE  F[T].cache = templateCache(F[T \ {Pick(T)}].cache, Pick(T), mm[Pick(T)],
                                        h, ready, Pick(T) \notin failing)
  <2>1. T \ {Pick(T)} \in SUBSET S
    OBVIOUS
  <2> QED BY <1>4, <1>5, <1>7, <2>1
<1>8. F[{}].cache = c
  BY <1>1
<1> QED BY <1>6, <1>7, <1>8, Zenon DEF DeliveredBy

\* A connection that has been given a job stays connected or is shut down.
Advances(m, n) ==
    m.state \notin {"new", "wait"} => n.state = m.state \/ (m.state = "ready" /\ n.state = "closing")

LEMMA TemplateMiner ==
    ASSUME NEW old, MinerOK(old), old.source \in Sources, NEW h \in Heights,
           NEW ready \in BOOLEAN, NEW written \in BOOLEAN,
           NEW n, n = templateMiner(old, h, ready, written)
    PROVE  /\ MinerOK(n) /\ Advances(old, n)
           /\ n.source = old.source /\ n.client = old.client
           /\ n.generation >= old.generation /\ n.sequence >= old.sequence
           /\ old.state \notin {"new", "gone"} => n.state \notin {"new", "gone"}
<1>0. old \in MinerType
  BY DEF MinerOK
<1>1. CASE ready
  <2>1. n = jobMiner(old, h, written)
    BY <1>1 DEF templateMiner
  <2>2. /\ MinerOK(n)
        /\ n.source = old.source /\ n.client = old.client
        /\ n.generation >= old.generation /\ n.sequence >= old.sequence
        /\ n.state = IF ~ isWritable(old) THEN old.state
                     ELSE IF written THEN "ready" ELSE "closing"
    BY <2>1, JobMiner
  <2>3. old.state \in MinerStates
    BY <1>0, MinerFields
  <2>4. Advances(old, n) /\ (old.state \notin {"new", "gone"} => n.state \notin {"new", "gone"})
    BY <2>2, <2>3 DEF Advances, isWritable, MinerStates
  <2> QED BY <2>2, <2>4
<1>2. CASE ~ ready
  <2>1. n = [old EXCEPT !.deferred = h]
    BY <1>2 DEF templateMiner
  <2>2. n \in MinerType
    BY <1>0, <2>1 DEF MinerType
  <2>3. /\ n.state = old.state /\ n.source = old.source /\ n.client = old.client
        /\ n.generation = old.generation /\ n.sequence = old.sequence /\ n.jobs = old.jobs
    BY <1>0, <2>1 DEF MinerType
  <2>4. old.generation \in Nat /\ old.sequence \in Nat /\ old.source # 0
    BY <1>0, MinerFields, Constants
  <2>5. MinerOK(n)
    BY <2>2, <2>3, <2>4 DEF MinerOK
  <2> QED BY <2>3, <2>4, <2>5 DEF Advances
<1> QED BY <1>1, <1>2

\* What a miner becomes when its client connects.
subscribed(m0, s, cl) == [m0 EXCEPT !.source = s, !.client = cl]

LEMMA SubscribeParts ==
    ASSUME MinersOK, NEW o \in Owners, NEW s \in Sources, NEW cl \in Clients, NEW m0,
           NEW ready \in BOOLEAN, NEW written \in BOOLEAN, subscribe(o, s, cl, m0, ready, written)
    PROVE  LET m1 == subscribed(m0, s, cl)
           IN  /\ miner' = [miner EXCEPT ![o] = IF latest[s] = 0 THEN m1
                                                ELSE templateMiner(m1, latest[s], ready, written)]
               /\ cache' = IF latest[s] = 0 THEN cache
                           ELSE templateCache(cache, o, m1, latest[s], ready, written)
<1> DEFINE m1 == subscribed(m0, s, cl)
           mm == [miner EXCEPT ![o] = m1]
           st == [cache |-> cache, miner |-> mm]
<1>1. miner \in [Owners -> MinerType]
  BY DEF MinersOK
<1>2. [State EXCEPT !.miner[o] = [m0 EXCEPT !.source = s, !.client = cl]] = st
  BY <1>1 DEF State, subscribed
<1>3. /\ cache' = (IF latest[s] = 0 THEN st ELSE onDaemonTemplate(st, o, latest[s], ready, written)).cache
      /\ miner' = (IF latest[s] = 0 THEN st ELSE onDaemonTemplate(st, o, latest[s], ready, written)).miner
  BY <1>2 DEF subscribe
<1>4. mm[o] = m1 /\ o \in DOMAIN mm
  BY <1>1
<1>5. \A x : [mm EXCEPT ![o] = x] = [miner EXCEPT ![o] = x]
  BY <1>1
<1> HIDE DEF m1, mm
<1>6. CASE latest[s] = 0
  BY <1>3, <1>6 DEF mm, m1
<1>7. CASE latest[s] # 0
  <2>1. onDaemonTemplate(st, o, latest[s], ready, written) =
          [cache |-> templateCache(cache, o, m1, latest[s], ready, written),
           miner |-> [mm EXCEPT ![o] = templateMiner(m1, latest[s], ready, written)]]
    BY <1>4, TemplateParts
  <2> QED BY <1>3, <1>5, <1>7, <2>1 DEF m1
<1> QED BY <1>6, <1>7

LEMMA OneMiner ==
    ASSUME MinersOK, NEW o \in Owners, NEW n, MinerOK(n), miner' = [miner EXCEPT ![o] = n],
           latest' \in [Sources -> Heights \cup {0}], retired' \subseteq Sources,
           UNCHANGED useVerifier
    PROVE  MinersOK' /\ miner'[o] = n /\ \A p \in Owners \ {o} : miner'[p] = miner[p]
<1>1. miner \in [Owners -> MinerType] /\ n \in MinerType
  BY DEF MinersOK, MinerOK
<1>2. miner' \in [Owners -> MinerType]
  BY <1>1
<1>3. miner'[o] = n /\ \A p \in Owners \ {o} : miner'[p] = miner[p]
  BY <1>1
<1>4. \A p \in Owners : MinerOK(miner'[p])
  BY <1>3 DEF MinersOK
<1>5. MinersOK'
  BY <1>2, <1>4 DEF MinersOK, MinerOK
<1> QED BY <1>3, <1>5

LEMMA Subscribed ==
    ASSUME NEW m0, MinerOK(m0), isWritable(m0), NEW s \in Sources, NEW cl \in Clients
    PROVE  LET m1 == subscribed(m0, s, cl)
           IN  /\ MinerOK(m1) /\ m1.source = s /\ m1.client = cl /\ m1.state = m0.state
               /\ m1.jobClient = m0.jobClient /\ m1.deferred = m0.deferred /\ m1.jobs = m0.jobs
               /\ m1.jobHeight = m0.jobHeight /\ m1.sequence = m0.sequence
               /\ m1.generation = m0.generation
<1> DEFINE m1 == subscribed(m0, s, cl)
<1>1. m0 \in MinerType /\ cl \in Nat /\ s # 0
  BY MinerAssumption DEF MinerOK
<1>2. m1 \in MinerType
  BY <1>1 DEF subscribed, MinerType
<1>3. /\ m1.source = s /\ m1.client = cl /\ m1.state = m0.state
      /\ m1.jobClient = m0.jobClient /\ m1.deferred = m0.deferred /\ m1.jobs = m0.jobs
      /\ m1.jobHeight = m0.jobHeight /\ m1.sequence = m0.sequence
      /\ m1.generation = m0.generation
  BY <1>1 DEF subscribed, MinerType
<1> HIDE DEF m1
<1>4. MinerOK(m1)
  BY <1>1, <1>2, <1>3 DEF MinerOK, isWritable
<1> QED BY <1>3, <1>4 DEF m1

LEMMA Connected ==
    ASSUME MinersOK, NEW o \in Owners, NEW s \in Sources, NEW cl \in Clients,
           NEW m0, MinerOK(m0), isWritable(m0),
           NEW ready \in BOOLEAN, NEW written \in BOOLEAN, subscribe(o, s, cl, m0, ready, written)
    PROVE  \E n : /\ miner' = [miner EXCEPT ![o] = n] /\ MinerOK(n) /\ Advances(m0, n)
                  /\ n.source = s /\ n.client = cl /\ n.state \notin {"new", "gone"}
                  /\ n.generation >= m0.generation /\ n.sequence >= m0.sequence
<1> DEFINE m1 == subscribed(m0, s, cl)
           n == IF latest[s] = 0 THEN m1 ELSE templateMiner(m1, latest[s], ready, written)
<1>1. miner' = [miner EXCEPT ![o] = n]
  BY SubscribeParts
<1>2. /\ MinerOK(m1) /\ m1.source = s /\ m1.client = cl /\ m1.state = m0.state
      /\ m1.sequence = m0.sequence /\ m1.generation = m0.generation
  BY Subscribed
<1>3. m0.generation \in Nat /\ m0.sequence \in Nat
  BY MinerFields DEF MinerOK
<1> HIDE DEF m1
<1>4. /\ MinerOK(n) /\ Advances(m0, n)
      /\ n.source = s /\ n.client = cl /\ n.state \notin {"new", "gone"}
      /\ n.generation >= m0.generation /\ n.sequence >= m0.sequence
  <2>1. CASE latest[s] = 0
    BY <1>2, <1>3, <2>1 DEF Advances, isWritable
  <2>2. CASE latest[s] # 0
    <3>1. n = templateMiner(m1, latest[s], ready, written) /\ latest[s] \in Heights
      BY <2>2 DEF MinersOK
    <3> HIDE DEF n
    <3>2. /\ MinerOK(n) /\ Advances(m1, n)
          /\ n.source = m1.source /\ n.client = m1.client
          /\ n.generation >= m1.generation /\ n.sequence >= m1.sequence
          /\ m1.state \notin {"new", "gone"} => n.state \notin {"new", "gone"}
      BY <1>2, <3>1, TemplateMiner
    <3> QED BY <1>2, <3>2 DEF Advances, isWritable
  <2> QED BY <2>1, <2>2
<1> HIDE DEF n
<1> QED BY <1>1, <1>4

\* A template reaches the subscribers of its source.
LEMMA Delivered ==
    ASSUME MinersOK, NEW s \in Sources, NEW h \in Heights, NEW ready \in BOOLEAN, NEW failing,
           NewTemplate(s, h, ready, failing)
    PROVE  miner' = delivered(miner, subscribers(s), h, ready, failing)
<1>1. miner \in [Owners -> MinerType]
  BY DEF MinersOK
<1>2. subscribers(s) \in SUBSET Owners
  BY DEF subscribers
<1>3. IsFiniteSet(subscribers(s))
  BY <1>2, Constants, FS_Subset
<1> DEFINE S == subscribers(s)
<1> HIDE DEF S
<1>4. PICK F : /\ IsDelivery(F, SUBSET S, [cache |-> cache, miner |-> miner], h, ready, failing)
               /\ deliver([cache |-> cache, miner |-> miner], S, h, ready, failing) = F[S]
  BY <1>3, Delivery DEF S
<1>5. DeliveredBy(F, S, cache, miner, h, ready, failing)
  BY <1>1, <1>2, <1>3, <1>4, DeliveryParts DEF S
<1>6. miner' = deliver([cache |-> cache, miner |-> miner], S, h, ready, failing).miner
  BY Zenon DEF NewTemplate, State, S, deliver
<1>7. miner' = F[S].miner
  BY <1>4, <1>6
<1>8. F[S].miner = delivered(miner, S, h, ready, failing)
  BY <1>5, Zenon DEF DeliveredBy
<1> QED BY <1>7, <1>8 DEF S

LEMMA SameAdvances ==
    ASSUME NEW m, NEW n, SameBut(m, n), m.state \in {"new", "wait", "ready", "closing"}
    PROVE  Advances(m, n)
BY DEF SameBut, Advances

\* One job of a miner expires.
JobExpired(m, n) ==
    /\ n.source = m.source /\ n.client = m.client /\ n.jobClient = m.jobClient
    /\ n.deferred = m.deferred /\ n.jobHeight = m.jobHeight
    /\ n.sequence = m.sequence /\ n.generation = m.generation
    /\ DOMAIN n.jobs = DOMAIN m.jobs
    /\ \A j \in DOMAIN m.jobs :
          /\ n.jobs[j].token = m.jobs[j].token /\ n.jobs[j].source = m.jobs[j].source
          /\ n.jobs[j].height = m.jobs[j].height /\ (n.jobs[j].live => m.jobs[j].live)

LEMMA Expired ==
    ASSUME NEW m, MinerOK(m), NEW i \in DOMAIN m.jobs, NEW n, n = [m EXCEPT !.jobs[i].live = FALSE]
    PROVE  MinerOK(n) /\ n.state = m.state /\ JobExpired(m, n)
<1>1. m \in MinerType /\ m.jobs \in Seq(JobType)
  BY MinerFields DEF MinerOK
<1> DEFINE js == [m.jobs EXCEPT ![i] = [m.jobs[i] EXCEPT !.live = FALSE]]
<1>2. n = [m EXCEPT !.jobs = js]
  BY <1>1 DEF MinerType
<1>3. m.jobs[i] \in JobType
  BY <1>1
<1>4. [m.jobs[i] EXCEPT !.live = FALSE] \in JobType
  BY <1>3 DEF JobType
<1>5. js \in Seq(JobType) /\ DOMAIN js = DOMAIN m.jobs
  BY <1>1, <1>4
<1>6. ASSUME NEW j \in DOMAIN m.jobs
      PROVE  /\ js[j].token = m.jobs[j].token /\ js[j].source = m.jobs[j].source
             /\ js[j].height = m.jobs[j].height
             /\ js[j].live => m.jobs[j].live
  <2>1. m.jobs[j] \in JobType
    BY <1>1
  <2>2. CASE j = i
    <3>1. js[j] = [m.jobs[i] EXCEPT !.live = FALSE]
      BY <1>1, <2>2
    <3>2. js[j].live = FALSE
      BY <3>1, <1>3 DEF JobType
    <3> QED BY <2>2, <3>1, <3>2, <1>3 DEF JobType
  <2>3. CASE j # i
    <3>1. js[j] = m.jobs[j]
      BY <1>1, <2>3
    <3>2. m.jobs[j].live \in BOOLEAN
      BY <2>1 DEF JobType
    <3> HIDE DEF js
    <3> QED BY <2>3, <3>1, <3>2
  <2> QED BY <2>2, <2>3
<1> HIDE DEF js
<1>7. n \in MinerType
  BY <1>1, <1>2, <1>5 DEF MinerType
<1>8. /\ n.state = m.state /\ n.source = m.source /\ n.client = m.client
      /\ n.jobClient = m.jobClient /\ n.deferred = m.deferred /\ n.jobHeight = m.jobHeight
      /\ n.sequence = m.sequence /\ n.generation = m.generation /\ n.jobs = js
  BY <1>1, <1>2 DEF MinerType
<1>9. MinerOK(n)
  BY <1>5, <1>6, <1>7, <1>8 DEF MinerOK
<1>10. JobExpired(m, n)
  BY <1>5, <1>6, <1>8 DEF JobExpired
<1> QED BY <1>8, <1>9, <1>10

\* Steps in which no request is taken, answered or handed on.
QuietStep ==
    \/ \E o \in Owners, s \in Sources, cl \in Clients, ready \in SeedReady, written \in BOOLEAN :
          Login(o, s, cl, ready, written) \/ Reconnect(o, s, cl, ready, written)
    \/ \E s \in Sources, h \in Heights, ready \in SeedReady, failing \in SUBSET Owners :
          NewTemplate(s, h, ready, failing)
    \/ \E o \in Owners, written \in BOOLEAN : InstallDeferred(o, written)
    \/ \E o \in Owners : ExpireJob(o) \/ ConnectionLost(o)

Quietly == MinersOK' /\ \A o \in Owners : Advances(miner[o], miner'[o])

LEMMA QuietOne ==
    ASSUME MinersOK, NEW o \in Owners, NEW n, MinerOK(n), Advances(miner[o], n),
           miner' = [miner EXCEPT ![o] = n], UNCHANGED <<latest, retired, useVerifier>>
    PROVE  Quietly
<1>1. latest' \in [Sources -> Heights \cup {0}] /\ retired' \subseteq Sources
  BY DEF MinersOK
<1>2. MinersOK' /\ miner'[o] = n /\ \A p \in Owners \ {o} : miner'[p] = miner[p]
  BY <1>1, OneMiner
<1>3. \A p \in Owners : Advances(miner[p], miner'[p])
  BY <1>2 DEF Advances
<1> QED BY <1>2, <1>3 DEF Quietly

LEMMA SeedReadyType == ASSUME MinersOK PROVE SeedReady \subseteq BOOLEAN
BY DEF SeedReady

LEMMA QuietLogin ==
    ASSUME MinersOK, NEW o \in Owners, NEW s \in Sources, NEW cl \in Clients,
           NEW ready \in BOOLEAN, NEW written \in BOOLEAN,
           Login(o, s, cl, ready, written) \/ Reconnect(o, s, cl, ready, written)
    PROVE  Quietly
<1>1. miner[o] \in MinerType /\ MinerOK(miner[o])
  BY DEF MinersOK
<1> DEFINE w == [miner[o] EXCEPT !.state = "wait"]
<1>2. CASE Login(o, s, cl, ready, written)
  <2>1. miner[o].state = "new" /\ subscribe(o, s, cl, w, ready, written)
        /\ UNCHANGED <<latest, retired, useVerifier>>
    BY <1>2 DEF Login
  <2>2. w \in MinerType /\ w.state = "wait" /\ w.source = miner[o].source
        /\ w.deferred = miner[o].deferred /\ w.jobs = miner[o].jobs
        /\ w.sequence = miner[o].sequence
    BY <1>1 DEF MinerType, MinerStates
  <2> HIDE DEF w
  <2>3. MinerOK(w) /\ isWritable(w)
    BY <1>1, <2>2 DEF MinerOK, isWritable
  <2>4. PICK n : miner' = [miner EXCEPT ![o] = n] /\ MinerOK(n)
    BY <2>1, <2>3, Connected
  <2>5. Advances(miner[o], n)
    BY <2>1 DEF Advances
  <2> QED BY <2>1, <2>4, <2>5, QuietOne
<1>3. CASE Reconnect(o, s, cl, ready, written)
  <2>1. isWritable(miner[o]) /\ subscribe(o, s, cl, miner[o], ready, written)
        /\ UNCHANGED <<latest, retired, useVerifier>>
    BY <1>3 DEF Reconnect
  <2>2. PICK n : miner' = [miner EXCEPT ![o] = n] /\ MinerOK(n) /\ Advances(miner[o], n)
    BY <1>1, <2>1, Connected
  <2> QED BY <2>1, <2>2, QuietOne
<1> QED BY <1>2, <1>3

LEMMA QuietTemplate ==
    ASSUME MinersOK, NEW s \in Sources, NEW h \in Heights, NEW ready \in BOOLEAN,
           NEW failing \in SUBSET Owners, NewTemplate(s, h, ready, failing)
    PROVE  Quietly
<1> DEFINE S == subscribers(s)
<1>1. miner' = delivered(miner, S, h, ready, failing)
  BY Delivered
<1>2. ASSUME NEW o \in Owners PROVE MinerOK(miner'[o]) /\ Advances(miner[o], miner'[o])
  <2>1. MinerOK(miner[o])
    BY DEF MinersOK
  <2>2. CASE o \in S
    <3>1. miner'[o] = templateMiner(miner[o], h, ready, o \notin failing)
      BY <1>1, <2>2 DEF delivered
    <3>2. miner[o].source \in Sources
      BY <2>2 DEF subscribers
    <3> DEFINE w == o \notin failing
    <3>3. w \in BOOLEAN
      OBVIOUS
    <3>4. miner'[o] = templateMiner(miner[o], h, ready, w)
      BY <3>1
    <3> HIDE DEF w
    <3> QED BY <2>1, <3>2, <3>3, <3>4, TemplateMiner
  <2>3. CASE o \notin S
    <3>1. miner'[o] = miner[o]
      BY <1>1, <2>3 DEF delivered
    <3> QED BY <2>1, <3>1 DEF Advances
  <2> QED BY <2>2, <2>3
<1>3. miner' \in [Owners -> MinerType]
  <2>1. miner' = [o \in Owners |-> miner'[o]]
    BY <1>1 DEF delivered
  <2> QED BY <1>2, <2>1 DEF MinerOK
<1>4. latest' \in [Sources -> Heights \cup {0}] /\ UNCHANGED <<retired, useVerifier>>
  BY DEF NewTemplate, MinersOK
<1>5. MinersOK'
  BY <1>2, <1>3, <1>4 DEF MinersOK, MinerOK
<1> QED BY <1>2, <1>5 DEF Quietly

LEMMA QuietMiners ==
    ASSUME MinersOK, QuietStep
    PROVE  Quietly
<1>1. ASSUME NEW o \in Owners, NEW s \in Sources, NEW cl \in Clients,
             NEW ready \in SeedReady, NEW written \in BOOLEAN,
             Login(o, s, cl, ready, written) \/ Reconnect(o, s, cl, ready, written)
      PROVE  Quietly
  <2>1. ready \in BOOLEAN
    BY SeedReadyType
  <2> QED BY <1>1, <2>1, QuietLogin
<1>2. ASSUME NEW s \in Sources, NEW h \in Heights, NEW ready \in SeedReady,
             NEW failing \in SUBSET Owners, NewTemplate(s, h, ready, failing)
      PROVE  Quietly
  <2>1. ready \in BOOLEAN
    BY SeedReadyType
  <2> QED BY <1>2, <2>1, QuietTemplate
<1>3. ASSUME NEW o \in Owners, NEW written \in BOOLEAN, InstallDeferred(o, written)
      PROVE  Quietly
  <2> DEFINE m == miner[o]
             n == jobMiner(m, m.deferred, written)
  <2>1. MinerOK(m) /\ m \in MinerType /\ m.deferred # 0
    BY <1>3 DEF MinersOK, InstallDeferred
  <2>2. m.source \in Sources /\ m.deferred \in Heights
    BY <2>1, MinerFields DEF MinerOK
  <2>3. miner' = [miner EXCEPT ![o] = n] /\ UNCHANGED <<latest, retired, useVerifier>>
    BY <1>3, SetJobParts DEF InstallDeferred, State
  <2>4. MinerOK(n) /\ n.state = IF ~ isWritable(m) THEN m.state
                                ELSE IF written THEN "ready" ELSE "closing"
    BY <2>1, <2>2, JobMiner
  <2>5. m.state \in MinerStates
    BY <2>1, MinerFields
  <2> HIDE DEF n
  <2>6. Advances(m, n)
    BY <2>4, <2>5 DEF Advances, isWritable, MinerStates
  <2> QED BY <2>3, <2>4, <2>6, QuietOne
<1>4. ASSUME NEW o \in Owners, ExpireJob(o)
      PROVE  Quietly
  <2>1. PICK i \in DOMAIN miner[o].jobs : miner' = [miner EXCEPT ![o].jobs[i].live = FALSE]
    BY <1>4 DEF ExpireJob
  <2> DEFINE n == [miner[o] EXCEPT !.jobs[i].live = FALSE]
  <2>2. miner' = [miner EXCEPT ![o] = n]
    BY <2>1
  <2>3. MinerOK(miner[o])
    BY DEF MinersOK
  <2>4. MinerOK(n) /\ n.state = miner[o].state
    BY <2>3, Expired
  <2> HIDE DEF n
  <2>5. Advances(miner[o], n)
    BY <2>4 DEF Advances
  <2>6. UNCHANGED <<latest, retired, useVerifier>>
    BY <1>4 DEF ExpireJob
  <2> QED BY <2>2, <2>4, <2>5, <2>6, QuietOne
<1>5. ASSUME NEW o \in Owners, ConnectionLost(o)
      PROVE  Quietly
  <2>1. MinerOK(miner[o]) /\ miner[o] \in MinerType /\ isWritable(miner[o])
    BY <1>5 DEF MinersOK, ConnectionLost
  <2>2. miner' = [miner EXCEPT ![o] = shutdown(miner[o])] /\ UNCHANGED <<latest, retired, useVerifier>>
    BY <1>5 DEF ConnectionLost
  <2>3. SameBut(miner[o], shutdown(miner[o]))
    BY <2>1, Shutdown
  <2>4. MinerOK(shutdown(miner[o])) /\ Advances(miner[o], shutdown(miner[o]))
    BY <2>1, <2>3, SameOK, SameAdvances DEF isWritable
  <2> QED BY <2>2, <2>4, QuietOne
<1> QED BY <1>1, <1>2, <1>3, <1>4, <1>5 DEF QuietStep

(***************************************************************************)
(* Requests                                                                *)
(***************************************************************************)

\* The miners of a step that is about requests.
Advanced == MinersOK' /\ \A o \in Owners : Advances(miner[o], miner'[o])

LEMMA LogFields ==
    ASSUME RequestsOK, NEW q \in DOMAIN log
    PROVE  /\ log[q] \in RequestType /\ q \in Nat /\ log[q].owner \in Owners
           /\ log[q].token \in Tokens /\ log[q].nonce \in Results /\ log[q].claimed \in Results
<1>1. log \in Seq(RequestType)
  BY DEF RequestsOK
<1>2. log[q] \in RequestType /\ q \in Nat
  BY <1>1
<1> QED BY <1>2 DEF RequestType

LEMMA Appended ==
    ASSUME RequestsOK, NEW r \in RequestType, log' = Append(log, r)
    PROVE  /\ log' \in Seq(RequestType) /\ DOMAIN log' = DOMAIN log \cup {Len(log) + 1}
           /\ Len(log) + 1 \notin DOMAIN log /\ log'[Len(log) + 1] = r
           /\ \A q \in DOMAIN log : log'[q] = log[q]
BY DEF RequestsOK

\* A new request is answered at once, owned by the verifier or owned by a client.
Taken(k, r) ==
    \/ /\ UNCHANGED <<pending, inflight>>
       /\ \E a \in Answers : r.answers = <<a>>
    \/ /\ r.answers = <<>> /\ inflight' = inflight \cup {k} /\ UNCHANGED pending
    \/ /\ r.answers = <<>> /\ UNCHANGED inflight
       /\ \E p : pending' = pending \cup {p} /\ p.req = k /\ p.owner = r.owner /\ p.token = r.token

LEMMA TakenRequests ==
    ASSUME MinersOK, RequestsOK, Answering, Advanced, NEW r \in RequestType,
           miner[r.owner].state = "ready", log' = Append(log, r), Taken(Len(log) + 1, r)
    PROVE  RequestsOK' /\ Answering'
<1> DEFINE k == Len(log) + 1
<1>1. /\ log' \in Seq(RequestType) /\ DOMAIN log' = DOMAIN log \cup {k}
      /\ k \notin DOMAIN log /\ log'[k] = r /\ \A q \in DOMAIN log : log'[q] = log[q]
  BY Appended
<1>2. Taken(k, r)
  OBVIOUS
<1> HIDE DEF k
<1>3. inflight \subseteq DOMAIN log /\ \A p \in pending : p.req \in DOMAIN log
  BY DEF RequestsOK
<1>4. inflight' \subseteq DOMAIN log'
  BY <1>1, <1>2, <1>3 DEF Taken
<1>5. ASSUME NEW p \in pending'
      PROVE  /\ p.req \in DOMAIN log' /\ p.req \notin inflight'
             /\ p.owner = log'[p.req].owner /\ p.token = log'[p.req].token
  <2>1. CASE p \in pending
    BY <1>1, <1>2, <1>3, <2>1 DEF Taken, RequestsOK
  <2>2. CASE p \notin pending
    BY <1>1, <1>2, <1>3, <2>2 DEF Taken
  <2> QED BY <2>1, <2>2
<1>6. ASSUME NEW p \in pending', NEW x \in pending', p.req = x.req
      PROVE  p = x
  <2>1. pending' = pending \/ \E y : pending' = pending \cup {y} /\ y.req = k
    BY <1>2 DEF Taken
  <2> QED BY <1>1, <1>3, <1>6, <2>1 DEF RequestsOK
<1>7. RequestsOK'
  BY <1>1, <1>4, <1>5, <1>6 DEF RequestsOK
<1>8. \A q \in DOMAIN log : Owed(q)' <=> Owed(q)
  BY <1>1, <1>2 DEF Owed, Taken
<1>9. r.owner \in Owners
  BY DEF RequestType
<1>10. miner'[r.owner].state \in {"ready", "closing"}
  BY <1>9 DEF Advanced, Advances
<1>11. ASSUME NEW q \in DOMAIN log'
       PROVE  /\ log'[q].answers = <<>> \/ \E a \in Answers : log'[q].answers = <<a>>
              /\ Owed(q)' => log'[q].answers = <<>> /\ miner'[log'[q].owner].state \in {"ready", "closing"}
              /\ log'[q].answers = <<>> /\ miner'[log'[q].owner].state = "ready" => Owed(q)'
              /\ miner'[log'[q].owner].state \notin {"new", "wait"}
  <2>1. CASE q \in DOMAIN log
    <3>1. log'[q] = log[q] /\ log[q].owner \in Owners /\ (Owed(q)' <=> Owed(q))
      BY <1>1, <1>8, <2>1, LogFields
    <3>2. Advances(miner[log[q].owner], miner'[log[q].owner])
      BY <3>1 DEF Advanced
    <3> QED BY <2>1, <3>1, <3>2 DEF Answering, Advances
  <2>2. CASE q = k
    <3>1. log'[q] = r
      BY <1>1, <2>2
    <3>2. r.answers = <<>> \/ \E a \in Answers : r.answers = <<a>>
      BY <1>2 DEF Taken
    <3>3. Owed(q)' <=> r.answers = <<>>
      <4>1. CASE UNCHANGED <<pending, inflight>> /\ \E a \in Answers : r.answers = <<a>>
        <5>1. r.answers # <<>>
          BY <4>1
        <5> QED BY <1>1, <1>3, <2>2, <4>1, <5>1 DEF Owed
      <4>2. CASE r.answers = <<>> /\ inflight' = inflight \cup {k} /\ UNCHANGED pending
        BY <2>2, <4>2 DEF Owed
      <4>3. CASE /\ r.answers = <<>> /\ UNCHANGED inflight
                 /\ \E p : pending' = pending \cup {p} /\ p.req = k
        BY <2>2, <4>3 DEF Owed
      <4> QED BY <1>2, <4>1, <4>2, <4>3 DEF Taken
    <3> QED BY <1>10, <3>1, <3>2, <3>3
  <2> QED BY <1>1, <2>1, <2>2
<1>12. Answering'
  BY <1>11 DEF Answering
<1> QED BY <1>7, <1>12

\* What a step that takes no request may do about one: nothing, answer it, hand
\* it on, or drop it with its connection.
Treated(q) ==
    LET o == log[q].owner
    IN  \/ /\ Advances(miner[o], miner'[o])
           /\ \/ log'[q].answers = log[q].answers /\ (Owed(q)' <=> Owed(q))
              \/ Owed(q) /\ ~ Owed(q)' /\ \E a \in Answers : log'[q].answers = <<a>>
        \/ /\ log'[q].answers = log[q].answers /\ ~ Owed(q)'
           /\ miner'[o].state \in {"closing", "gone"}

LEMMA TreatedRequests ==
    ASSUME MinersOK, RequestsOK, Answering, log' \in Seq(RequestType), DOMAIN log' = DOMAIN log,
           \A q \in DOMAIN log : log'[q].owner = log[q].owner /\ log'[q].token = log[q].token,
           pending' \subseteq pending, inflight' \subseteq DOMAIN log,
           \A p \in pending' : p.req \notin inflight', \A q \in DOMAIN log : Treated(q)
    PROVE  RequestsOK' /\ Answering'
<1>1. RequestsOK'
  BY DEF RequestsOK
<1>2. ASSUME NEW q \in DOMAIN log
      PROVE  /\ log'[q].answers = <<>> \/ \E a \in Answers : log'[q].answers = <<a>>
             /\ Owed(q)' => log'[q].answers = <<>> /\ miner'[log'[q].owner].state \in {"ready", "closing"}
             /\ log'[q].answers = <<>> /\ miner'[log'[q].owner].state = "ready" => Owed(q)'
             /\ miner'[log'[q].owner].state \notin {"new", "wait"}
  <2> DEFINE o == log[q].owner
  <2>1. log'[q].owner = o /\ o \in Owners
    BY LogFields
  <2>2. /\ log[q].answers = <<>> \/ \E a \in Answers : log[q].answers = <<a>>
        /\ Owed(q) => log[q].answers = <<>> /\ miner[o].state \in {"ready", "closing"}
        /\ log[q].answers = <<>> /\ miner[o].state = "ready" => Owed(q)
        /\ miner[o].state \notin {"new", "wait"}
    BY DEF Answering
  <2> HIDE DEF o
  <2>3. CASE /\ Advances(miner[o], miner'[o])
             /\ log'[q].answers = log[q].answers /\ (Owed(q)' <=> Owed(q))
    BY <2>1, <2>2, <2>3 DEF Advances
  <2>4. CASE /\ Advances(miner[o], miner'[o])
             /\ Owed(q) /\ ~ Owed(q)' /\ \E a \in Answers : log'[q].answers = <<a>>
    <3>1. log'[q].answers # <<>>
      BY <2>4
    <3> QED BY <2>1, <2>2, <2>4, <3>1 DEF Advances
  <2>5. CASE /\ log'[q].answers = log[q].answers /\ ~ Owed(q)'
             /\ miner'[o].state \in {"closing", "gone"}
    BY <2>1, <2>2, <2>5
  <2> QED BY <2>3, <2>4, <2>5 DEF Treated, o
<1>3. Answering'
  BY <1>2 DEF Answering
<1> QED BY <1>1, <1>3

\* One request is answered while its miner is connected.
LEMMA AnswerParts ==
    ASSUME RequestsOK, Answering, NEW q \in DOMAIN log, Owed(q), NEW v \in Answers,
           NEW lg, lg = answer(log, q, v)
    PROVE  /\ lg \in Seq(RequestType) /\ DOMAIN lg = DOMAIN log
           /\ \A i \in DOMAIN log \ {q} : lg[i] = log[i]
           /\ lg[q].owner = log[q].owner /\ lg[q].token = log[q].token
           /\ lg[q].nonce = log[q].nonce /\ lg[q].claimed = log[q].claimed
           /\ lg[q].submitted = log[q].submitted /\ lg[q].unverified = log[q].unverified
           /\ miner[log[q].owner].state = "ready" => lg[q].answers = <<v>>
           /\ miner[log[q].owner].state # "ready" =>
                 lg = log /\ miner[log[q].owner].state = "closing"
<1> DEFINE r == log[q]
           a == [r EXCEPT !.answers = Append(@, v)]
<1>1. log \in Seq(RequestType) /\ r \in RequestType
  BY LogFields DEF RequestsOK
<1>2. r.answers = <<>> /\ miner[r.owner].state \in {"ready", "closing"}
  BY DEF Answering
<1>3. CASE miner[r.owner].state = "ready"
  <2>1. lg = [log EXCEPT ![q] = a]
    BY <1>1, <1>3 DEF answer, isWritable
  <2>2. Append(r.answers, v) = <<v>> /\ <<v>> \in Seq(Answers)
    BY <1>2
  <2>3. a = [r EXCEPT !.answers = <<v>>]
    BY <2>2
  <2> HIDE DEF r, a
  <2>4. a \in RequestType
    BY <1>1, <2>2, <2>3 DEF RequestType
  <2>5. /\ a.owner = r.owner /\ a.token = r.token /\ a.nonce = r.nonce /\ a.claimed = r.claimed
        /\ a.submitted = r.submitted /\ a.unverified = r.unverified /\ a.answers = <<v>>
    BY <1>1, <2>3 DEF RequestType
  <2>6. lg \in Seq(RequestType) /\ DOMAIN lg = DOMAIN log
    BY <1>1, <2>1, <2>4
  <2>7. lg[q] = a /\ \A i \in DOMAIN log \ {q} : lg[i] = log[i]
    BY <1>1, <2>1
  <2> QED BY <1>3, <2>5, <2>6, <2>7 DEF r
<1>4. CASE miner[r.owner].state = "closing"
  BY <1>1, <1>4 DEF answer, isWritable
<1> QED BY <1>2, <1>3, <1>4

\* The outcome of a share is counted and nothing else happens to a connection.
Judged(o) == \E n : SameBut(miner[o], n) /\ miner' = [miner EXCEPT ![o] = n]

LEMMA JudgedAdvanced ==
    ASSUME MinersOK, NEW o \in Owners, Judged(o), miner[o].state # "gone",
           UNCHANGED <<latest, retired, useVerifier>>
    PROVE  Advanced
<1>1. PICK n : SameBut(miner[o], n) /\ miner' = [miner EXCEPT ![o] = n]
  BY DEF Judged
<1>2. MinerOK(miner[o]) /\ miner[o].state \in MinerStates
  BY MinerFields DEF MinersOK
<1>3. MinerOK(n)
  BY <1>1, <1>2, SameOK
<1>4. latest' \in [Sources -> Heights \cup {0}] /\ retired' \subseteq Sources
  BY DEF MinersOK
<1>5. MinersOK' /\ miner'[o] = n /\ \A p \in Owners \ {o} : miner'[p] = miner[p]
  BY <1>1, <1>3, <1>4, OneMiner
<1>6. Advances(miner[o], n)
  BY <1>1, <1>2, SameAdvances DEF MinerStates
<1> QED BY <1>5, <1>6 DEF Advanced, Advances

LEMMA JudgedBy ==
    ASSUME MinersOK, NEW o \in Owners, NEW b
    PROVE  /\ miner' = [miner EXCEPT ![o] = recordShareOutcome(@, b)] => Judged(o)
           /\ miner' = [miner EXCEPT ![o] = recordInfrastructureOutcome(@, b)] => Judged(o)
           /\ miner' = [miner EXCEPT ![o] = shutdown(recordShareOutcome(@, b))] => Judged(o)
           /\ miner' = miner => Judged(o)
<1> DEFINE m == miner[o]
<1>1. m \in MinerType /\ miner \in [Owners -> MinerType]
  BY DEF MinersOK
<1>2. miner' = miner => miner' = [miner EXCEPT ![o] = m]
  BY <1>1
<1> HIDE DEF m
<1>3. SameBut(m, m)
  BY <1>1 DEF SameBut
<1>4. SameBut(m, recordShareOutcome(m, b)) /\ SameBut(m, recordInfrastructureOutcome(m, b))
  BY <1>1, ShareOutcome, InfrastructureOutcome
<1>5. SameBut(m, shutdown(recordShareOutcome(m, b)))
  <2>1. recordShareOutcome(m, b) \in MinerType
    BY <1>4 DEF SameBut
  <2>2. SameBut(recordShareOutcome(m, b), shutdown(recordShareOutcome(m, b)))
    BY <2>1, Shutdown
  <2> QED BY <1>4, <2>2, SameTrans
<1> QED BY <1>2, <1>3, <1>4, <1>5 DEF Judged, m

\* The record of a submission and what it becomes.
SameRequest(r, x) ==
    /\ x \in RequestType /\ x.owner = r.owner /\ x.token = r.token /\ x.nonce = r.nonce
    /\ x.claimed = r.claimed /\ x.unverified = r.unverified

LEMMA RequestParts ==
    ASSUME NEW o \in Owners, NEW t \in Tokens, NEW n \in Results, NEW c \in Results,
           NEW r, r = request(o, t, n, c)
    PROVE  /\ r \in RequestType /\ r.owner = o /\ r.token = t /\ r.nonce = n /\ r.claimed = c
           /\ r.answers = <<>> /\ ~ r.submitted /\ ~ r.unverified
<1>1. <<>> \in Seq(Answers)
  OBVIOUS
<1> QED BY <1>1 DEF request, RequestType

LEMMA AnsweredRequest ==
    ASSUME NEW r \in RequestType, NEW a \in Answers, NEW x, x = [r EXCEPT !.answers = <<a>>]
    PROVE  SameRequest(r, x) /\ x.answers = <<a>> /\ x.submitted = r.submitted
<1>1. <<a>> \in Seq(Answers)
  OBVIOUS
<1>2. x \in RequestType
  BY <1>1 DEF RequestType
<1>3. /\ x.owner = r.owner /\ x.token = r.token /\ x.nonce = r.nonce
      /\ x.claimed = r.claimed /\ x.unverified = r.unverified
      /\ x.answers = <<a>> /\ x.submitted = r.submitted
  BY DEF RequestType
<1> QED BY <1>2, <1>3 DEF SameRequest

LEMMA SubmittedRequest ==
    ASSUME NEW r \in RequestType, NEW x, x = [r EXCEPT !.submitted = TRUE]
    PROVE  SameRequest(r, x) /\ x.answers = r.answers /\ x.submitted
<1>1. x \in RequestType
  BY DEF RequestType
<1>2. /\ x.owner = r.owner /\ x.token = r.token /\ x.nonce = r.nonce
      /\ x.claimed = r.claimed /\ x.unverified = r.unverified
      /\ x.answers = r.answers /\ x.submitted
  BY DEF RequestType
<1> QED BY <1>1, <1>2 DEF SameRequest

\* Request q with record x was handed to the upstream, or what it was refused for.
Forwarded(q, x, c, res) ==
    \/ /\ inflight' = inflight \cup {q} /\ x.answers = <<>> /\ x.submitted /\ cache' = c
       /\ \E j \in findTelemetryJob(miner[x.owner], x.token) : j.source = miner[x.owner].source
    \/ /\ UNCHANGED inflight /\ x.answers = <<"Retry">> /\ cache' = release2(c, res)
    \/ /\ UNCHANGED inflight /\ x.answers = <<"Rejected">> /\ cache' = c

LEMMA ForwardNew ==
    ASSUME MinersOK, RequestsOK, NEW r \in RequestType, r.answers = <<>>,
           miner[r.owner].state = "ready", NEW c, NEW res, NEW out,
           Forward(Len(log) + 1, Append(log, r), c, res, out)
    PROVE  /\ Judged(r.owner)
           /\ \E x : SameRequest(r, x) /\ log' = Append(log, x) /\ Forwarded(Len(log) + 1, x, c, res)
<1> DEFINE k == Len(log) + 1
           lg == Append(log, r)
<1>1. log \in Seq(RequestType) /\ r.owner \in Owners
  BY DEF RequestsOK, RequestType
<1>2. lg[k] = r /\ \A x \in RequestType : [lg EXCEPT ![k] = x] = Append(log, x)
  <2>1. ASSUME NEW x \in RequestType PROVE [lg EXCEPT ![k] = x] = Append(log, x)
    BY <1>1, AppendExcept
  <2> QED BY <1>1, <2>1
<1>3. Forward(k, lg, c, res, out)
  OBVIOUS
<1> HIDE DEF lg, k
<1>4. \A v : answer(lg, k, v) = [lg EXCEPT ![k] = [r EXCEPT !.answers = Append(@, v)]]
  BY <1>2 DEF answer, isWritable
<1>5. ASSUME NEW v \in Answers
      PROVE  answer(lg, k, v) = Append(log, [r EXCEPT !.answers = <<v>>])
  <2>1. Append(r.answers, v) = <<v>>
    OBVIOUS
  <2>2. answer(lg, k, v) = [lg EXCEPT ![k] = [r EXCEPT !.answers = <<v>>]]
    BY <1>4, <2>1
  <2>3. [r EXCEPT !.answers = <<v>>] \in RequestType
    BY AnsweredRequest DEF SameRequest
  <2> QED BY <1>2, <2>2, <2>3
<1>6. CASE out = "flight"
  <2> DEFINE x == [r EXCEPT !.submitted = TRUE]
  <2>1. /\ \E j \in findTelemetryJob(miner[r.owner], r.token) : j.source = miner[r.owner].source
        /\ inflight' = inflight \cup {k}
        /\ log' = [lg EXCEPT ![k].submitted = TRUE]
        /\ cache' = c
        /\ miner' = [miner EXCEPT ![r.owner] = recordInfrastructureOutcome(@, TRUE)]
    BY <1>2, <1>3, <1>6 DEF Forward, retainSubmission
  <2>3. SameRequest(r, x) /\ x.answers = r.answers /\ x.submitted
    BY SubmittedRequest
  <2>2. log' = Append(log, x)
    BY <1>2, <2>1, <2>3 DEF SameRequest
  <2> HIDE DEF x
  <2>4. Judged(r.owner)
    BY <1>1, <2>1, JudgedBy
  <2>5. Forwarded(k, x, c, res)
    BY <2>1, <2>3 DEF Forwarded, SameRequest
  <2> QED BY <2>2, <2>3, <2>4, <2>5 DEF k
<1>7. CASE out = "BadGateway"
  <2> DEFINE x == [r EXCEPT !.answers = <<"Retry">>]
  <2>1. /\ UNCHANGED inflight /\ log' = answer(lg, k, "Retry") /\ cache' = release2(c, res)
        /\ miner' = [miner EXCEPT ![r.owner] = recordInfrastructureOutcome(@, FALSE)]
    BY <1>2, <1>3, <1>7 DEF Forward
  <2>2. log' = Append(log, x)
    BY <1>5, <2>1 DEF Answers
  <2>3. SameRequest(r, x) /\ x.answers = <<"Retry">>
    BY AnsweredRequest DEF Answers
  <2> HIDE DEF x
  <2>4. Judged(r.owner)
    BY <1>1, <2>1, JudgedBy
  <2> QED BY <2>1, <2>2, <2>3, <2>4 DEF k, Forwarded
<1>8. CASE out = "InvalidJobId"
  <2> DEFINE x == [r EXCEPT !.answers = <<"Rejected">>]
  <2>1. /\ UNCHANGED inflight /\ log' = answer(lg, k, "Rejected") /\ cache' = c
        /\ miner' = [miner EXCEPT ![r.owner] = recordShareOutcome(@, FALSE)]
    BY <1>2, <1>3, <1>8 DEF Forward, retainSubmission
  <2>2. log' = Append(log, x)
    BY <1>5, <2>1 DEF Answers
  <2>3. SameRequest(r, x) /\ x.answers = <<"Rejected">>
    BY AnsweredRequest DEF Answers
  <2> HIDE DEF x
  <2>4. Judged(r.owner)
    BY <1>1, <2>1, JudgedBy
  <2> QED BY <2>1, <2>2, <2>3, <2>4 DEF k, Forwarded
<1> QED BY <1>3, <1>6, <1>7, <1>8 DEF Forward

\* Only the record of request q changes, in its answer and its submission.
OnlyRequest(q) ==
    /\ log' \in Seq(RequestType) /\ DOMAIN log' = DOMAIN log
    /\ \A i \in DOMAIN log \ {q} : log'[i] = log[i]
    /\ SameRequest(log[q], log'[q])

\* It was answered, or its miner is no longer there.
AnsweredWith(q, v) ==
    /\ OnlyRequest(q)
    /\ log'[q].submitted = log[q].submitted
    /\ \/ miner[log[q].owner].state = "ready" /\ log'[q].answers = <<v>>
       \/ miner[log[q].owner].state = "closing" /\ log' = log

HandedOn(q, c, res) ==
    \/ /\ inflight' = inflight \cup {q} /\ OnlyRequest(q)
       /\ log'[q].answers = <<>> /\ log'[q].submitted /\ cache' = c
       /\ \E j \in findTelemetryJob(miner[log[q].owner], log[q].token) :
             j.source = miner[log[q].owner].source
    \/ UNCHANGED inflight /\ AnsweredWith(q, "Retry") /\ cache' = release2(c, res)
    \/ UNCHANGED inflight /\ AnsweredWith(q, "Rejected") /\ cache' = c

LEMMA AnswerOld ==
    ASSUME RequestsOK, Answering, NEW q \in DOMAIN log, Owed(q), NEW v \in Answers,
           log' = answer(log, q, v)
    PROVE  AnsweredWith(q, v)
<1>1. /\ log' \in Seq(RequestType) /\ DOMAIN log' = DOMAIN log
      /\ \A i \in DOMAIN log \ {q} : log'[i] = log[i]
      /\ log'[q].owner = log[q].owner /\ log'[q].token = log[q].token
      /\ log'[q].nonce = log[q].nonce /\ log'[q].claimed = log[q].claimed
      /\ log'[q].submitted = log[q].submitted /\ log'[q].unverified = log[q].unverified
      /\ miner[log[q].owner].state = "ready" => log'[q].answers = <<v>>
      /\ miner[log[q].owner].state # "ready" =>
            log' = log /\ miner[log[q].owner].state = "closing"
  BY AnswerParts
<1>2. log'[q] \in RequestType
  BY <1>1
<1>3. OnlyRequest(q)
  BY <1>1, <1>2 DEF OnlyRequest, SameRequest
<1> QED BY <1>1, <1>3 DEF AnsweredWith

LEMMA ForwardOld ==
    ASSUME MinersOK, RequestsOK, Answering, NEW q \in DOMAIN log, Owed(q), NEW c, NEW res, NEW out,
           Forward(q, log, c, res, out)
    PROVE  Judged(log[q].owner) /\ HandedOn(q, c, res)
<1> DEFINE o == log[q].owner
<1>1. /\ log \in Seq(RequestType) /\ log[q] \in RequestType /\ o \in Owners
      /\ log[q].answers = <<>>
  BY LogFields DEF RequestsOK, Answering
<1>2. CASE out = "flight"
  <2> DEFINE x == [log[q] EXCEPT !.submitted = TRUE]
  <2>1. /\ \E j \in findTelemetryJob(miner[o], log[q].token) : j.source = miner[o].source
        /\ inflight' = inflight \cup {q}
        /\ log' = [log EXCEPT ![q].submitted = TRUE]
        /\ cache' = c
        /\ miner' = [miner EXCEPT ![o] = recordInfrastructureOutcome(@, TRUE)]
    BY <1>2 DEF Forward, retainSubmission
  <2>2. log' = [log EXCEPT ![q] = x]
    BY <2>1
  <2>3. SameRequest(log[q], x) /\ x.answers = log[q].answers /\ x.submitted
    BY <1>1, SubmittedRequest
  <2> HIDE DEF x, o
  <2>4. Judged(o)
    BY <1>1, <2>1, JudgedBy
  <2>5. x \in RequestType
    BY <2>3 DEF SameRequest
  <2>6. log' \in Seq(RequestType) /\ DOMAIN log' = DOMAIN log /\ log'[q] = x
        /\ \A i \in DOMAIN log \ {q} : log'[i] = log[i]
    BY <1>1, <2>2, <2>5
  <2>7. OnlyRequest(q)
    BY <2>3, <2>6 DEF OnlyRequest
  <2> QED BY <1>1, <2>1, <2>3, <2>4, <2>6, <2>7 DEF HandedOn, o
<1>3. CASE out = "BadGateway"
  <2>1. /\ UNCHANGED inflight /\ log' = answer(log, q, "Retry") /\ cache' = release2(c, res)
        /\ miner' = [miner EXCEPT ![o] = recordInfrastructureOutcome(@, FALSE)]
    BY <1>3 DEF Forward
  <2>2. AnsweredWith(q, "Retry")
    BY <2>1, AnswerOld DEF Answers
  <2>3. Judged(o)
    BY <1>1, <2>1, JudgedBy
  <2> QED BY <2>1, <2>2, <2>3 DEF HandedOn
<1>4. CASE out = "InvalidJobId"
  <2>1. /\ UNCHANGED inflight /\ log' = answer(log, q, "Rejected") /\ cache' = c
        /\ miner' = [miner EXCEPT ![o] = recordShareOutcome(@, FALSE)]
    BY <1>4 DEF Forward, retainSubmission
  <2>2. AnsweredWith(q, "Rejected")
    BY <2>1, AnswerOld DEF Answers
  <2>3. Judged(o)
    BY <1>1, <2>1, JudgedBy
  <2> QED BY <2>1, <2>2, <2>3 DEF HandedOn
<1> QED BY <1>2, <1>3, <1>4 DEF Forward

\* An owed request is answered, or passes to a client.
LEMMA SettledRequest ==
    ASSUME MinersOK, RequestsOK, Answering, Advanced, NEW q \in DOMAIN log, Owed(q),
           pending' = {p \in pending : p.req # q}, OnlyRequest(q),
           \/ inflight' = inflight \cup {q} /\ log'[q].answers = <<>>
           \/ inflight' = inflight \ {q} /\ \E v \in Answers : AnsweredWith(q, v)
           \/ inflight' = inflight \ {q} /\ log' = log /\ miner[log[q].owner].state = "closing"
    PROVE  RequestsOK' /\ Answering'
<1>1. \A i \in DOMAIN log : log'[i].owner = log[i].owner /\ log'[i].token = log[i].token
  BY DEF OnlyRequest, SameRequest
<1>2. /\ log' \in Seq(RequestType) /\ DOMAIN log' = DOMAIN log
      /\ pending' \subseteq pending /\ inflight' \subseteq DOMAIN log
  BY DEF OnlyRequest, RequestsOK
<1>3. \A p \in pending' : p.req \notin inflight'
  BY DEF RequestsOK
<1>4. ASSUME NEW i \in DOMAIN log PROVE Advances(miner[log[i].owner], miner'[log[i].owner])
  BY LogFields DEF Advanced
<1>5. ASSUME NEW i \in DOMAIN log, i # q PROVE Treated(i)
  <2>1. Owed(i)' <=> Owed(i)
    BY <1>5 DEF Owed
  <2> QED BY <1>4, <1>5, <2>1 DEF Treated, OnlyRequest
<1>6. Treated(q)
  <2>1. log[q].answers = <<>>
    BY DEF Answering
  <2>2. CASE inflight' = inflight \cup {q} /\ log'[q].answers = <<>>
    BY <1>4, <2>1, <2>2 DEF Treated, Owed
  <2>3. CASE inflight' = inflight \ {q} /\ log' = log /\ miner[log[q].owner].state = "closing"
    BY <1>4, <2>3 DEF Treated, Owed, Advances
  <2>4. CASE inflight' = inflight \ {q} /\ \E v \in Answers : AnsweredWith(q, v)
    <3>1. PICK v \in Answers : AnsweredWith(q, v)
      BY <2>4
    <3>2. ~ Owed(q)'
      BY <2>4 DEF Owed
    <3>3. CASE miner[log[q].owner].state = "ready" /\ log'[q].answers = <<v>>
      BY <1>4, <3>2, <3>3 DEF Treated
    <3>4. CASE miner[log[q].owner].state = "closing" /\ log' = log
      BY <1>4, <3>2, <3>4 DEF Treated, Advances
    <3> QED BY <3>1, <3>3, <3>4 DEF AnsweredWith
  <2> QED BY <2>2, <2>3, <2>4
<1>7. \A i \in DOMAIN log : Treated(i)
  BY <1>5, <1>6
<1> QED BY <1>1, <1>2, <1>3, <1>7, TreatedRequests

RequestsInv == MinersOK /\ RequestsOK /\ Answering

\* The record a submission leaves behind.
NewRequest(o, t, n, c, x) ==
    /\ x \in RequestType /\ x.owner = o /\ x.token = t /\ x.nonce = n /\ x.claimed = c
    /\ log' = Append(log, x)

\* What becomes of a share c of job t of o once the cache ca holds its reservation
\* res; x is the record of the request, the k-th.
Reserved(k, o, t, c, ca, res, x) ==
    \/ /\ x.answers = <<>> /\ ~ x.unverified /\ cache' = ca
       /\ \E p : /\ pending' = pending \cup {p}
                 /\ p.req = k /\ p.owner = o /\ p.token = t /\ p.res = res
       /\ UNCHANGED <<inflight, credited>>
    \/ /\ x.answers = <<"Retry">> /\ ~ x.unverified /\ cache' = release2(ca, res)
       /\ UNCHANGED <<pending, inflight, credited>>
    \/ /\ x.answers = <<"OK">> /\ ~ x.unverified /\ cache' = ca
       /\ Quality[c] = "share" /\ credited' = credited \cup {<<k, o, t, c>>}
       /\ UNCHANGED <<pending, inflight>>
    \/ ~ x.unverified /\ Forwarded(k, x, ca, res) /\ UNCHANGED <<pending, credited>>
    \/ x.unverified /\ Forwarded(k, x, release2(ca, res), res) /\ UNCHANGED <<pending, credited>>

\* What a submit request does.
NewShare(o, t, n, c, x) ==
    /\ miner[o].state = "ready" /\ NewRequest(o, t, n, c, x) /\ Judged(o)
    /\ UNCHANGED <<latest, retired, useVerifier>>
    /\ \/ /\ x.answers \in {<<"Retry">>, <<"Refused">>}
          /\ UNCHANGED <<cache, pending, inflight, credited>>
       \/ /\ Admitted(o, t, c)
          /\ Reserved(Len(log) + 1, o, t, c, reserved(o, t, c), reservation(o, t, c), x)

LEMMA AnsweredRecord ==
    ASSUME NEW o, NEW t, NEW n, NEW c, NEW r \in RequestType,
           r.owner = o, r.token = t, r.nonce = n, r.claimed = c, ~ r.submitted, ~ r.unverified,
           NEW a \in Answers, NEW x, x = [r EXCEPT !.answers = <<a>>], log' = Append(log, x)
    PROVE  NewRequest(o, t, n, c, x) /\ x.answers = <<a>> /\ ~ x.submitted /\ ~ x.unverified
<1>1. SameRequest(r, x) /\ x.answers = <<a>> /\ x.submitted = r.submitted
  BY AnsweredRequest
<1>2. NewRequest(o, t, n, c, x)
  BY <1>1 DEF SameRequest, NewRequest
<1> QED BY <1>1, <1>2, Zenon DEF SameRequest

LEMMA AnsweredNow ==
    ASSUME NEW o \in Owners, NEW t \in Tokens, NEW n \in Results, NEW c \in Results,
           NEW a \in Answers, NEW x, x = [request(o, t, n, c) EXCEPT !.answers = <<a>>],
           log' = Append(log, x)
    PROVE  NewRequest(o, t, n, c, x) /\ x.answers = <<a>> /\ ~ x.submitted /\ ~ x.unverified
<1> DEFINE r == request(o, t, n, c)
<1>1. r \in RequestType
  BY RequestParts
<1>2. r.owner = o /\ r.token = t /\ r.nonce = n /\ r.claimed = c /\ ~ r.submitted /\ ~ r.unverified
  BY RequestParts
<1> QED BY <1>1, <1>2, AnsweredRecord

LEMMA RejectedShare ==
    ASSUME RequestsInv, NEW o \in Owners, NEW t \in Tokens, NEW c \in Results, NEW fault,
           SubmitRejected(o, t, c, fault)
    PROVE  \E x : NewShare(o, t, c, c, x)
<1> DEFINE infra == submitError(o, t, c, fault) = "VerificationFailed"
           a == IF infra THEN "Retry" ELSE "Refused"
           x == [request(o, t, c, c) EXCEPT !.answers = <<a>>]
           error == submitError(o, t, c, fault)
<1>1. /\ miner[o].state = "ready" /\ log' = Append(log, x)
      /\ miner' = [miner EXCEPT ![o] =
                        IF infra THEN recordInfrastructureOutcome(@, FALSE)
                        ELSE IF error = "InvalidNonce" THEN shutdown(recordShareOutcome(@, FALSE))
                        ELSE recordShareOutcome(@, FALSE)]
      /\ UNCHANGED <<cache, latest, retired, pending, inflight, credited, useVerifier>>
  BY Zenon DEF SubmitRejected
<1>2. a \in Answers /\ <<a>> \in {<<"Retry">>, <<"Refused">>}
  BY DEF Answers
<1> HIDE DEF infra, error, a
<1>3. Judged(o)
  BY <1>1, JudgedBy DEF RequestsInv
<1>4. NewRequest(o, t, c, c, x) /\ x.answers = <<a>>
  BY <1>1, <1>2, AnsweredNow
<1> HIDE DEF x
<1>5. NewShare(o, t, c, c, x)
  BY <1>1, <1>2, <1>3, <1>4 DEF NewShare
<1> QED BY <1>5

LEMMA VerifyShare ==
    ASSUME RequestsInv, NEW o \in Owners, NEW t \in Tokens, NEW n \in Results, NEW c \in Results,
           SubmitVerify(o, t, n, c)
    PROVE  \E x : NewShare(o, t, n, c, x)
<1> DEFINE x == request(o, t, n, c)
           res == reservation(o, t, c)
           ca == reserved(o, t, c)
           p == [req |-> Len(log) + 1, owner |-> o, token |-> t,
                 generation |-> miner[o].generation, candidateFallback |-> claimedCandidate(c),
                 res |-> res]
<1>1. /\ Admitted(o, t, c) /\ log' = Append(log, x) /\ pending' = pending \cup {p} /\ cache' = ca
      /\ miner' = [miner EXCEPT ![o] = recordInfrastructureOutcome(@, TRUE)]
      /\ UNCHANGED <<latest, retired, inflight, credited, useVerifier>>
  BY Zenon DEF SubmitVerify
<1>2. p.req = Len(log) + 1 /\ p.owner = o /\ p.token = t /\ p.res = res
  OBVIOUS
<1> HIDE DEF p, res, ca
<1>3. Judged(o)
  BY <1>1, JudgedBy DEF RequestsInv
<1>4. NewRequest(o, t, n, c, x) /\ x.answers = <<>> /\ ~ x.unverified
  BY <1>1, RequestParts DEF NewRequest
<1> HIDE DEF x
<1>5. Reserved(Len(log) + 1, o, t, c, ca, res, x)
  BY <1>1, <1>2, <1>4 DEF Reserved
<1>6. NewShare(o, t, n, c, x)
  BY <1>1, <1>3, <1>4, <1>5 DEF NewShare, Admitted, res, ca
<1> QED BY <1>6

LEMMA UnavailableShare ==
    ASSUME RequestsInv, NEW o \in Owners, NEW t \in Tokens, NEW n \in Results, NEW c \in Results,
           SubmitUnavailable(o, t, n, c)
    PROVE  \E x : NewShare(o, t, n, c, x)
<1> DEFINE x == [request(o, t, n, c) EXCEPT !.answers = <<"Retry">>]
           res == reservation(o, t, c)
           ca == reserved(o, t, c)
<1>1. /\ Admitted(o, t, c) /\ log' = Append(log, x) /\ cache' = release2(ca, res)
      /\ miner' = [miner EXCEPT ![o] = IF claimedCandidate(c)
                                       THEN recordShareOutcome(@, FALSE)
                                       ELSE recordInfrastructureOutcome(@, FALSE)]
      /\ UNCHANGED <<latest, retired, pending, inflight, credited, useVerifier>>
  BY Zenon DEF SubmitUnavailable
<1>2. "Retry" \in Answers
  BY DEF Answers
<1>3. Judged(o)
  BY <1>1, JudgedBy DEF RequestsInv
<1>4. NewRequest(o, t, n, c, x) /\ x.answers = <<"Retry">>
      /\ ~ x.submitted /\ ~ x.unverified
  BY <1>1, <1>2, AnsweredNow, Zenon
<1> HIDE DEF x, res, ca
<1>5. Reserved(Len(log) + 1, o, t, c, ca, res, x)
  BY <1>1, <1>4 DEF Reserved
<1>6. NewShare(o, t, n, c, x)
  BY <1>1, <1>3, <1>4, <1>5 DEF NewShare, Admitted, res, ca
<1> QED BY <1>6

LEMMA LocalShare ==
    ASSUME RequestsInv, NEW o \in Owners, NEW t \in Tokens, NEW n \in Results, NEW c \in Results,
           SubmitLocal(o, t, n, c)
    PROVE  \E x : NewShare(o, t, n, c, x)
<1> DEFINE x == [request(o, t, n, c) EXCEPT !.answers = <<"OK">>]
           res == reservation(o, t, c)
           ca == reserved(o, t, c)
<1>1. /\ Admitted(o, t, c) /\ log' = Append(log, x) /\ cache' = ca /\ Quality[c] = "share"
      /\ credited' = credited \cup {<<Len(log) + 1, o, t, c>>}
      /\ UNCHANGED <<miner, latest, retired, pending, inflight, useVerifier>>
  BY Zenon DEF SubmitLocal
<1>2. "OK" \in Answers
  BY DEF Answers
<1>3. Judged(o)
  BY <1>1, JudgedBy DEF RequestsInv
<1>4. NewRequest(o, t, n, c, x) /\ x.answers = <<"OK">>
      /\ ~ x.submitted /\ ~ x.unverified
  BY <1>1, <1>2, AnsweredNow, Zenon
<1> HIDE DEF x, res, ca
<1>5. Reserved(Len(log) + 1, o, t, c, ca, res, x)
  BY <1>1, <1>4 DEF Reserved
<1>6. NewShare(o, t, n, c, x)
  BY <1>1, <1>3, <1>4, <1>5 DEF NewShare, Admitted, res, ca
<1> QED BY <1>6

LEMMA CandidateShare ==
    ASSUME RequestsInv, NEW o \in Owners, NEW t \in Tokens, NEW n \in Results, NEW c \in Results,
           NEW out, SubmitCandidate(o, t, n, c, out) \/ SubmitEmergency(o, t, n, c, out)
    PROVE  \E x : NewShare(o, t, n, c, x)
<1> DEFINE r == request(o, t, n, c)
           u == [r EXCEPT !.unverified = TRUE]
           res == reservation(o, t, c)
           ca == reserved(o, t, c)
           k == Len(log) + 1
<1>1. /\ r \in RequestType /\ r.owner = o /\ r.token = t /\ r.nonce = n /\ r.claimed = c
      /\ r.answers = <<>> /\ ~ r.unverified
  BY RequestParts
<1>2. u \in RequestType
  BY <1>1 DEF RequestType
<1>3. u.owner = o /\ u.token = t /\ u.nonce = n /\ u.claimed = c /\ u.answers = <<>> /\ u.unverified
  BY <1>1 DEF RequestType
<1>4. CASE SubmitCandidate(o, t, n, c, out)
  <2>1. /\ Admitted(o, t, c) /\ Forward(k, Append(log, r), ca, res, out)
        /\ UNCHANGED <<latest, retired, pending, credited, useVerifier>>
    BY <1>4, Zenon DEF SubmitCandidate
  <2> HIDE DEF r, res, ca
  <2>2. Judged(o) /\ \E x : SameRequest(r, x) /\ log' = Append(log, x) /\ Forwarded(k, x, ca, res)
    BY <1>1, <2>1, ForwardNew DEF RequestsInv, Admitted
  <2>3. PICK x : SameRequest(r, x) /\ log' = Append(log, x) /\ Forwarded(k, x, ca, res)
    BY <2>2
  <2>4. NewRequest(o, t, n, c, x)
    BY <1>1, <2>3 DEF NewRequest, SameRequest
  <2>5. Reserved(k, o, t, c, ca, res, x)
    BY <1>1, <2>1, <2>3, Zenon DEF Reserved, SameRequest
  <2>6. NewShare(o, t, n, c, x)
    BY <2>1, <2>2, <2>4, <2>5 DEF NewShare, Admitted, res, ca
  <2> QED BY <2>6
<1>5. CASE SubmitEmergency(o, t, n, c, out)
  <2>1. /\ Admitted(o, t, c) /\ Forward(k, Append(log, u), release2(ca, res), res, out)
        /\ UNCHANGED <<latest, retired, pending, credited, useVerifier>>
    BY <1>5, Zenon DEF SubmitEmergency
  <2> HIDE DEF r, u, res, ca
  <2>2. Judged(o) /\ \E x : /\ SameRequest(u, x) /\ log' = Append(log, x)
                            /\ Forwarded(k, x, release2(ca, res), res)
    BY <1>2, <1>3, <2>1, ForwardNew DEF RequestsInv, Admitted
  <2>3. PICK x : SameRequest(u, x) /\ log' = Append(log, x) /\ Forwarded(k, x, release2(ca, res), res)
    BY <2>2
  <2>4. NewRequest(o, t, n, c, x)
    BY <1>3, <2>3 DEF NewRequest, SameRequest
  <2>5. Reserved(k, o, t, c, ca, res, x)
    BY <1>3, <2>1, <2>3, Zenon DEF Reserved, SameRequest
  <2>6. NewShare(o, t, n, c, x)
    BY <2>1, <2>2, <2>4, <2>5 DEF NewShare, Admitted, res, ca
  <2> QED BY <2>6
<1> QED BY <1>4, <1>5

LEMMA SubmitShare ==
    ASSUME RequestsInv, NEW o \in Owners, NEW t \in Tokens, NEW n \in Results, NEW c \in Results,
           Submit(o, t, n, c)
    PROVE  \E m \in Results : \E x : NewShare(o, t, m, c, x)
BY RejectedShare, VerifyShare, UnavailableShare, CandidateShare, LocalShare DEF Submit

LEMMA SubmitStep ==
    ASSUME RequestsInv, NEW o \in Owners, NEW t \in Tokens, NEW n \in Results, NEW c \in Results,
           NEW x, NewShare(o, t, n, c, x)
    PROVE  RequestsInv'
<1>1. miner[o].state = "ready" /\ Judged(o) /\ UNCHANGED <<latest, retired, useVerifier>>
  BY DEF NewShare
<1>2. Advanced
  BY <1>1, JudgedAdvanced DEF RequestsInv
<1>3. x \in RequestType /\ x.owner = o /\ x.token = t /\ log' = Append(log, x)
  BY DEF NewShare, NewRequest
<1>4. {"Retry", "Refused", "Rejected", "OK"} \subseteq Answers
  BY DEF Answers
<1>5. Taken(Len(log) + 1, x)
  <2>1. CASE x.answers \in {<<"Retry">>, <<"Refused">>} /\ UNCHANGED <<cache, pending, inflight, credited>>
    BY <1>4, <2>1 DEF Taken
  <2>2. ASSUME NEW k, k = Len(log) + 1, NEW ca, NEW res, Reserved(k, o, t, c, ca, res, x)
        PROVE  Taken(k, x)
    BY <1>3, <1>4, <2>2 DEF Taken, Reserved, Forwarded
  <2> QED BY <2>1, <2>2 DEF NewShare
<1>6. RequestsOK' /\ Answering'
  BY <1>1, <1>2, <1>3, <1>5, TakenRequests DEF RequestsInv
<1> QED BY <1>2, <1>6 DEF RequestsInv, Advanced

\* The verifier's answer for a pending share.
LEMMA TakeParts ==
    ASSUME RequestsInv, NEW p \in pending, Take(p)
    PROVE  /\ p.req \in DOMAIN log /\ Owed(p.req) /\ p.req \notin inflight
           /\ p.owner = log[p.req].owner /\ p.token = log[p.req].token /\ p.owner \in Owners
           /\ pending' = {x \in pending : x.req # p.req}
           /\ miner[p.owner].state \in {"ready", "closing"}
           /\ log[p.req].answers = <<>>
<1>1. /\ p.req \in DOMAIN log /\ p.req \notin inflight
      /\ p.owner = log[p.req].owner /\ p.token = log[p.req].token
      /\ \A x \in pending : p.req = x.req => p = x
  BY DEF RequestsInv, RequestsOK
<1>2. Owed(p.req)
  BY DEF Owed
<1>3. pending' = {x \in pending : x.req # p.req}
  BY <1>1 DEF Take
<1>4. miner[p.owner].state \in {"ready", "closing"} /\ log[p.req].answers = <<>>
  BY <1>1, <1>2 DEF RequestsInv, Answering
<1> QED BY <1>1, <1>2, <1>3, <1>4, LogFields DEF RequestsInv

\* What the verifier's answer for p makes of its request, with the reservations res
\* in the cache ca.
Finishing(p, ca, res) ==
    \/ /\ AnsweredWith(p.req, "Retry") /\ cache' = release2(ca, res)
       /\ UNCHANGED <<inflight, credited>>
    \/ AnsweredWith(p.req, "Rejected") /\ cache' = ca /\ UNCHANGED <<inflight, credited>>
    \/ /\ AnsweredWith(p.req, "OK") /\ cache' = ca /\ UNCHANGED inflight
       /\ log[p.req].claimed = log[p.req].nonce /\ Quality[log[p.req].nonce] = "share"
       /\ credited' = credited \cup {<<p.req, p.owner, p.token, log[p.req].nonce>>}
    \/ HandedOn(p.req, ca, res) /\ UNCHANGED credited

FinishedShare(p) ==
    /\ Take(p) /\ Judged(p.owner) /\ UNCHANGED <<latest, retired, useVerifier>>
    /\ \/ /\ miner[p.owner].state = "closing" /\ cache' = release2(cache, p.res)
          /\ UNCHANGED <<log, inflight, credited>>
       \/ /\ miner[p.owner].state = "ready"
          /\ Finishing(p, cache, p.res) \/ Finishing(p, withComputed(p).cache, withComputed(p).res)

LEMMA AnsweredOld ==
    ASSUME RequestsInv, NEW p \in pending, Take(p), NEW v \in Answers, log' = answer(log, p.req, v)
    PROVE  AnsweredWith(p.req, v)
<1>1. p.req \in DOMAIN log /\ Owed(p.req)
  BY TakeParts
<1> QED BY <1>1, AnswerOld DEF RequestsInv

LEMMA ForwardedOld ==
    ASSUME RequestsInv, NEW p \in pending, Take(p), NEW c, NEW res, NEW out, Forward(p.req, log, c, res, out)
    PROVE  Judged(p.owner) /\ HandedOn(p.req, c, res)
<1>1. p.req \in DOMAIN log /\ Owed(p.req) /\ p.owner = log[p.req].owner
  BY TakeParts
<1> QED BY <1>1, ForwardOld DEF RequestsInv

LEMMA SameLog ==
    ASSUME RequestsInv, NEW q \in DOMAIN log, log' = log
    PROVE  OnlyRequest(q)
<1>1. log[q] \in RequestType
  BY LogFields DEF RequestsInv
<1> QED BY <1>1 DEF OnlyRequest, SameRequest, RequestsInv, RequestsOK

\* The four ways completeVerification ends once the share was verified.
LEMMA VerifiedCases ==
    ASSUME NEW p \in pending, Verified(p)
    PROVE  LET q == p.req
           IN  \/ /\ computedIdentity(p) = "Capacity" /\ UNCHANGED inflight
                  /\ cache' = destroyed(cache, {p}) /\ log' = answer(log, q, "Retry")
                  /\ miner' = [miner EXCEPT ![p.owner] = recordInfrastructureOutcome(@, FALSE)]
                  /\ UNCHANGED credited
               \/ /\ computedIdentity(p) \notin {"Capacity", "Duplicate"} /\ Quality[log[q].nonce] = "block"
                  /\ \E out \in Outcomes : Forward(q, log, withComputed(p).cache, withComputed(p).res, out)
                  /\ UNCHANGED credited
               \/ /\ computedIdentity(p) # "Capacity" /\ UNCHANGED inflight
                  /\ log[q].claimed = log[q].nonce /\ Quality[log[q].nonce] = "share"
                  /\ log' = answer(log, q, "OK") /\ cache' = cache
                  /\ credited' = credited \cup {<<q, p.owner, p.token, log[q].nonce>>}
                  /\ miner' = [miner EXCEPT ![p.owner] = recordShareOutcome(@, TRUE)]
               \/ /\ computedIdentity(p) # "Capacity" /\ UNCHANGED inflight
                  /\ cache' = withComputed(p).cache /\ log' = answer(log, q, "Rejected")
                  /\ miner' = [miner EXCEPT ![p.owner] = recordShareOutcome(@, FALSE)]
                  /\ UNCHANGED credited
<1> DEFINE e == computedIdentity(p)
           r == log[p.req]
           q == Quality[r.nonce]
           Cap == /\ cache' = destroyed(cache, {p})
                  /\ log' = answer(log, p.req, "Retry")
                  /\ miner' = [miner EXCEPT ![p.owner] = recordInfrastructureOutcome(@, FALSE)]
                  /\ UNCHANGED <<credited, inflight>>
           Fwd == /\ \E out \in Outcomes :
                        Forward(p.req, log, withComputed(p).cache, withComputed(p).res, out)
                  /\ UNCHANGED credited
           Ok == /\ log' = answer(log, p.req, "OK")
                 /\ credited' = credited \cup {<<p.req, p.owner, p.token, r.nonce>>}
                 /\ miner' = [miner EXCEPT ![p.owner] = recordShareOutcome(@, TRUE)]
                 /\ cache' = retainSubmission(cache, p.res)
                 /\ UNCHANGED inflight
           Bad == /\ cache' = retainSubmission(withComputed(p).cache, withComputed(p).res)
                  /\ log' = answer(log, p.req, "Rejected")
                  /\ miner' = [miner EXCEPT ![p.owner] = recordShareOutcome(@, FALSE)]
                  /\ UNCHANGED <<credited, inflight>>
<1>1. (CASE e = "Capacity" -> Cap
         [] e # "Capacity" /\ e # "Duplicate" /\ q = "block" -> Fwd
         [] r.claimed = r.nonce /\ q = "share" -> Ok
         [] OTHER -> Bad)
  BY Zenon DEF Verified
<1>2. r.claimed = r.nonce => e = "NotNeeded"
  BY Zenon DEF computedIdentity
<1> HIDE DEF e, q, Cap, Fwd, Ok, Bad
<1>3. CASE e = "Capacity"
  <2>1. ~ (r.claimed = r.nonce /\ q = "share")
    BY <1>2, <1>3
  <2>2. Cap
    BY <1>1, <1>3, <2>1
  <2> QED BY <1>3, <2>2 DEF Cap, e
<1>4. CASE e # "Capacity" /\ e # "Duplicate" /\ q = "block"
  <2>1. Fwd
    BY <1>1, <1>4
  <2> QED BY <1>4, <2>1 DEF Fwd, e, q
<1>5. CASE e # "Capacity" /\ r.claimed = r.nonce /\ q = "share"
  <2>1. Ok
    BY <1>1, <1>5
  <2> QED BY <1>5, <2>1 DEF Ok, e, q, retainSubmission
<1>6. CASE /\ e # "Capacity" /\ ~ (e # "Duplicate" /\ q = "block")
           /\ ~ (r.claimed = r.nonce /\ q = "share")
  <2>1. Bad
    BY <1>1, <1>6
  <2> QED BY <1>6, <2>1 DEF Bad, e, retainSubmission
<1> QED BY <1>3, <1>4, <1>5, <1>6

LEMMA CompleteShare ==
    ASSUME RequestsInv, NEW p \in pending, Complete(p)
    PROVE  FinishedShare(p)
<1> USE DEF RequestsInv
<1>0. "Retry" \in Answers /\ "Rejected" \in Answers /\ "OK" \in Answers
  BY DEF Answers
<1>1. Take(p)
  BY DEF Complete, VerifiedAfterClose, VerifiedForOldJob, VerifyFailed, VerifyFailedCandidate, Verified
<1>2. p.owner \in Owners /\ miner[p.owner].state \in {"ready", "closing"}
  BY <1>1, TakeParts
<1>3. CASE VerifiedAfterClose(p)
  <2>1. /\ miner[p.owner].state = "closing" /\ cache' = destroyed(cache, {p})
        /\ UNCHANGED <<miner, latest, retired, inflight, log, credited, useVerifier>>
    BY <1>3 DEF VerifiedAfterClose
  <2>2. cache' = release2(cache, p.res) /\ Judged(p.owner)
    BY <1>2, <2>1, DestroyedOne, JudgedBy
  <2> QED BY <1>1, <2>1, <2>2 DEF FinishedShare
<1>4. CASE VerifiedForOldJob(p)
  <2>1. /\ log' = answer(log, p.req, "Rejected") /\ miner[p.owner].state # "closing"
        /\ UNCHANGED <<latest, retired, inflight, credited, useVerifier>> /\ cache' = cache
        /\ miner' = [miner EXCEPT ![p.owner] = recordShareOutcome(@, FALSE)]
    BY <1>4 DEF VerifiedForOldJob, retainSubmission
  <2>2. Judged(p.owner) /\ AnsweredWith(p.req, "Rejected")
    BY <1>0, <1>1, <1>2, <2>1, JudgedBy, AnsweredOld
  <2>3. Finishing(p, cache, p.res)
    BY <2>1, <2>2 DEF Finishing
  <2> QED BY <1>1, <1>2, <2>1, <2>2, <2>3 DEF FinishedShare
<1>5. CASE VerifyFailed(p)
  <2>1. /\ log' = answer(log, p.req, "Retry") /\ miner[p.owner].state # "closing"
        /\ UNCHANGED <<latest, retired, inflight, credited, useVerifier>>
        /\ cache' = destroyed(cache, {p})
        /\ miner' = [miner EXCEPT ![p.owner] = IF p.candidateFallback
                                           THEN recordShareOutcome(@, FALSE)
                                           ELSE recordInfrastructureOutcome(@, FALSE)]
    BY <1>5 DEF VerifyFailed
  <2>2. Judged(p.owner) /\ AnsweredWith(p.req, "Retry") /\ cache' = release2(cache, p.res)
    BY <1>0, <1>1, <1>2, <2>1, JudgedBy, AnsweredOld, DestroyedOne
  <2>3. Finishing(p, cache, p.res)
    BY <2>1, <2>2 DEF Finishing
  <2> QED BY <1>1, <1>2, <2>1, <2>2, <2>3 DEF FinishedShare
<1>6. ASSUME NEW out, VerifyFailedCandidate(p, out) PROVE FinishedShare(p)
  <2>1. /\ Forward(p.req, log, cache, p.res, out) /\ miner[p.owner].state # "closing"
        /\ UNCHANGED <<latest, retired, credited, useVerifier>>
    BY <1>6 DEF VerifyFailedCandidate
  <2>2. Judged(p.owner) /\ HandedOn(p.req, cache, p.res)
    BY <1>1, <2>1, ForwardedOld
  <2>3. Finishing(p, cache, p.res)
    BY <2>1, <2>2 DEF Finishing
  <2> QED BY <1>1, <1>2, <2>1, <2>2, <2>3 DEF FinishedShare
<1>7. CASE Verified(p)
  <2> DEFINE ca == withComputed(p).cache
             res == withComputed(p).res
  <2>1. /\ miner[p.owner].state # "closing" /\ UNCHANGED <<latest, retired, useVerifier>>
    BY <1>7 DEF Verified
  <2>2. Judged(p.owner) /\ (Finishing(p, cache, p.res) \/ Finishing(p, ca, res)) => FinishedShare(p)
    BY <1>1, <1>2, <2>1 DEF FinishedShare
  <2>3. CASE /\ UNCHANGED <<inflight, credited>> /\ cache' = destroyed(cache, {p})
             /\ log' = answer(log, p.req, "Retry")
             /\ miner' = [miner EXCEPT ![p.owner] = recordInfrastructureOutcome(@, FALSE)]
    <3>1. Judged(p.owner) /\ AnsweredWith(p.req, "Retry") /\ cache' = release2(cache, p.res)
      BY <1>0, <1>1, <1>2, <2>3, JudgedBy, AnsweredOld, DestroyedOne
    <3> QED BY <2>2, <2>3, <3>1 DEF Finishing
  <2>4. ASSUME NEW out, Forward(p.req, log, ca, res, out), UNCHANGED credited PROVE FinishedShare(p)
    <3> HIDE DEF ca, res
    <3>1. Judged(p.owner) /\ HandedOn(p.req, ca, res)
      BY <1>1, <2>4, ForwardedOld
    <3> QED BY <2>2, <2>4, <3>1 DEF Finishing
  <2>5. CASE /\ UNCHANGED inflight /\ log[p.req].claimed = log[p.req].nonce
             /\ Quality[log[p.req].nonce] = "share"
             /\ log' = answer(log, p.req, "OK") /\ cache' = cache
             /\ credited' = credited \cup {<<p.req, p.owner, p.token, log[p.req].nonce>>}
             /\ miner' = [miner EXCEPT ![p.owner] = recordShareOutcome(@, TRUE)]
    <3>1. Judged(p.owner) /\ AnsweredWith(p.req, "OK")
      BY <1>0, <1>1, <1>2, <2>5, JudgedBy, AnsweredOld
    <3> HIDE DEF ca, res
    <3> QED BY <2>2, <2>5, <3>1 DEF Finishing
  <2>6. CASE /\ UNCHANGED <<inflight, credited>> /\ cache' = ca /\ log' = answer(log, p.req, "Rejected")
             /\ miner' = [miner EXCEPT ![p.owner] = recordShareOutcome(@, FALSE)]
    <3> HIDE DEF ca, res
    <3>1. Judged(p.owner) /\ AnsweredWith(p.req, "Rejected")
      BY <1>0, <1>1, <1>2, <2>6, JudgedBy, AnsweredOld
    <3> QED BY <2>2, <2>6, <3>1 DEF Finishing
  <2> QED BY <1>7, <2>3, <2>4, <2>5, <2>6, VerifiedCases
<1> QED BY <1>3, <1>4, <1>5, <1>6, <1>7 DEF Complete

LEMMA CompleteStep ==
    ASSUME RequestsInv, NEW p \in pending, FinishedShare(p)
    PROVE  RequestsInv'
<1>1. /\ Take(p) /\ Judged(p.owner) /\ UNCHANGED <<latest, retired, useVerifier>>
  BY DEF FinishedShare
<1>2. /\ p.req \in DOMAIN log /\ Owed(p.req) /\ p.req \notin inflight
      /\ p.owner = log[p.req].owner /\ p.owner \in Owners
      /\ pending' = {x \in pending : x.req # p.req}
      /\ miner[p.owner].state \in {"ready", "closing"}
  BY <1>1, TakeParts
<1>3. "Retry" \in Answers /\ "Rejected" \in Answers /\ "OK" \in Answers
  BY DEF Answers
<1>4. /\ OnlyRequest(p.req)
      /\ \/ inflight' = inflight \cup {p.req} /\ log'[p.req].answers = <<>>
         \/ UNCHANGED inflight /\ \E v \in Answers : AnsweredWith(p.req, v)
         \/ UNCHANGED inflight /\ log' = log /\ miner[p.owner].state = "closing"
  <2>1. CASE miner[p.owner].state = "closing" /\ UNCHANGED <<log, inflight>>
    BY <1>2, <2>1, SameLog
  <2>2. ASSUME NEW ca, NEW res, Finishing(p, ca, res)
        PROVE  /\ OnlyRequest(p.req)
               /\ \/ inflight' = inflight \cup {p.req} /\ log'[p.req].answers = <<>>
                  \/ UNCHANGED inflight /\ \E v \in Answers : AnsweredWith(p.req, v)
    <3>1. \A v : AnsweredWith(p.req, v) => OnlyRequest(p.req)
      BY DEF AnsweredWith
    <3> QED BY <1>3, <2>2, <3>1 DEF Finishing, HandedOn
  <2> QED BY <2>1, <2>2 DEF FinishedShare
<1>5. Advanced
  BY <1>1, <1>2, JudgedAdvanced DEF RequestsInv
<1>6. inflight = inflight \ {p.req}
  BY <1>2
<1>7. RequestsOK' /\ Answering'
  BY <1>2, <1>4, <1>5, <1>6, SettledRequest DEF RequestsInv
<1> QED BY <1>5, <1>7 DEF RequestsInv, Advanced

LEMMA ResultStep ==
    ASSUME RequestsInv, NEW q \in inflight, NEW out, DaemonResult(q, out)
    PROVE  RequestsInv'
<1> DEFINE o == log[q].owner
           v == IF out = "OK" THEN "OK" ELSE "Rejected"
<1>1. /\ inflight' = inflight \ {q} /\ log' = answer(log, q, v)
      /\ miner' = IF out = "Ambiguous" THEN miner
                  ELSE [miner EXCEPT ![o] = recordShareOutcome(@, out = "OK")]
      /\ UNCHANGED <<latest, retired, pending, useVerifier>>
  BY DEF DaemonResult
<1>2. v \in Answers
  BY DEF Answers
<1>3. q \in DOMAIN log /\ Owed(q) /\ \A p \in pending : p.req # q
  BY DEF RequestsInv, RequestsOK, Owed
<1>4. o \in Owners /\ miner[o].state \in {"ready", "closing"}
  BY <1>3, LogFields DEF RequestsInv, Answering
<1>5. Judged(o)
  <2>1. CASE out = "Ambiguous"
    BY <1>1, <1>4, <2>1, JudgedBy DEF RequestsInv
  <2>2. CASE out # "Ambiguous"
    <3>1. PICK b : b = (out = "OK")
      OBVIOUS
    <3>2. miner' = [miner EXCEPT ![o] = recordShareOutcome(@, b)]
      BY <1>1, <2>2, <3>1
    <3> QED BY <1>4, <3>2, JudgedBy DEF RequestsInv
  <2> QED BY <2>1, <2>2
<1> HIDE DEF o, v
<1>6. AnsweredWith(q, v)
  BY <1>1, <1>2, <1>3, AnswerOld DEF RequestsInv
<1>7. Advanced
  BY <1>1, <1>4, <1>5, JudgedAdvanced DEF RequestsInv
<1>8. pending' = {p \in pending : p.req # q} /\ OnlyRequest(q)
  BY <1>1, <1>3, <1>6 DEF AnsweredWith
<1>9. RequestsOK' /\ Answering'
  BY <1>1, <1>2, <1>3, <1>6, <1>7, <1>8, SettledRequest DEF RequestsInv
<1> QED BY <1>7, <1>9 DEF RequestsInv, Advanced

\* A client leaves its source, and the last one destroys it.
LEMMA Left ==
    ASSUME MinersOK, NEW s, NEW o, s \in Sources \cup {0}, retire(s, o)
    PROVE  latest' \in [Sources -> Heights \cup {0}] /\ retired' \subseteq Sources
BY DEF MinersOK, retire

LEMMA DisconnectStep ==
    ASSUME RequestsInv, NEW o \in Owners, Disconnect(o)
    PROVE  RequestsInv'
<1> DEFINE mine == {q \in inflight : log[q].owner = o}
           m == miner[o]
           n == [m EXCEPT !.source = 0, !.deferred = 0]
<1>1. /\ m.source # 0 /\ m.state # "gone"
      /\ inflight' = inflight \ mine
      /\ log' = [q \in DOMAIN log |-> IF q \in mine THEN answer(log, q, "Rejected")[q] ELSE log[q]]
      /\ miner' = [miner EXCEPT ![o].source = 0, ![o].deferred = 0]
      /\ retire(m.source, o) /\ UNCHANGED <<pending, useVerifier>>
  BY DEF Disconnect
<1>2. MinerOK(m) /\ m \in MinerType /\ miner \in [Owners -> MinerType] /\ log \in Seq(RequestType)
  BY DEF RequestsInv, MinersOK, RequestsOK
<1>3. miner' = [miner EXCEPT ![o] = n]
  BY <1>1, <1>2
<1>4. n \in MinerType
  BY <1>2 DEF MinerType
<1>5. n.state = m.state /\ n.source = 0 /\ n.deferred = 0 /\ n.jobs = m.jobs /\ n.sequence = m.sequence
  BY <1>2 DEF MinerType
<1>6. MinerOK(n) /\ Advances(m, n)
  BY <1>2, <1>4, <1>5 DEF MinerOK, Advances
<1>7. latest' \in [Sources -> Heights \cup {0}] /\ retired' \subseteq Sources
  BY <1>1, <1>2, MinerFields, Left DEF RequestsInv
<1> HIDE DEF n, m
<1>8. MinersOK' /\ miner'[o] = n /\ \A p \in Owners \ {o} : miner'[p] = miner[p]
  BY <1>1, <1>3, <1>6, <1>7, OneMiner DEF RequestsInv
<1>9. \A p \in Owners : Advances(miner[p], miner'[p])
  BY <1>6, <1>8 DEF Advances, m
<1>10. "Rejected" \in Answers
  BY DEF Answers
<1>11. ASSUME NEW q \in DOMAIN log
       PROVE  /\ log'[q] \in RequestType
              /\ log'[q].owner = log[q].owner /\ log'[q].token = log[q].token
              /\ Treated(q)
  <2>1. log[q] \in RequestType /\ Advances(miner[log[q].owner], miner'[log[q].owner])
    BY <1>9, LogFields DEF RequestsInv
  <2>2. CASE q \in mine
    <3> DEFINE lg == answer(log, q, "Rejected")
    <3>1. q \in inflight /\ Owed(q) /\ \A p \in pending : p.req # q
      BY <2>2 DEF Owed, RequestsInv, RequestsOK
    <3>2. log'[q] = lg[q]
      BY <1>1, <2>2
    <3>3. /\ lg \in Seq(RequestType) /\ DOMAIN lg = DOMAIN log
          /\ lg[q].owner = log[q].owner /\ lg[q].token = log[q].token
          /\ miner[log[q].owner].state = "ready" => lg[q].answers = <<"Rejected">>
          /\ miner[log[q].owner].state # "ready" =>
                lg = log /\ miner[log[q].owner].state = "closing"
      BY <1>10, <3>1, AnswerParts DEF RequestsInv
    <3> HIDE DEF lg
    <3>4. lg[q] \in RequestType
      BY <3>3
    <3>5. ~ Owed(q)'
      BY <1>1, <2>2, <3>1 DEF Owed
    <3>6. Treated(q)
      <4>1. CASE miner[log[q].owner].state = "ready"
        BY <1>10, <2>1, <3>1, <3>2, <3>3, <3>5, <4>1 DEF Treated
      <4>2. CASE miner[log[q].owner].state # "ready"
        BY <2>1, <3>2, <3>3, <3>5, <4>2 DEF Treated, Advances
      <4> QED BY <4>1, <4>2
    <3> QED BY <3>2, <3>3, <3>4, <3>6
  <2>3. CASE q \notin mine
    <3>1. log'[q] = log[q]
      BY <1>1, <2>3
    <3>2. Owed(q)' <=> Owed(q)
      BY <1>1, <2>3 DEF Owed
    <3> QED BY <2>1, <3>1, <3>2 DEF Treated
  <2> QED BY <2>2, <2>3
<1>12. DOMAIN log' = DOMAIN log /\ log' \in Seq(RequestType)
  <2>1. log' = [q \in DOMAIN log |-> log'[q]] /\ DOMAIN log = 1..Len(log) /\ Len(log) \in Nat
    BY <1>1, <1>2
  <2>2. \A q \in 1..Len(log) : log'[q] \in RequestType
    BY <1>11, <2>1
  <2>3. log' \in [1..Len(log) -> RequestType]
    BY <2>1, <2>2
  <2> QED BY <2>1, <2>3, FunctionIsSeq
<1>13. RequestsOK' /\ Answering'
  <2>1. inflight' \subseteq DOMAIN log /\ pending' \subseteq pending
        /\ \A p \in pending' : p.req \notin inflight'
    BY <1>1 DEF RequestsInv, RequestsOK
  <2> HIDE DEF mine
  <2> QED BY <1>11, <1>12, <2>1, TreatedRequests DEF RequestsInv
<1> QED BY <1>8, <1>13 DEF RequestsInv

LEMMA NewMinerOK ==
    /\ MinerOK(NewMiner) /\ NewMiner \in MinerType
    /\ NewMiner.state = "new" /\ NewMiner.source = 0
    /\ MinerOK([NewMiner EXCEPT !.state = "gone"])
<1>1. <<>> \in Seq(JobType)
  OBVIOUS
<1>2. NewMiner \in MinerType
  BY <1>1 DEF NewMiner, MinerType, MinerStates
<1>3. [NewMiner EXCEPT !.state = "gone"] \in MinerType
  BY <1>2 DEF MinerType, MinerStates
<1>4. NewMiner.state = "new" /\ NewMiner.deferred = 0 /\ NewMiner.jobs = <<>> /\ NewMiner.source = 0
  BY DEF NewMiner
<1>5. LET g == [NewMiner EXCEPT !.state = "gone"]
      IN  g.deferred = 0 /\ g.jobs = <<>> /\ g.source = 0
  BY DEF NewMiner
<1> QED BY <1>2, <1>3, <1>4, <1>5 DEF MinerOK

LEMMA CloseStep ==
    ASSUME RequestsInv, NEW o \in Owners, Close(o)
    PROVE  RequestsInv'
<1> DEFINE gone == [NewMiner EXCEPT !.state = "gone"]
<1>1. /\ miner[o].state = "closing" /\ inflight' = {q \in inflight : log[q].owner # o}
      /\ pending' = {p \in pending : p.owner # o}
      /\ retire(miner[o].source, o) /\ miner' = [miner EXCEPT ![o] = gone]
      /\ UNCHANGED <<log, useVerifier>>
  BY DEF Close
<1>2. MinerOK(gone) /\ gone.state = "gone"
  BY NewMinerOK DEF NewMiner
<1>3. miner[o] \in MinerType /\ log \in Seq(RequestType)
  BY DEF RequestsInv, MinersOK, RequestsOK
<1>4. latest' \in [Sources -> Heights \cup {0}] /\ retired' \subseteq Sources
  BY <1>1, <1>3, MinerFields, Left DEF RequestsInv
<1> HIDE DEF gone
<1>5. MinersOK' /\ miner'[o] = gone /\ \A p \in Owners \ {o} : miner'[p] = miner[p]
  BY <1>1, <1>2, <1>4, OneMiner DEF RequestsInv
<1>6. ASSUME NEW q \in DOMAIN log PROVE Treated(q)
  <2>1. log[q].owner \in Owners
    BY LogFields DEF RequestsInv
  <2>2. CASE log[q].owner = o
    <3>1. ~ Owed(q)'
      BY <1>1, <2>2 DEF Owed, RequestsInv, RequestsOK
    <3> QED BY <1>1, <1>2, <1>5, <2>2, <3>1 DEF Treated
  <2>3. CASE log[q].owner # o
    <3>1. Owed(q)' <=> Owed(q)
      BY <1>1, <2>3 DEF Owed, RequestsInv, RequestsOK
    <3> QED BY <1>1, <1>5, <2>1, <2>3, <3>1 DEF Treated, Advances
  <2> QED BY <2>2, <2>3
<1>7. RequestsOK' /\ Answering'
  <2>1. inflight' \subseteq DOMAIN log /\ pending' \subseteq pending
        /\ \A p \in pending' : p.req \notin inflight'
    BY <1>1 DEF RequestsInv, RequestsOK
  <2> QED BY <1>1, <1>3, <1>6, <2>1, TreatedRequests DEF RequestsInv
<1> QED BY <1>5, <1>7 DEF RequestsInv

LEMMA QuietRequests ==
    ASSUME RequestsInv, QuietStep
    PROVE  RequestsInv'
<1>1. Quietly
  BY QuietMiners DEF RequestsInv
<1>2. UNCHANGED <<log, pending, inflight>>
  BY DEF QuietStep, Login, Reconnect, NewTemplate, InstallDeferred, ExpireJob, ConnectionLost
<1>3. \A q \in DOMAIN log : Treated(q)
  BY <1>1, <1>2, LogFields DEF Quietly, Treated, Owed, RequestsInv
<1>4. RequestsOK' /\ Answering'
  <2>1. /\ log' \in Seq(RequestType) /\ DOMAIN log' = DOMAIN log
        /\ \A q \in DOMAIN log : log'[q].owner = log[q].owner /\ log'[q].token = log[q].token
        /\ pending' \subseteq pending /\ inflight' \subseteq DOMAIN log
        /\ \A p \in pending' : p.req \notin inflight'
    BY <1>2 DEF RequestsInv, RequestsOK
  <2> QED BY <1>3, <2>1, TreatedRequests DEF RequestsInv
<1> QED BY <1>1, <1>4 DEF RequestsInv, Quietly

LEMMA RequestsInit == Init => RequestsInv
<1> SUFFICES ASSUME Init PROVE RequestsInv
  OBVIOUS
<1>1. MinersOK
  BY NewMinerOK, MinerAssumption DEF Init, MinersOK
<1>2. RequestsOK /\ Answering
  BY DEF Init, RequestsOK, Answering
<1> QED BY <1>1, <1>2 DEF RequestsInv

LEMMA RequestsNext == RequestsInv /\ [Next]_vars => RequestsInv'
<1> SUFFICES ASSUME RequestsInv, [Next]_vars PROVE RequestsInv'
  OBVIOUS
<1>1. CASE QuietStep
  BY <1>1, QuietRequests
<1>2. ASSUME NEW o \in Owners, Disconnect(o) PROVE RequestsInv'
  BY <1>2, DisconnectStep
<1>3. ASSUME NEW o \in Owners, Close(o) PROVE RequestsInv'
  BY <1>3, CloseStep
<1>4. ASSUME NEW o \in Owners, NEW t \in Tokens, NEW n \in Results, NEW c \in Results, Submit(o, t, n, c)
      PROVE  RequestsInv'
  <2>1. PICK m \in Results : \E x : NewShare(o, t, m, c, x)
    BY <1>4, SubmitShare
  <2>2. PICK x : NewShare(o, t, m, c, x)
    BY <2>1
  <2> QED BY <2>2, SubmitStep
<1>5. ASSUME NEW p \in pending, Complete(p) PROVE RequestsInv'
  BY <1>5, CompleteShare, CompleteStep
<1>6. ASSUME NEW q \in inflight, NEW out, DaemonResult(q, out) PROVE RequestsInv'
  BY <1>6, ResultStep
<1>7. CASE UNCHANGED vars
  BY <1>7 DEF vars, RequestsInv, MinersOK, RequestsOK, Answering, Owed
<1> QED BY <1>1, <1>2, <1>3, <1>4, <1>5, <1>6, <1>7 DEF Next, QuietStep

\* The inductive invariant: what a request, its share and its miner have in common,
\* and that exactly the requests that are owed an answer have none.
THEOREM RequestsInvariance == Spec => []RequestsInv
<1> QED BY RequestsInit, RequestsNext, PTL DEF Spec

LEMMA OneOwner ==
    ASSUME RequestsInv
    PROVE  OneAnswer
<1> SUFFICES ASSUME NEW q \in DOMAIN log
             PROVE  LET owners == Cardinality({p \in pending : p.req = q})
                                     + (IF q \in inflight THEN 1 ELSE 0)
                    IN  /\ Len(log[q].answers) + owners <= 1
                        /\ miner[log[q].owner].state = "ready" => Len(log[q].answers) + owners = 1
  BY DEF OneAnswer
<1> DEFINE P == {p \in pending : p.req = q}
           n == Cardinality(P)
           a == Len(log[q].answers)
<1>1. \A p, r \in P : p = r
  BY DEF RequestsInv, RequestsOK
<1>2. CASE \E p \in pending : p.req = q
  <2>1. PICK p \in P : TRUE
    BY <1>2
  <2>2. P = {p}
    BY <1>1, <2>1
  <2>3. n = 1
    BY <2>2, FS_Singleton
  <2>4. q \notin inflight /\ log[q].answers = <<>>
    BY <1>2 DEF RequestsInv, RequestsOK, Answering, Owed
  <2>5. a = 0
    BY <2>4
  <2> HIDE DEF n, a
  <2> QED BY <2>3, <2>4, <2>5 DEF n, a
<1>3. CASE ~ \E p \in pending : p.req = q
  <2>1. P = {}
    BY <1>3
  <2>2. n = 0
    BY <2>1, FS_EmptySet
  <2>3. log[q].answers = <<>> \/ \E v \in Answers : log[q].answers = <<v>>
    BY DEF RequestsInv, Answering
  <2>4. log[q].answers = <<>> => a = 0
    OBVIOUS
  <2>5. (\E v \in Answers : log[q].answers = <<v>>) => a = 1
    OBVIOUS
  <2>6. q \in inflight => log[q].answers = <<>>
    BY DEF RequestsInv, Answering, Owed
  <2>7. miner[log[q].owner].state = "ready" /\ log[q].answers = <<>> => q \in inflight
    BY <1>3 DEF RequestsInv, Answering, Owed
  <2> HIDE DEF n, a
  <2>8. CASE q \in inflight
    BY <2>2, <2>4, <2>6, <2>8 DEF n, a
  <2>9. CASE q \notin inflight
    <3>1. CASE a = 1
      BY <2>2, <2>9, <3>1 DEF n, a
    <3>2. CASE a = 0 /\ miner[log[q].owner].state # "ready"
      BY <2>2, <2>9, <3>2 DEF n, a
    <3> QED BY <2>3, <2>4, <2>5, <2>7, <2>9, <3>1, <3>2
  <2> QED BY <2>8, <2>9
<1> QED BY <1>2, <1>3

\* completeVerification, the SubmitEvent's handlers, the daemon's result and a
\* disconnect between them answer a request at most once, and a request of a
\* connected miner without an answer has one of them still to come.
THEOREM AnsweredOnce == Spec => []OneAnswer
<1>1. RequestsInv => OneAnswer
  BY OneOwner
<1> QED BY <1>1, RequestsInvariance, PTL

(***************************************************************************)
(* The cache, whose own theorems hold of the one the connections share     *)
(***************************************************************************)

LEMMA CacheConstants == CP!CacheAssumption
<1>1. CP!IsFiniteSet(Owners)
  BY MinerAssumption DEF IsFiniteSet, CP!IsFiniteSet
<1> QED BY <1>1, MinerAssumption DEF CP!CacheAssumption

LEMMA SameHelpers ==
    /\ \A c, o : C!detachOwner(c, o) = CP!detachOwner(c, o)
    /\ \A c, s, H : C!attachHeights(c, s, H) = CP!attachHeights(c, s, H)
    /\ \A c, o, s, H : C!registerOwner(c, o, s, H) = CP!registerOwner(c, o, s, H)
    /\ \A c, s, H : C!eraseUnused(c, s, H) = CP!eraseUnused(c, s, H)
    /\ \A c, s, H : C!eraseBuckets(c, s, H) = CP!eraseBuckets(c, s, H)
    /\ C!NoHeights = CP!NoHeights
<1>1. \A c, s, H : C!eraseBuckets(c, s, H) = CP!eraseBuckets(c, s, H)
  BY Zenon DEF C!eraseBuckets, CP!eraseBuckets, C!entriesIn, CP!entriesIn
<1>2. \A c, s, H : C!eraseUnused(c, s, H) = CP!eraseUnused(c, s, H)
  BY <1>1, Zenon DEF C!eraseUnused, CP!eraseUnused, C!Unused, CP!Unused
<1>3. C!NoHeights = CP!NoHeights
  BY DEF C!NoHeights, CP!NoHeights
<1>4. \A c, o : C!detachOwner(c, o) = CP!detachOwner(c, o)
  <2>1. \A c, s, H : C!dropReferences(c, s, H) = CP!dropReferences(c, s, H)
    BY Zenon DEF C!dropReferences, CP!dropReferences
  <2> QED BY <1>2, <1>3, <2>1, Zenon DEF C!detachOwner, CP!detachOwner
<1>5. \A c, s, H : C!attachHeights(c, s, H) = CP!attachHeights(c, s, H)
  BY Zenon DEF C!attachHeights, CP!attachHeights
<1>6. \A c, o, s, H : C!registerOwner(c, o, s, H) = CP!registerOwner(c, o, s, H)
  BY Zenon DEF C!registerOwner, CP!registerOwner
<1> QED BY <1>1, <1>2, <1>3, <1>4, <1>5, <1>6

LEMMA SameOperations ==
    /\ \A c, o : C!removeOwner(c, o) = CP!removeOwner(c, o)
    /\ \A c, o, s, H : C!setOwnerHeights(c, o, s, H) = CP!setOwnerHeights(c, o, s, H)
    /\ \A c, s, h : C!observeHeight(c, s, h) = CP!observeHeight(c, s, h)
    /\ \A c, s : C!removeSource(c, s) = CP!removeSource(c, s)
    /\ \A c, r : C!release(c, r) = CP!release(c, r)
    /\ \A c, s, h, k : C!reserve(c, s, h, k) = CP!reserve(c, s, h, k)
    /\ \A c, s, h, k : C!newReservation(c, s, h, k) = CP!newReservation(c, s, h, k)
    /\ \A c, s, h : C!hasHeight(c, s, h) = CP!hasHeight(c, s, h)
    /\ C!Reservation = CP!Reservation
    /\ C!EmptyCache = CP!EmptyCache
<1>1. \A c, o : C!removeOwner(c, o) = CP!removeOwner(c, o)
  BY SameHelpers, Zenon DEF C!removeOwner, CP!removeOwner
<1>2. \A c, o, s, H : C!setOwnerHeights(c, o, s, H) = CP!setOwnerHeights(c, o, s, H)
  BY SameHelpers, Zenon DEF C!setOwnerHeights, CP!setOwnerHeights
<1>3. \A c, s, h : C!observeHeight(c, s, h) = CP!observeHeight(c, s, h)
  BY SameHelpers, Zenon DEF C!observeHeight, CP!observeHeight
<1>4. \A c, s : C!removeSource(c, s) = CP!removeSource(c, s)
  BY SameHelpers, Zenon DEF C!removeSource, CP!removeSource
<1>5. \A c, r : C!release(c, r) = CP!release(c, r)
  BY Zenon DEF C!release, CP!release
<1>6. \A c, s, h, k : C!newReservation(c, s, h, k) = CP!newReservation(c, s, h, k)
  BY Zenon DEF C!newReservation, CP!newReservation
<1>7. \A c, s, h, k : C!reserve(c, s, h, k) = CP!reserve(c, s, h, k)
  BY <1>6, Zenon DEF C!reserve, CP!reserve
<1>8. \A c, s, h : C!hasHeight(c, s, h) = CP!hasHeight(c, s, h)
  BY Zenon DEF C!hasHeight, CP!hasHeight
<1>9. C!Reservation = CP!Reservation
  BY Zenon DEF C!Reservation, CP!Reservation
<1>10. C!EmptyCache = CP!EmptyCache
  BY Zenon DEF C!EmptyCache, CP!EmptyCache, C!NoHeights, CP!NoHeights
<1> QED BY <1>1, <1>2, <1>3, <1>4, <1>5, <1>6, <1>7, <1>8, <1>9, <1>10

LEMMA SameReserveResult ==
    \A c, s, h, k : C!reserveResult(c, s, h, k) = "Accepted" => CP!reserveResult(c, s, h, k) = "Accepted"
<1>1. \A c : C!size(c) = CP!size(c)
  BY Zenon DEF C!size, CP!size, C!Cardinality, CP!Cardinality
<1>2. \A c, s : C!sourceSize(c, s) = CP!sourceSize(c, s)
  BY Zenon DEF C!sourceSize, CP!sourceSize, C!Cardinality, CP!Cardinality
<1> QED BY <1>1, <1>2, SameOperations, Zenon DEF C!reserveResult, CP!reserveResult

CacheInv(c) == CP!CacheInv(c)

\* What the proofs about connections need to know of a cache.
LEMMA CacheFields ==
    ASSUME NEW c, CacheInv(c)
    PROVE  /\ c \in CP!CacheState
           /\ c.currentHeight \in [Sources -> Heights \cup {0}]
           /\ c.ownerHeights \in [Owners -> CP!OwnerHeights]
           /\ c.buckets \in [Sources -> SUBSET Heights]
           /\ c.entries \subseteq C!Reservation /\ c.sequence \in Nat /\ c.keys \in [Keys -> Nat]
           /\ \A o \in Owners : c.ownerHeights[o].heights = {} => c.ownerHeights[o] = C!NoHeights
<1>1. c \in CP!CacheState /\ CP!OwnersValid(c)
  BY DEF CacheInv, CP!CacheInv, CP!Shape
<1>2. /\ c.currentHeight \in [Sources -> Heights \cup {0}]
      /\ c.ownerHeights \in [Owners -> CP!OwnerHeights]
      /\ c.buckets \in [Sources -> SUBSET Heights]
      /\ c.entries \subseteq C!Reservation /\ c.sequence \in Nat /\ c.keys \in [Keys -> Nat]
  BY <1>1, SameOperations DEF CP!CacheState
<1>3. \A o \in Owners : c.ownerHeights[o].heights = {} => c.ownerHeights[o] = C!NoHeights
  BY <1>1, SameHelpers DEF CP!OwnersValid
<1> QED BY <1>1, <1>2, <1>3

\* The buckets an owner lists are there.
LEMMA ListedHeight ==
    ASSUME NEW c, CacheInv(c), NEW o \in Owners, NEW s \in Sources, NEW h \in Heights,
           c.ownerHeights[o].sourceId = s, h \in c.ownerHeights[o].heights
    PROVE  C!hasHeight(c, s, h)
<1>1. CP!CountsMatch(c) /\ CP!BucketsMatch(c)
  BY DEF CacheInv, CP!CacheInv, CP!Shape
<1>2. c.owners[s][h] = CP!Cardinality(CP!OwnersOf(c, s, h))
  BY <1>1 DEF CP!CountsMatch
<1>3. o \in CP!OwnersOf(c, s, h)
  BY DEF CP!OwnersOf
<1>4. c.owners[s][h] # 0
  BY <1>2, <1>3, CacheConstants, CP!OwnersFinite
<1>5. h \in c.buckets[s]
  BY <1>1, <1>4 DEF CP!BucketsMatch
<1> QED BY <1>5, Constants DEF C!hasHeight

LEMMA EraseUnusedEffect ==
    ASSUME NEW c \in CP!CacheState, NEW s, NEW H
    PROVE  /\ C!eraseUnused(c, s, H).currentHeight = c.currentHeight
           /\ C!eraseUnused(c, s, H).ownerHeights = c.ownerHeights
<1> DEFINE U == C!Unused(c, s, H)
<1>1. C!eraseUnused(c, s, H) = C!eraseBuckets(c, s, U)
  BY DEF C!eraseUnused
<1> HIDE DEF U
<1> DEFINE a == c.entries \ C!entriesIn(c, s, U)
           b == [k \in Keys |-> IF \E e \in C!entriesIn(c, s, U) : e.key = k /\ e.token = c.keys[k]
                                THEN 0 ELSE c.keys[k]]
           e1 == [c.buckets EXCEPT ![s] = c.buckets[s] \ U]
           f == [c.owners EXCEPT ![s] = [h \in Heights |-> IF h \in U THEN 0 ELSE c.owners[s][h]]]
<1>2. C!eraseBuckets(c, s, U) = [c EXCEPT !.entries = a, !.keys = b, !.buckets = e1, !.owners = f]
  BY DEF C!eraseBuckets
<1> HIDE DEF a, b, e1, f
<1> QED BY <1>1, <1>2 DEF CP!CacheState

LEMMA DetachEffect ==
    ASSUME NEW c \in CP!CacheState, NEW o \in Owners,
           c.ownerHeights[o].heights = {} => c.ownerHeights[o] = C!NoHeights
    PROVE  LET d == C!detachOwner(c, o)
           IN  /\ d.currentHeight = c.currentHeight
               /\ d.ownerHeights = [c.ownerHeights EXCEPT ![o] = C!NoHeights]
<1> DEFINE s == c.ownerHeights[o].sourceId
           P == c.ownerHeights[o].heights
           R == C!dropReferences(c, s, P)
           O == [c.ownerHeights EXCEPT ![o] = C!NoHeights]
           m == [c EXCEPT !.ownerHeights = O, !.owners = R]
<1>1. C!detachOwner(c, o) = IF P = {} THEN c ELSE C!eraseUnused(m, s, P)
  BY DEF C!detachOwner
<1>2. CASE P = {}
  <2>1. O = c.ownerHeights
    BY <1>2 DEF CP!CacheState
  <2> QED BY <1>1, <1>2, <2>1
<1>3. CASE P # {}
  <2>1. c.owners \in [Sources -> [Heights -> Nat]] /\ c.ownerHeights \in [Owners -> CP!OwnerHeights]
    BY DEF CP!CacheState
  <2>2. s \in Sources \cup {0} /\ P \subseteq Heights
    BY <2>1 DEF CP!OwnerHeights
  <2>3. R \in [Sources -> [Heights -> Nat]]
    <3>1. CASE s \in Sources
      <4> DEFINE g == [h \in Heights |-> IF h \in P /\ h \in c.buckets[s] /\ c.owners[s][h] # 0
                                         THEN c.owners[s][h] - 1 ELSE c.owners[s][h]]
      <4>1. g \in [Heights -> Nat]
        BY <2>1, <3>1
      <4>2. R = [c.owners EXCEPT ![s] = g]
        BY DEF C!dropReferences
      <4> HIDE DEF g, R, s, P
      <4> QED BY <2>1, <4>1, <4>2
    <3>2. CASE s \notin Sources
      <4> DEFINE g == [h \in Heights |-> IF h \in P /\ h \in c.buckets[s] /\ c.owners[s][h] # 0
                                         THEN c.owners[s][h] - 1 ELSE c.owners[s][h]]
      <4>1. R = [c.owners EXCEPT ![s] = g]
        BY DEF C!dropReferences
      <4> HIDE DEF g, R, s, P
      <4> QED BY <2>1, <3>2, <4>1
    <3> QED BY <3>1, <3>2
  <2>4. O \in [Owners -> CP!OwnerHeights]
    BY <2>1 DEF CP!OwnerHeights, C!NoHeights
  <2> HIDE DEF R, O, s, P
  <2>5. m \in CP!CacheState
    BY <2>3, <2>4 DEF CP!CacheState
  <2>6. m.currentHeight = c.currentHeight /\ m.ownerHeights = O
    BY DEF CP!CacheState
  <2> HIDE DEF m
  <2>7. /\ C!eraseUnused(m, s, P).currentHeight = m.currentHeight
        /\ C!eraseUnused(m, s, P).ownerHeights = m.ownerHeights
    BY <2>5, EraseUnusedEffect
  <2> QED BY <1>1, <1>3, <2>6, <2>7 DEF O
<1> QED BY <1>2, <1>3

LEMMA RemoveOwnerEffect ==
    ASSUME NEW c, CacheInv(c), NEW o \in Owners, NEW d, d = C!removeOwner(c, o)
    PROVE  /\ CacheInv(d) /\ CP!Keeps(c, d) /\ d.currentHeight = c.currentHeight
           /\ \A p \in Owners : d.ownerHeights[p] =
                 IF p = o /\ o # 0 THEN C!NoHeights ELSE c.ownerHeights[p]
<1>1. c \in CP!CacheState /\ c.ownerHeights \in [Owners -> CP!OwnerHeights]
      /\ (c.ownerHeights[o].heights = {} => c.ownerHeights[o] = C!NoHeights)
  BY CacheFields
<1>2. CASE o = 0
  BY <1>2 DEF C!removeOwner, CP!Keeps
<1>3. CASE o # 0
  <2>1. d = C!detachOwner(c, o)
    BY <1>3 DEF C!removeOwner
  <2>2. d.currentHeight = c.currentHeight /\ d.ownerHeights = [c.ownerHeights EXCEPT ![o] = C!NoHeights]
    BY <1>1, <2>1, DetachEffect
  <2>3. d = CP!detachOwner(c, o)
    BY <2>1, SameHelpers
  <2>4. CacheInv(d) /\ CP!Keeps(c, d)
    BY <2>3, CacheConstants, CP!RemoveOwnerInv DEF CacheInv
  <2> QED BY <1>1, <1>3, <2>2, <2>4
<1> QED BY <1>2, <1>3

LEMMA SetHeightsEffect ==
    ASSUME NEW c, CacheInv(c), NEW o \in Owners, NEW s \in Sources, NEW H \in SUBSET Heights,
           NEW d, d = C!setOwnerHeights(c, o, s, H)
    PROVE  /\ CacheInv(d) /\ CP!Keeps(c, d) /\ d.currentHeight = c.currentHeight
           /\ \A p \in Owners : d.ownerHeights[p] =
                 IF p = o /\ o # 0
                 THEN IF H = {} THEN C!NoHeights ELSE [sourceId |-> s, heights |-> H]
                 ELSE c.ownerHeights[p]
<1>1. /\ c \in CP!CacheState /\ c.ownerHeights \in [Owners -> CP!OwnerHeights]
      /\ (c.ownerHeights[o].heights = {} => c.ownerHeights[o] = C!NoHeights)
      /\ H \ {0} = H /\ s # 0
  BY CacheFields, Constants
<1>2. CacheInv(d) /\ CP!Keeps(c, d)
  BY SameOperations, CacheConstants, CP!SetOwnerHeightsInv DEF CacheInv
<1>3. CASE o = 0
  BY <1>2, <1>3 DEF C!setOwnerHeights
<1>4. CASE o # 0 /\ H = {}
  <2>1. d = C!detachOwner(c, o)
    BY <1>1, <1>4 DEF C!setOwnerHeights
  <2>2. d.currentHeight = c.currentHeight /\ d.ownerHeights = [c.ownerHeights EXCEPT ![o] = C!NoHeights]
    BY <1>1, <2>1, DetachEffect
  <2> QED BY <1>1, <1>2, <1>4, <2>2
<1>5. CASE o # 0 /\ H # {}
  <2> DEFINE a == C!attachHeights(c, s, H)
             b == C!detachOwner(a, o)
             O == [b.ownerHeights EXCEPT ![o] = [sourceId |-> s, heights |-> H]]
  <2>1. d = [b EXCEPT !.ownerHeights = O]
    BY <1>1, <1>5 DEF C!setOwnerHeights, C!registerOwner
  <2>2. a = CP!attachHeights(c, s, H) /\ CP!Shape(c)
    BY SameHelpers DEF CacheInv, CP!CacheInv
  <2>3. CP!Shape(a) /\ a.ownerHeights = c.ownerHeights
    BY <2>2, CacheConstants, CP!AttachFields
  <2>4. a.currentHeight = c.currentHeight
    <3> DEFINE x == [c.buckets EXCEPT ![s] = c.buckets[s] \cup H]
               y == [c.owners EXCEPT ![s] = [h \in Heights |->
                                       IF h \in H THEN c.owners[s][h] + 1 ELSE c.owners[s][h]]]
    <3>1. a = [c EXCEPT !.buckets = x, !.owners = y]
      BY DEF C!attachHeights
    <3> HIDE DEF x, y, a
    <3> QED BY <1>1, <3>1 DEF CP!CacheState
  <2> HIDE DEF a
  <2>5. a \in CP!CacheState
    BY <2>3 DEF CP!Shape
  <2>6. b.currentHeight = c.currentHeight /\ b.ownerHeights = [c.ownerHeights EXCEPT ![o] = C!NoHeights]
    BY <1>1, <2>3, <2>4, <2>5, DetachEffect
  <2> HIDE DEF b
  <2>7. d \in CP!CacheState
    BY <1>2, CacheFields
  <2>8. d.ownerHeights = O /\ d.currentHeight = b.currentHeight
    <3> HIDE DEF O
    <3>1. DOMAIN b = DOMAIN d
      BY <2>1
    <3>2. DOMAIN d = {"currentHeight", "buckets", "owners", "entries", "keys", "ownerHeights", "sequence"}
      BY <2>7 DEF CP!CacheState
    <3> QED BY <2>1, <3>1, <3>2
  <2>9. \A p \in Owners : O[p] = IF p = o THEN [sourceId |-> s, heights |-> H] ELSE c.ownerHeights[p]
    BY <1>1, <2>6
  <2> HIDE DEF O
  <2> QED BY <1>2, <1>5, <2>6, <2>8, <2>9
<1> QED BY <1>3, <1>4, <1>5

LEMMA ObserveEffect ==
    ASSUME NEW c, CacheInv(c), NEW s \in Sources, NEW h \in Heights, NEW d, d = C!observeHeight(c, s, h)
    PROVE  /\ CacheInv(d) /\ CP!Keeps(c, d) /\ d.ownerHeights = c.ownerHeights
           /\ \A t \in Sources : d.currentHeight[t] = IF t = s THEN h ELSE c.currentHeight[t]
<1>1. c \in CP!CacheState /\ c.currentHeight \in [Sources -> Heights \cup {0}]
      /\ c.buckets \in [Sources -> SUBSET Heights] /\ s # 0 /\ h # 0
  BY CacheFields, Constants
<1>2. CacheInv(d) /\ CP!Keeps(c, d)
  BY SameOperations, CacheConstants, CP!ObserveHeightInv DEF CacheInv
<1> DEFINE x == [c.currentHeight EXCEPT ![s] = h]
           y == [c.buckets EXCEPT ![s] = c.buckets[s] \cup {h}]
           m == [c EXCEPT !.currentHeight = x, !.buckets = y]
<1>3. d = C!eraseUnused(m, s, Heights)
  BY <1>1 DEF C!observeHeight
<1>4. /\ x \in [Sources -> Heights \cup {0}] /\ y \in [Sources -> SUBSET Heights]
      /\ \A t \in Sources : x[t] = IF t = s THEN h ELSE c.currentHeight[t]
  BY <1>1
<1> HIDE DEF x, y
<1>5. m \in CP!CacheState
  BY <1>1, <1>4 DEF CP!CacheState
<1>6. m.currentHeight = x /\ m.ownerHeights = c.ownerHeights
  BY <1>1 DEF CP!CacheState
<1> HIDE DEF m
<1>7. d.currentHeight = m.currentHeight /\ d.ownerHeights = m.ownerHeights
  BY <1>3, <1>5, EraseUnusedEffect
<1> QED BY <1>2, <1>4, <1>6, <1>7

LEMMA RemoveSourceEffect ==
    ASSUME NEW c, CacheInv(c), NEW s \in Sources, NEW d, d = C!removeSource(c, s)
    PROVE  /\ CacheInv(d) /\ CP!Keeps(c, d)
           /\ \A t \in Sources : d.currentHeight[t] = IF t = s THEN 0 ELSE c.currentHeight[t]
           /\ \A p \in Owners : d.ownerHeights[p] =
                 IF c.ownerHeights[p].sourceId = s THEN C!NoHeights ELSE c.ownerHeights[p]
<1>1. c \in CP!CacheState /\ c.currentHeight \in [Sources -> Heights \cup {0}]
  BY CacheFields
<1>2. CacheInv(d) /\ CP!Keeps(c, d)
  BY SameOperations, CacheConstants, CP!RemoveSourceInv DEF CacheInv
<1> DEFINE b == C!eraseBuckets(c, s, Heights)
           x == [c.currentHeight EXCEPT ![s] = 0]
           y == [o \in Owners |-> IF c.ownerHeights[o].sourceId = s THEN C!NoHeights ELSE c.ownerHeights[o]]
<1>3. d = [b EXCEPT !.currentHeight = x, !.ownerHeights = y]
  BY DEF C!removeSource
<1> HIDE DEF b, x, y
<1>4. d \in CP!CacheState
  BY <1>2, CacheFields
<1>5. DOMAIN d = DOMAIN b
  BY <1>3
<1>6. DOMAIN d = {"currentHeight", "buckets", "owners", "entries", "keys", "ownerHeights", "sequence"}
  BY <1>4 DEF CP!CacheState
<1>7. d.currentHeight = x /\ d.ownerHeights = y
  BY <1>3, <1>5, <1>6
<1>8. \A t \in Sources : x[t] = IF t = s THEN 0 ELSE c.currentHeight[t]
  BY <1>1 DEF x
<1>9. \A p \in Owners : y[p] = IF c.ownerHeights[p].sourceId = s THEN C!NoHeights ELSE c.ownerHeights[p]
  BY DEF y
<1> QED BY <1>2, <1>7, <1>8, <1>9

\* Reserving and releasing leave the references alone.
SameReferences(c, d) ==
    d.currentHeight = c.currentHeight /\ d.ownerHeights = c.ownerHeights /\ d.buckets = c.buckets

LEMMA ReleaseEffect ==
    ASSUME NEW c, CacheInv(c), NEW r
    PROVE  /\ CacheInv(C!release(c, r)) /\ SameReferences(c, C!release(c, r))
           /\ C!release(c, r).entries = c.entries \ {r} /\ C!release(c, r).sequence = c.sequence
<1> DEFINE d == C!release(c, r)
<1>1. c \in CP!CacheState /\ c.entries \subseteq C!Reservation
  BY CacheFields
<1>2. CASE r \notin c.entries
  <2>1. d = c
    BY <1>2 DEF C!release
  <2> QED BY <1>2, <2>1 DEF SameReferences
<1>3. CASE r \in c.entries
  <2>1. r \in CP!Reservation /\ d = CP!release(c, r)
    BY <1>1, <1>3, SameOperations
  <2>2. CacheInv(d) /\ d.entries = c.entries \ {r} /\ d.sequence = c.sequence
    BY <2>1, CacheConstants, CP!ReleaseInv DEF CacheInv
  <2>3. SameReferences(c, d)
    <3> DEFINE x == c.entries \ {r}
               y == [k \in Keys |-> IF k = r.key /\ c.keys[k] = r.token THEN 0 ELSE c.keys[k]]
    <3>1. d = [c EXCEPT !.entries = x, !.keys = y]
      BY <1>3 DEF C!release
    <3> HIDE DEF x, y, d
    <3> QED BY <1>1, <3>1 DEF SameReferences, CP!CacheState
  <2> QED BY <2>2, <2>3
<1> QED BY <1>2, <1>3

LEMMA Release2Effect ==
    ASSUME NEW c, CacheInv(c), NEW res
    PROVE  /\ CacheInv(release2(c, res)) /\ SameReferences(c, release2(c, res))
           /\ release2(c, res).entries = c.entries \ {res.global, res.computed}
           /\ release2(c, res).sequence = c.sequence
<1> DEFINE d == C!release(c, res.global)
           e == C!release(d, res.computed)
<1>1. release2(c, res) = e
  BY DEF release2
<1>2. CacheInv(d) /\ SameReferences(c, d) /\ d.entries = c.entries \ {res.global} /\ d.sequence = c.sequence
  BY ReleaseEffect
<1> HIDE DEF d
<1>3. CacheInv(e) /\ SameReferences(d, e) /\ e.entries = d.entries \ {res.computed} /\ e.sequence = d.sequence
  BY <1>2, ReleaseEffect
<1> HIDE DEF e
<1> QED BY <1>1, <1>2, <1>3 DEF SameReferences

LEMMA ReserveEffect ==
    ASSUME NEW c, CacheInv(c), NEW s \in Sources, NEW h \in Heights, NEW k \in Keys,
           C!reserveResult(c, s, h, k) = "Accepted",
           NEW d, d = C!reserve(c, s, h, k), NEW r, r = C!newReservation(c, s, h, k)
    PROVE  /\ CacheInv(d) /\ SameReferences(c, d) /\ r \in C!Reservation
           /\ d.entries = c.entries \cup {r} /\ d.sequence = c.sequence + 1
           /\ r.key = k /\ r.sourceId = s /\ r.height = h /\ r.token = c.sequence + 1
<1>1. c \in CP!CacheState
  BY CacheFields
<1>2. CP!reserveResult(c, s, h, k) = "Accepted" /\ d = CP!reserve(c, s, h, k)
      /\ r = CP!newReservation(c, s, h, k)
  BY SameReserveResult, SameOperations
<1>3. /\ CacheInv(d) /\ r \in C!Reservation /\ d.entries = c.entries \cup {r}
      /\ d.sequence = c.sequence + 1
  BY <1>2, CacheConstants, CP!ReserveInv, SameOperations DEF CacheInv
<1>4. r.key = k /\ r.sourceId = s /\ r.height = h /\ r.token = c.sequence + 1
  BY DEF C!newReservation
<1>5. SameReferences(c, d)
  <2> DEFINE x == c.sequence + 1
             y == c.entries \cup {C!newReservation(c, s, h, k)}
             z == [c.keys EXCEPT ![k] = c.sequence + 1]
  <2>1. d = [c EXCEPT !.sequence = x, !.entries = y, !.keys = z]
    BY DEF C!reserve
  <2> HIDE DEF x, y, z
  <2> QED BY <1>1, <2>1 DEF SameReferences, CP!CacheState
<1> QED BY <1>3, <1>4, <1>5

(***************************************************************************)
(* Sources and buckets                                                     *)
(***************************************************************************)

\* A source is live until its last client leaves, and its clients have one id;
\* the jobs of a miner are of one client.
SourcesOK ==
    /\ \A o \in Owners : miner[o].source \notin retired
    /\ \A o, p \in Owners : miner[o].source # 0 /\ miner[p].source # 0 =>
          (miner[o].source = miner[p].source <=> miner[o].client = miner[p].client)
    /\ \A o \in Owners : \A i \in DOMAIN miner[o].jobs :
          miner[o].jobs[i].source \notin retired =>
              \E p \in Owners : /\ miner[p].source = miner[o].jobs[i].source
                                /\ miner[p].client = miner[o].jobClient

\* A live job of m that is not stale, unless its source is in R.
InUse(m, i, R) ==
    m.jobs[i].live /\ m.jobs[i].height >= m.jobHeight /\ m.jobs[i].source \notin R

\* The cache c references the heights of the jobs of o that are in use, and none
\* of the sources R that were retired.
Referenced(c, o, m, R) ==
    /\ c.ownerHeights[o].sourceId \notin R
    /\ \A i \in DOMAIN m.jobs : InUse(m, i, R) =>
          /\ c.ownerHeights[o].sourceId = m.jobs[i].source
          /\ m.jobs[i].height \in c.ownerHeights[o].heights

References ==
    /\ CacheInv(cache)
    /\ \A o \in Owners : Referenced(cache, o, miner[o], retired)
    /\ \A s \in retired : cache.currentHeight[s] = 0
    /\ IsFiniteSet(pending)
    /\ \A p \in pending : p.res.global.sourceId \in Sources /\ p.res.global.height \in Heights

BucketsInv == SourcesOK /\ References

\* The jobs of n are jobs of m, or made of the template of its own source.
JobsFrom(m, n) ==
    \A i \in DOMAIN n.jobs :
        \/ /\ n.jobClient = m.jobClient
           /\ \E j \in DOMAIN m.jobs : n.jobs[i].source = m.jobs[j].source
        \/ n.source = n.jobs[i].source /\ n.client = n.jobClient

\* The sources that are still there have a client with the id of their clients.
Present ==
    \A p \in Owners : miner[p].source # 0 /\ miner[p].source \notin retired' =>
        \E r \in Owners : miner'[r].source = miner[p].source /\ miner'[r].client = miner[p].client

LEMMA SourcesStep ==
    ASSUME MinersOK, MinersOK', SourcesOK, retired \subseteq retired', Present,
           \A o \in Owners : miner'[o].source \notin retired',
           \A o, p \in Owners : miner'[o].source # 0 /\ miner'[p].source # 0 =>
              (miner'[o].source = miner'[p].source <=> miner'[o].client = miner'[p].client),
           \A o \in Owners : JobsFrom(miner[o], miner'[o])
    PROVE  SourcesOK'
<1> SUFFICES ASSUME NEW o \in Owners, NEW i \in DOMAIN miner'[o].jobs,
                    miner'[o].jobs[i].source \notin retired'
             PROVE  \E p \in Owners : /\ miner'[p].source = miner'[o].jobs[i].source
                                      /\ miner'[p].client = miner'[o].jobClient
  BY DEF SourcesOK
<1>1. CASE miner'[o].source = miner'[o].jobs[i].source /\ miner'[o].client = miner'[o].jobClient
  BY <1>1
<1>2. CASE /\ miner'[o].jobClient = miner[o].jobClient
           /\ \E j \in DOMAIN miner[o].jobs : miner'[o].jobs[i].source = miner[o].jobs[j].source
  <2>1. PICK j \in DOMAIN miner[o].jobs : miner'[o].jobs[i].source = miner[o].jobs[j].source
    BY <1>2
  <2>2. miner[o].jobs[j].source \notin retired
    BY <2>1
  <2>3. PICK p \in Owners : /\ miner[p].source = miner[o].jobs[j].source
                            /\ miner[p].client = miner[o].jobClient
    BY <2>2 DEF SourcesOK
  <2>4. miner[o].jobs[j].source # 0
    <3>1. miner[o] \in MinerType
      BY DEF MinersOK
    <3>2. miner[o].jobs[j] \in JobType
      BY <3>1, MinerFields
    <3> QED BY <3>2, Constants DEF JobType
  <2>5. PICK r \in Owners : miner'[r].source = miner[p].source /\ miner'[r].client = miner[p].client
    BY <2>1, <2>3, <2>4 DEF Present
  <2> QED BY <1>2, <2>1, <2>3, <2>5
<1> QED BY <1>1, <1>2 DEF JobsFrom

\* Nobody connects, leaves or changes its client.
LEMMA SourcesKept ==
    ASSUME MinersOK, MinersOK', SourcesOK, UNCHANGED retired,
           \A o \in Owners : /\ miner'[o].source = miner[o].source
                             /\ miner'[o].client = miner[o].client
                             /\ JobsFrom(miner[o], miner'[o])
    PROVE  SourcesOK'
<1>1. Present
  BY DEF Present
<1>2. \A o \in Owners : miner'[o].source \notin retired'
  BY DEF SourcesOK
<1>3. \A o, p \in Owners : miner'[o].source # 0 /\ miner'[p].source # 0 =>
              (miner'[o].source = miner'[p].source <=> miner'[o].client = miner'[p].client)
  BY DEF SourcesOK
<1> QED BY <1>1, <1>2, <1>3, SourcesStep

\* One miner connects to a source that its pool may use.
LEMMA SourcesConnect ==
    ASSUME MinersOK, MinersOK', SourcesOK, UNCHANGED retired,
           NEW o \in Owners, NEW s \in Sources, NEW cl, acquirable(s, cl), miner[o].source = 0,
           miner'[o].source = s, miner'[o].client = cl, JobsFrom(miner[o], miner'[o]),
           \A p \in Owners \ {o} : miner'[p] = miner[p]
    PROVE  SourcesOK'
<1>1. Present
  BY DEF Present
<1>2. \A p \in Owners : miner'[p].source \notin retired'
  BY DEF SourcesOK, acquirable
<1>3. \A p, r \in Owners : miner'[p].source # 0 /\ miner'[r].source # 0 =>
              (miner'[p].source = miner'[r].source <=> miner'[p].client = miner'[r].client)
  BY DEF SourcesOK, acquirable
<1>4. \A p \in Owners : JobsFrom(miner[p], miner'[p])
  BY DEF JobsFrom
<1> QED BY <1>1, <1>2, <1>3, <1>4, SourcesStep

\* One miner leaves its source, and retires it when it was the last.
LEMMA SourcesLeft ==
    ASSUME MinersOK, MinersOK', SourcesOK, NEW o \in Owners, retire(miner[o].source, o),
           miner'[o].source = 0, JobsFrom(miner[o], miner'[o]),
           \A p \in Owners \ {o} : miner'[p] = miner[p]
    PROVE  SourcesOK'
<1> DEFINE s == miner[o].source
<1>1. s \in Sources \cup {0} /\ 0 \notin Sources /\ 0 \notin retired
  BY MinerFields, Constants DEF MinersOK
<1>2. retired' = IF s # 0 /\ subscribers(s) = {o} THEN retired \cup {s} ELSE retired
  BY DEF retire
<1>3. \A p \in Owners : miner'[p].source \notin retired'
  BY <1>1, <1>2 DEF SourcesOK, subscribers
<1>4. Present
  <2> SUFFICES ASSUME NEW p \in Owners, miner[p].source # 0, miner[p].source \notin retired'
               PROVE  \E r \in Owners : /\ miner'[r].source = miner[p].source
                                        /\ miner'[r].client = miner[p].client
    BY DEF Present
  <2>1. CASE p # o
    BY <2>1
  <2>2. CASE p = o
    <3>1. subscribers(s) # {o} /\ o \in subscribers(s)
      BY <1>2, <2>2 DEF subscribers
    <3>2. PICK r \in Owners : r # o /\ miner[r].source = s
      BY <3>1 DEF subscribers
    <3>3. miner[r].client = miner[o].client
      BY <2>2, <3>2 DEF SourcesOK
    <3> QED BY <2>2, <3>2, <3>3
  <2> QED BY <2>1, <2>2
<1>5. \A p, r \in Owners : miner'[p].source # 0 /\ miner'[r].source # 0 =>
              (miner'[p].source = miner'[r].source <=> miner'[p].client = miner'[r].client)
  BY DEF SourcesOK
<1>6. \A p \in Owners : JobsFrom(miner[p], miner'[p])
  BY DEF JobsFrom
<1> QED BY <1>2, <1>3, <1>4, <1>5, <1>6, SourcesStep

-----------------------------------------------------------------------------
\* The cache c is one in which the references of o have become those of its new
\* state n and the others are as they were in b.
Rereferenced(b, c, o, n, R) ==
    /\ CacheInv(c) /\ c.currentHeight = b.currentHeight
    /\ Referenced(c, o, n, R)
    /\ \A p \in Owners \ {o} : c.ownerHeights[p] = b.ownerHeights[p]

\* The jobs of m that its mapper keeps are of the source of its client.
OwnJobs(m, R) ==
    m.jobClient = m.client =>
        \A i \in DOMAIN m.jobs : m.jobs[i].source \notin R => m.jobs[i].source = m.source

LEMMA SourceOwnJobs ==
    ASSUME MinersOK, SourcesOK, NEW o \in Owners, miner[o].source # 0
    PROVE  OwnJobs(miner[o], retired)
<1> SUFFICES ASSUME miner[o].jobClient = miner[o].client, NEW i \in DOMAIN miner[o].jobs,
                    miner[o].jobs[i].source \notin retired
             PROVE  miner[o].jobs[i].source = miner[o].source
  BY DEF OwnJobs
<1>1. PICK p \in Owners : /\ miner[p].source = miner[o].jobs[i].source
                          /\ miner[p].client = miner[o].jobClient
  BY DEF SourcesOK
<1>2. miner[o].jobs[i].source # 0
  <2>1. miner[o].jobs[i] \in JobType
    BY MinerFields DEF MinersOK
  <2> QED BY <2>1, Constants DEF JobType
<1> QED BY <1>1, <1>2 DEF SourcesOK

\* The jobs of n are jobs its mapper kept, or of its source.
JobsKept(old, n) ==
    \A i \in DOMAIN n.jobs :
        \/ n.jobs[i].source = old.source
        \/ old.jobClient = old.client /\ \E j \in DOMAIN old.jobs : n.jobs[i] = old.jobs[j]

LEMMA SentJobs ==
    ASSUME NEW old \in MinerType, old.source \in Sources, NEW h \in Heights,
           NEW n, n = sentMiner(base(old), h)
    PROVE  /\ n \in MinerType /\ n.jobHeight = h
           /\ n.source = old.source /\ n.client = old.client /\ n.jobClient = old.client
           /\ JobsKept(old, n)
<1> DEFINE m == base(old)
<1>1. /\ m \in MinerType /\ m.state = old.state /\ m.source = old.source
      /\ m.client = old.client /\ m.jobClient = old.client
      /\ old.jobClient = old.client => m.jobs = old.jobs
      /\ old.jobClient # old.client => m.jobs = <<>>
  BY BaseFields
<1>3. n = sentMiner(m, h)
  OBVIOUS
<1> HIDE DEF m
<1>4. m.source \in Sources
  BY <1>1
<1>5. /\ n \in MinerType /\ n.state = "ready" /\ n.source = m.source /\ n.client = m.client
      /\ n.jobClient = m.jobClient /\ n.deferred = m.deferred /\ n.jobHeight = h
      /\ n.sequence = m.sequence + 1 /\ n.generation = m.generation
      /\ \A i \in DOMAIN n.jobs : IF i = 1 THEN n.jobs[i] = newJob(m, h)
                                  ELSE i - 1 \in DOMAIN m.jobs /\ n.jobs[i] = m.jobs[i - 1]
  <2>1. m \in MinerType
    BY <1>1
  <2> QED BY <2>1, <1>3, <1>4, Remembered
<1>6. newJob(m, h).source = old.source
  BY <1>1 DEF newJob
<1>7. ASSUME NEW i \in DOMAIN n.jobs
      PROVE  \/ n.jobs[i].source = old.source
             \/ old.jobClient = old.client /\ \E j \in DOMAIN old.jobs : n.jobs[i] = old.jobs[j]
  <2>1. CASE i = 1
    BY <1>5, <1>6, <2>1
  <2>2. CASE i # 1
    <3>1. i - 1 \in DOMAIN m.jobs /\ n.jobs[i] = m.jobs[i - 1]
      BY <1>5, <2>2
    <3>2. m.jobs = old.jobs /\ old.jobClient = old.client
      <4>1. m.jobs # <<>>
        BY <3>1
      <4> QED BY <1>1, <4>1
    <3> QED BY <3>1, <3>2
  <2> QED BY <2>1, <2>2
<1>8. JobsKept(old, n)
  BY <1>7 DEF JobsKept
<1> QED BY <1>1, <1>3, <1>5, <1>8 DEF m

\* A job that was not sent leaves the others, or none when they were of another
\* client.
LEMMA UnsentJobs ==
    ASSUME NEW old \in MinerType, NEW h, NEW written, ~ isWritable(old) \/ ~ written,
           NEW n, n = jobMiner(old, h, written)
    PROVE  /\ n \in MinerType /\ n.source = old.source /\ n.client = old.client
           /\ n.jobClient = old.client
           /\ old.jobClient = old.client => n.jobs = old.jobs /\ n.jobHeight = old.jobHeight
           /\ old.jobClient # old.client => n.jobs = <<>>
<1> DEFINE m == base(old)
<1>1. /\ m \in MinerType /\ m.state = old.state /\ m.source = old.source
      /\ m.client = old.client /\ m.jobClient = old.client
      /\ old.jobClient = old.client => m.jobs = old.jobs /\ m.jobHeight = old.jobHeight
      /\ old.jobClient # old.client => m.jobs = <<>>
  BY BaseFields
<1>2. isWritable(m) <=> isWritable(old)
  BY <1>1 DEF isWritable
<1>3. n = IF ~ isWritable(m) THEN m ELSE shutdown(m)
  BY <1>2 DEF jobMiner
<1> HIDE DEF m
<1>4. SameBut(m, shutdown(m)) /\ SameBut(m, m)
  BY <1>1, Shutdown DEF SameBut
<1>5. SameBut(m, n)
  BY <1>3, <1>4
<1> QED BY <1>1, <1>5 DEF SameBut

LEMMA SentNow ==
    ASSUME NEW old \in MinerType, isWritable(old), NEW h, NEW written, written
    PROVE  jobMiner(old, h, written) = sentMiner(base(old), h)
<1>1. base(old).state = old.state
  BY BaseFields
<1> QED BY <1>1 DEF jobMiner, sentMiner, isWritable

LEMMA JobMinerFrom ==
    ASSUME NEW old \in MinerType, old.source \in Sources, NEW h \in Heights,
           NEW written \in BOOLEAN, NEW n, n = jobMiner(old, h, written)
    PROVE  n.source = old.source /\ n.client = old.client /\ JobsFrom(old, n)
<1>1. CASE isWritable(old) /\ written
  <2>1. n = sentMiner(base(old), h)
    BY <1>1, SentNow
  <2>2. /\ n.source = old.source /\ n.client = old.client /\ n.jobClient = old.client
        /\ JobsKept(old, n)
    BY <2>1, SentJobs
  <2> QED BY <2>2 DEF JobsFrom, JobsKept
<1>2. CASE ~ isWritable(old) \/ ~ written
  <2>1. /\ n.source = old.source /\ n.client = old.client /\ n.jobClient = old.client
        /\ old.jobClient = old.client => n.jobs = old.jobs /\ n.jobHeight = old.jobHeight
        /\ old.jobClient # old.client => n.jobs = <<>>
    BY <1>2, UnsentJobs
  <2>2. CASE old.jobClient = old.client
    BY <2>1, <2>2 DEF JobsFrom
  <2>3. CASE old.jobClient # old.client
    BY <2>1, <2>3 DEF JobsFrom
  <2> QED BY <2>1, <2>2, <2>3
<1> QED BY <1>1, <1>2

LEMMA TemplateMinerFrom ==
    ASSUME NEW old \in MinerType, old.source \in Sources, NEW h \in Heights,
           NEW ready \in BOOLEAN, NEW written \in BOOLEAN, NEW n, n = templateMiner(old, h, ready, written)
    PROVE  n.source = old.source /\ n.client = old.client /\ JobsFrom(old, n)
<1>1. CASE ready
  BY <1>1, JobMinerFrom DEF templateMiner
<1>2. CASE ~ ready
  <2>1. n = [old EXCEPT !.deferred = h]
    BY <1>2 DEF templateMiner
  <2>2. /\ n.source = old.source /\ n.client = old.client /\ n.jobs = old.jobs
        /\ n.jobClient = old.jobClient
    BY <2>1 DEF MinerType
  <2> QED BY <2>2 DEF JobsFrom
<1> QED BY <1>1, <1>2

\* Of a job that is sent, rebuildOwnerHeights references what may be submitted.
LEMMA SentReferences ==
    ASSUME NEW c, CacheInv(c), NEW o \in Owners, o # 0, NEW R,
           NEW old \in MinerType, old.source \in Sources \ R, OwnJobs(old, R),
           NEW h \in Heights, NEW n, n = sentMiner(base(old), h),
           NEW d, d = C!setOwnerHeights(c, o, old.source, eligibleHeights(n, old.source)),
           0 \notin R
    PROVE  Rereferenced(c, d, o, n, R)
<1> DEFINE s == old.source
           H == eligibleHeights(n, s)
<1>1. n \in MinerType /\ JobsKept(old, n)
  BY SentJobs
<1>2. \A i \in DOMAIN n.jobs : n.jobs[i].source \notin R => n.jobs[i].source = s
  BY <1>1 DEF OwnJobs, JobsKept
<1>3. H \in SUBSET Heights
  <2>0. n.jobs \in Seq(JobType)
    BY <1>1, MinerFields
  <2>1. ASSUME NEW i \in DOMAIN n.jobs PROVE n.jobs[i].height \in Heights
    <3>1. n.jobs[i] \in JobType
      BY <2>0
    <3> QED BY <3>1 DEF JobType
  <2> QED BY <2>1 DEF eligibleHeights
<1>4. \A i \in DOMAIN n.jobs : InUse(n, i, R) => n.jobs[i].source = s /\ n.jobs[i].height \in H
  BY <1>2 DEF InUse, eligibleHeights
<1> HIDE DEF H
<1>5. /\ CacheInv(d) /\ d.currentHeight = c.currentHeight
      /\ \A p \in Owners : d.ownerHeights[p] =
            IF p = o THEN IF H = {} THEN C!NoHeights ELSE [sourceId |-> s, heights |-> H]
            ELSE c.ownerHeights[p]
  <2>1. d = C!setOwnerHeights(c, o, s, H) /\ s \in Sources
    BY DEF H
  <2> HIDE DEF s
  <2>2. /\ CacheInv(d) /\ d.currentHeight = c.currentHeight
        /\ \A p \in Owners : d.ownerHeights[p] =
              IF p = o /\ o # 0 THEN IF H = {} THEN C!NoHeights ELSE [sourceId |-> s, heights |-> H]
              ELSE c.ownerHeights[p]
    BY <1>3, <2>1, SetHeightsEffect
  <2> QED BY <2>2
<1>6. Referenced(d, o, n, R)
  <2>1. CASE H = {}
    <3>1. d.ownerHeights[o].sourceId = 0
      BY <1>5, <2>1 DEF C!NoHeights
    <3> QED BY <1>4, <2>1, <3>1 DEF Referenced
  <2>2. CASE H # {}
    <3>1. d.ownerHeights[o] = [sourceId |-> s, heights |-> H]
      BY <1>5, <2>2
    <3> QED BY <1>4, <3>1 DEF Referenced
  <2> QED BY <2>1, <2>2
<1> QED BY <1>5, <1>6 DEF Rereferenced

\* The references of a miner whose mapper dropped its jobs are removed.
LEMMA ClearedReferences ==
    ASSUME NEW c, CacheInv(c), NEW o \in Owners, o # 0, NEW R, 0 \notin R, NEW n, n.jobs = <<>>,
           NEW d, d = C!removeOwner(c, o)
    PROVE  Rereferenced(c, d, o, n, R)
<1>1. /\ CacheInv(d) /\ d.currentHeight = c.currentHeight
      /\ \A p \in Owners : d.ownerHeights[p] = IF p = o /\ o # 0 THEN C!NoHeights ELSE c.ownerHeights[p]
  BY RemoveOwnerEffect
<1>2. d.ownerHeights[o].sourceId = 0
  BY <1>1 DEF C!NoHeights
<1>3. Referenced(d, o, n, R)
  BY <1>2 DEF Referenced
<1> QED BY <1>1, <1>3 DEF Rereferenced

LEMMA JobReferences ==
    ASSUME NEW c, CacheInv(c), NEW o \in Owners, o # 0, NEW R, 0 \notin R,
           NEW old \in MinerType, old.source \in Sources \ R, OwnJobs(old, R), Referenced(c, o, old, R),
           NEW h \in Heights, NEW written \in BOOLEAN
    PROVE  Rereferenced(c, jobCache(c, o, old, h, written), o, jobMiner(old, h, written), R)
<1> DEFINE e == IF old.jobClient = old.client THEN c ELSE C!removeOwner(c, o)
           n == jobMiner(old, h, written)
           d == jobCache(c, o, old, h, written)
<1>1. CacheInv(e) /\ e.currentHeight = c.currentHeight
      /\ \A p \in Owners \ {o} : e.ownerHeights[p] = c.ownerHeights[p]
  BY RemoveOwnerEffect
<1>2. base(old).state = old.state /\ base(old).source = old.source
  BY BaseFields
<1>3. isWritable(base(old)) <=> isWritable(old)
  BY <1>2 DEF isWritable
<1>4. CASE ~ isWritable(old) \/ ~ written
  <2>1. d = e
    BY <1>3, <1>4 DEF jobCache
  <2>2. /\ old.jobClient = old.client => n.jobs = old.jobs /\ n.jobHeight = old.jobHeight
        /\ old.jobClient # old.client => n.jobs = <<>>
    BY <1>4, UnsentJobs
  <2> HIDE DEF n, d
  <2>3. ASSUME old.jobClient = old.client PROVE Rereferenced(c, d, o, n, R)
    <3>1. d = c /\ n.jobs = old.jobs /\ n.jobHeight = old.jobHeight
      BY <2>1, <2>2, <2>3
    <3>2. Referenced(c, o, n, R)
      BY <3>1 DEF Referenced, InUse
    <3> QED BY <3>1, <3>2 DEF Rereferenced
  <2>4. ASSUME old.jobClient # old.client PROVE Rereferenced(c, d, o, n, R)
    <3>1. d = C!removeOwner(c, o) /\ n.jobs = <<>>
      BY <2>1, <2>2, <2>4
    <3> QED BY <3>1, ClearedReferences
  <2> QED BY <2>3, <2>4 DEF n, d
<1>5. CASE isWritable(old) /\ written
  <2>1. n = sentMiner(base(old), h)
    BY <1>5, SentNow
  <2>2. d = C!setOwnerHeights(e, o, old.source, eligibleHeights(n, old.source))
    <3>1. d = C!setOwnerHeights(e, o, base(old).source, eligibleHeights(sentMiner(base(old), h), base(old).source))
      BY <1>3, <1>5, Zenon DEF jobCache, sentMiner
    <3> QED BY <1>2, <2>1, <3>1
  <2> HIDE DEF n, d, e
  <2>3. Rereferenced(e, d, o, n, R)
    BY <1>1, <1>5, <2>1, <2>2, SentReferences
  <2>4. Rereferenced(c, d, o, n, R)
    BY <1>1, <2>3 DEF Rereferenced
  <2> QED BY <2>4 DEF n, d
<1> QED BY <1>4, <1>5

LEMMA TemplateReferences ==
    ASSUME NEW c, CacheInv(c), NEW o \in Owners, o # 0, NEW R, 0 \notin R,
           NEW old \in MinerType, old.source \in Sources \ R, OwnJobs(old, R), Referenced(c, o, old, R),
           NEW h \in Heights, NEW ready \in BOOLEAN, NEW written \in BOOLEAN
    PROVE  Rereferenced(c, templateCache(c, o, old, h, ready, written), o,
                        templateMiner(old, h, ready, written), R)
<1>1. CASE ready
  <2>1. /\ templateCache(c, o, old, h, ready, written) = jobCache(c, o, old, h, written)
        /\ templateMiner(old, h, ready, written) = jobMiner(old, h, written)
    BY <1>1 DEF templateCache, templateMiner
  <2>2. Rereferenced(c, jobCache(c, o, old, h, written), o, jobMiner(old, h, written), R)
    BY JobReferences
  <2> QED BY <2>1, <2>2
<1>2. CASE ~ ready
  <2> DEFINE n == [old EXCEPT !.deferred = h]
  <2>1. /\ templateCache(c, o, old, h, ready, written) = c
        /\ templateMiner(old, h, ready, written) = n
    BY <1>2 DEF templateCache, templateMiner
  <2>2. n.jobs = old.jobs /\ n.jobHeight = old.jobHeight
    BY DEF MinerType
  <2> HIDE DEF n
  <2>3. Referenced(c, o, n, R)
    BY <2>2 DEF Referenced, InUse
  <2>4. Rereferenced(c, c, o, n, R)
    BY <2>3 DEF Rereferenced
  <2> QED BY <2>1, <2>4
<1> QED BY <1>1, <1>2

\* The references of the others are those they had.
LEMMA OtherReferences ==
    ASSUME NEW b, NEW c, NEW o \in Owners, NEW n, NEW R, Rereferenced(b, c, o, n, R),
           NEW p \in Owners \ {o}, NEW m, Referenced(b, p, m, R)
    PROVE  Referenced(c, p, m, R)
<1>1. c.ownerHeights[p] = b.ownerHeights[p]
  BY DEF Rereferenced
<1> QED BY <1>1 DEF Referenced

\* The cache d, which follows c, references what the miners mm have.
AllReferenced(c, d, mm, R) ==
    /\ CacheInv(d) /\ d.currentHeight = c.currentHeight
    /\ \A o \in Owners : Referenced(d, o, mm[o], R)

\* So does every cache on the way, after the subscribers in T were served.
ReferencedThrough(F, S, c, mm, h, ready, failing, R) ==
    \A T \in SUBSET S : AllReferenced(c, F[T].cache, delivered(mm, T, h, ready, failing), R)

\* A template for the subscribers S of a source, in the order of the fold.
LEMMA DeliveredReferences ==
    ASSUME 0 \notin Owners, NEW S \in SUBSET Owners, IsFiniteSet(S), NEW R, 0 \notin R,
           NEW c, CacheInv(c), NEW mm \in [Owners -> MinerType],
           \A o \in Owners : Referenced(c, o, mm[o], R),
           \A o \in S : mm[o].source \in Sources \ R /\ OwnJobs(mm[o], R),
           NEW h \in Heights, NEW ready \in BOOLEAN, NEW failing, NEW F,
           IsDelivery(F, SUBSET S, [cache |-> c, miner |-> mm], h, ready, failing)
    PROVE  ReferencedThrough(F, S, c, mm, h, ready, failing, R)
<1>0. DeliveredBy(F, S, c, mm, h, ready, failing)
  BY DeliveryParts
<1> DEFINE Good(T) == AllReferenced(c, F[T].cache, delivered(mm, T, h, ready, failing), R)
           G == {T \in SUBSET S : Good(T)}
<1>1. {} \in G
  <2>1. F[{}].cache = c
    BY <1>0, Zenon DEF DeliveredBy
  <2>2. \A o \in Owners : delivered(mm, {}, h, ready, failing)[o] = mm[o]
    BY DEF delivered
  <2> QED BY <2>1, <2>2 DEF AllReferenced
<1>2. ASSUME NEW T \in SUBSET S, T # {}, T \ {Pick(T)} \in G
      PROVE  T \in G
  <2> DEFINE o == Pick(T)
             U == T \ {o}
             w == o \notin failing
             b == F[U].cache
             d == F[T].cache
             n == templateMiner(mm[o], h, ready, w)
  <2>1. o \in T /\ o \in Owners /\ o # 0 /\ o \in S
    BY <1>2, PickIn
  <2>2. d = templateCache(b, o, mm[o], h, ready, w)
    BY <1>0, <1>2, Zenon DEF DeliveredBy
  <2>3. /\ CacheInv(b) /\ b.currentHeight = c.currentHeight
        /\ \A p \in Owners : Referenced(b, p, delivered(mm, U, h, ready, failing)[p], R)
    BY <1>2 DEF AllReferenced
  <2>4. \A p \in Owners : delivered(mm, U, h, ready, failing)[p] =
                              IF p \in U THEN templateMiner(mm[p], h, ready, p \notin failing) ELSE mm[p]
    BY DEF delivered
  <2>5. \A p \in Owners : delivered(mm, T, h, ready, failing)[p] =
                              IF p \in T THEN templateMiner(mm[p], h, ready, p \notin failing) ELSE mm[p]
    BY DEF delivered
  <2>6. delivered(mm, T, h, ready, failing)[o] = n
    BY <2>1, <2>5
  <2>7. \A p \in Owners \ {o} : delivered(mm, T, h, ready, failing)[p] = delivered(mm, U, h, ready, failing)[p]
    BY <2>4, <2>5
  <2>8. Referenced(b, o, mm[o], R)
    BY <2>1, <2>3, <2>4
  <2>9. w \in BOOLEAN
    OBVIOUS
  <2>10. mm[o] \in MinerType /\ mm[o].source \in Sources \ R /\ OwnJobs(mm[o], R)
    BY <2>1
  <2>11. Rereferenced(b, d, o, n, R)
    <3> HIDE DEF w, o, b, d
    <3>1. Rereferenced(b, templateCache(b, o, mm[o], h, ready, w), o, templateMiner(mm[o], h, ready, w), R)
      BY <2>1, <2>3, <2>8, <2>9, <2>10, TemplateReferences
    <3> QED BY <2>2, <3>1
  <2> HIDE DEF n, d, b, w, o, U
  <2>12. CacheInv(d) /\ d.currentHeight = c.currentHeight
    BY <2>3, <2>11 DEF Rereferenced
  <2>13. ASSUME NEW p \in Owners PROVE Referenced(d, p, delivered(mm, T, h, ready, failing)[p], R)
    <3>1. CASE p = o
      BY <2>6, <2>11, <3>1 DEF Rereferenced
    <3>2. CASE p # o
      BY <2>1, <2>3, <2>7, <2>11, <3>2, OtherReferences
    <3> QED BY <3>1, <3>2
  <2> QED BY <2>12, <2>13 DEF d, AllReferenced
<1> HIDE DEF G
<1>3. \A T \in SUBSET S : T \in G
  BY <1>1, <1>2, SetInduction
<1> QED BY <1>3, Zenon DEF G, ReferencedThrough

(***************************************************************************)
(* The steps of a connection                                               *)
(***************************************************************************)

\* One miner becomes n.
LEMMA OneRereferenced ==
    ASSUME References, miner \in [Owners -> MinerType], NEW o \in Owners, NEW n,
           miner' = [miner EXCEPT ![o] = n], Rereferenced(cache, cache', o, n, retired),
           UNCHANGED <<retired, pending>>
    PROVE  References'
<1>1. ASSUME NEW p \in Owners PROVE Referenced(cache', p, miner'[p], retired)
  <2>1. CASE p = o
    BY <2>1 DEF Rereferenced
  <2>2. CASE p # o
    <3>1. Referenced(cache', p, miner[p], retired)
      BY <2>2, OtherReferences DEF References
    <3>2. miner'[p] = miner[p]
      BY <2>2
    <3> QED BY <3>1, <3>2
  <2> QED BY <2>1, <2>2
<1>2. CacheInv(cache') /\ cache'.currentHeight = cache.currentHeight
  BY DEF Rereferenced
<1>3. \A p \in Owners : Referenced(cache', p, miner'[p], retired')
  BY <1>1
<1>4. \A s \in retired' : cache'.currentHeight[s] = 0
  BY <1>2 DEF References
<1>5. /\ IsFiniteSet(pending')
      /\ \A p \in pending' : p.res.global.sourceId \in Sources /\ p.res.global.height \in Heights
  BY DEF References
<1>6. CacheInv(cache)'
  BY <1>2 DEF CacheInv
<1> QED BY <1>3, <1>4, <1>5, <1>6 DEF References, Referenced, InUse

LEMMA BucketsTypes ==
    ASSUME MinersOK
    PROVE  /\ miner \in [Owners -> MinerType] /\ retired \subseteq Sources /\ 0 \notin retired
           /\ \A o \in Owners : miner[o] \in MinerType /\ MinerOK(miner[o])
BY Constants DEF MinersOK

\* The jobs of m are those of n.
SameJobs(m, n) ==
    n.jobs = m.jobs /\ n.jobHeight = m.jobHeight /\ n.jobClient = m.jobClient

LEMMA SameJobsReferenced ==
    ASSUME NEW c, NEW o, NEW m, NEW n, NEW R, SameJobs(m, n), Referenced(c, o, m, R)
    PROVE  Referenced(c, o, n, R)
BY DEF SameJobs, Referenced, InUse

LEMMA SameJobsFrom ==
    ASSUME NEW m, NEW n, SameJobs(m, n)
    PROVE  JobsFrom(m, n) /\ \A k : JobsFrom(n, k) => JobsFrom(m, k)
BY DEF SameJobs, JobsFrom

\* The jobs that a client which connects keeps are of its own source.
LEMMA ConnectOwnJobs ==
    ASSUME MinersOK, SourcesOK, NEW o \in Owners, NEW s \in Sources, NEW cl, acquirable(s, cl),
           NEW m, SameJobs(miner[o], m), m.source = s, m.client = cl
    PROVE  OwnJobs(m, retired)
<1> SUFFICES ASSUME m.jobClient = m.client, NEW i \in DOMAIN m.jobs, m.jobs[i].source \notin retired
             PROVE  m.jobs[i].source = m.source
  BY DEF OwnJobs
<1>1. m.jobs = miner[o].jobs /\ miner[o].jobClient = cl
  BY DEF SameJobs
<1>2. PICK p \in Owners : /\ miner[p].source = miner[o].jobs[i].source
                          /\ miner[p].client = miner[o].jobClient
  BY <1>1 DEF SourcesOK
<1>3. miner[o].jobs[i].source # 0
  <2>1. miner[o].jobs[i] \in JobType
    BY <1>1, BucketsTypes, MinerFields
  <2> QED BY <2>1, Constants DEF JobType
<1> QED BY <1>1, <1>2, <1>3 DEF acquirable

LEMMA ConnectBuckets ==
    ASSUME 0 \notin Owners, MinersOK, MinersOK', BucketsInv,
           NEW o \in Owners, NEW s \in Sources, NEW cl \in Clients, acquirable(s, cl),
           NEW m0, MinerOK(m0), isWritable(m0), SameJobs(miner[o], m0), miner[o].source = 0,
           NEW ready \in BOOLEAN, NEW written \in BOOLEAN, subscribe(o, s, cl, m0, ready, written),
           UNCHANGED <<retired, pending>>
    PROVE  BucketsInv'
<1> DEFINE m == subscribed(m0, s, cl)
           n == IF latest[s] = 0 THEN m ELSE templateMiner(m, latest[s], ready, written)
<1>1. /\ miner' = [miner EXCEPT ![o] = n]
      /\ cache' = IF latest[s] = 0 THEN cache
                  ELSE templateCache(cache, o, m, latest[s], ready, written)
  BY SubscribeParts
<1>2. /\ MinerOK(m) /\ m.source = s /\ m.client = cl
      /\ m.jobClient = m0.jobClient /\ m.jobs = m0.jobs /\ m.jobHeight = m0.jobHeight
  BY Subscribed
<1>3. m \in MinerType
  BY <1>2 DEF MinerOK
<1> HIDE DEF m
<1>4. SameJobs(miner[o], m)
  BY <1>2 DEF SameJobs
<1>5. OwnJobs(m, retired)
  BY <1>2, <1>4, ConnectOwnJobs DEF BucketsInv
<1>6. Referenced(cache, o, m, retired)
  BY <1>4, SameJobsReferenced DEF BucketsInv, References
<1>7. m.source \in Sources \ retired /\ CacheInv(cache) /\ 0 \notin retired /\ o # 0
  BY <1>2, BucketsTypes DEF acquirable, BucketsInv, References
<1>8. Rereferenced(cache, cache', o, n, retired) /\ n.source = s /\ n.client = cl /\ JobsFrom(miner[o], n)
  <2>1. CASE latest[s] = 0
    <3>1. n = m /\ cache' = cache
      BY <1>1, <2>1
    <3> HIDE DEF n
    <3>2. Rereferenced(cache, cache', o, n, retired)
      BY <1>6, <1>7, <3>1 DEF Rereferenced
    <3> QED BY <1>2, <1>4, <3>1, <3>2, SameJobsFrom
  <2>2. CASE latest[s] # 0
    <3>1. latest[s] \in Heights
      BY <2>2 DEF MinersOK
    <3>2. /\ n = templateMiner(m, latest[s], ready, written)
          /\ cache' = templateCache(cache, o, m, latest[s], ready, written)
      BY <1>1, <2>2
    <3> HIDE DEF n
    <3>3. Rereferenced(cache, templateCache(cache, o, m, latest[s], ready, written), o,
                       templateMiner(m, latest[s], ready, written), retired)
      BY <1>3, <1>5, <1>6, <1>7, <3>1, TemplateReferences
    <3>4. n.source = m.source /\ n.client = m.client /\ JobsFrom(m, n)
      BY <1>2, <1>3, <3>1, <3>2, TemplateMinerFrom
    <3> QED BY <1>2, <1>4, <3>2, <3>3, <3>4, SameJobsFrom
  <2> QED BY <2>1, <2>2
<1> HIDE DEF n
<1>9. References'
  BY <1>1, <1>8, BucketsTypes, OneRereferenced DEF BucketsInv
<1>10. SourcesOK'
  <2>1. miner'[o] = n /\ \A p \in Owners \ {o} : miner'[p] = miner[p]
    BY <1>1, BucketsTypes
  <2> QED BY <1>8, <2>1, SourcesConnect DEF BucketsInv
<1> QED BY <1>9, <1>10 DEF BucketsInv

\* A miner connects, the first time or again.
LEMMA LoginParts ==
    ASSUME MinersOK, NEW o \in Owners, NEW s, NEW cl, NEW ready, NEW written,
           Login(o, s, cl, ready, written) \/ Reconnect(o, s, cl, ready, written)
    PROVE  /\ acquirable(s, cl) /\ miner[o].source = 0
           /\ \E m0 : /\ MinerOK(m0) /\ isWritable(m0) /\ SameJobs(miner[o], m0)
                      /\ subscribe(o, s, cl, m0, ready, written)
<1>1. acquirable(s, cl)
  BY DEF Login, Reconnect
<1>2. MinerOK(miner[o]) /\ miner[o] \in MinerType
  BY BucketsTypes
<1>3. CASE Login(o, s, cl, ready, written)
  <2> DEFINE m0 == [miner[o] EXCEPT !.state = "wait"]
  <2>1. miner[o].source = 0
    BY <1>2, <1>3 DEF Login, MinerOK
  <2>2. SameJobs(miner[o], m0) /\ m0.state = "wait"
    BY <1>2 DEF SameJobs, MinerType
  <2>3. MinerOK(m0) /\ isWritable(m0)
    <3>1. m0 \in MinerType
      BY <1>2 DEF MinerType, MinerStates
    <3>2. /\ m0.deferred = miner[o].deferred /\ m0.source = miner[o].source
          /\ m0.jobs = miner[o].jobs /\ m0.sequence = miner[o].sequence
      BY <1>2 DEF MinerType
    <3> QED BY <1>2, <2>2, <3>1, <3>2 DEF MinerOK, isWritable
  <2>4. subscribe(o, s, cl, m0, ready, written)
    BY <1>3, Zenon DEF Login
  <2> HIDE DEF m0
  <2> QED BY <1>1, <2>1, <2>2, <2>3, <2>4, Zenon
<1>4. CASE Reconnect(o, s, cl, ready, written)
  <2>1. miner[o].source = 0 /\ isWritable(miner[o])
    BY <1>4, Zenon DEF Reconnect
  <2>2. SameJobs(miner[o], miner[o])
    BY DEF SameJobs
  <2>3. subscribe(o, s, cl, miner[o], ready, written)
    BY <1>4, Zenon DEF Reconnect
  <2> QED BY <1>1, <1>2, <2>1, <2>2, <2>3, Zenon
<1> QED BY <1>3, <1>4

LEMMA BucketsLogin ==
    ASSUME 0 \notin Owners, MinersOK, MinersOK', BucketsInv,
           NEW o \in Owners, NEW s \in Sources, NEW cl \in Clients,
           NEW ready \in BOOLEAN, NEW written \in BOOLEAN,
           Login(o, s, cl, ready, written) \/ Reconnect(o, s, cl, ready, written)
    PROVE  BucketsInv'
<1>1. UNCHANGED <<retired, pending>>
  BY DEF Login, Reconnect
<1>2. /\ acquirable(s, cl) /\ miner[o].source = 0
      /\ \E m0 : /\ MinerOK(m0) /\ isWritable(m0) /\ SameJobs(miner[o], m0)
                 /\ subscribe(o, s, cl, m0, ready, written)
  BY LoginParts, Zenon
<1> QED BY <1>1, <1>2, ConnectBuckets

\* The caches and the miners of a delivery, and the cache it leaves behind.
DeliversTo(S, s, h, ready, failing) ==
    \E F : /\ IsDelivery(F, SUBSET S, [cache |-> cache, miner |-> miner], h, ready, failing)
           /\ cache' = C!observeHeight(F[S].cache, s, h)

Deliverable(b, S, h, ready, failing) ==
    \E F : /\ IsDelivery(F, SUBSET S, b, h, ready, failing)
           /\ deliver(b, S, h, ready, failing) = F[S]

LEMMA DeliveryOf ==
    ASSUME NEW S, IsFiniteSet(S), NEW b, NEW h, NEW ready, NEW failing
    PROVE  Deliverable(b, S, h, ready, failing)
<1>1. \E F : /\ IsDelivery(F, SUBSET S, b, h, ready, failing)
             /\ deliver(b, S, h, ready, failing) = F[S]
  BY Delivery
<1> QED BY <1>1, Zenon DEF Deliverable

\* The template of a source reaches its subscribers S, then the cache.
LEMMA NewTemplateParts ==
    ASSUME MinersOK, NEW s \in Sources, NEW h \in Heights, NEW ready \in BOOLEAN, NEW failing,
           NewTemplate(s, h, ready, failing), NEW S, S = subscribers(s)
    PROVE  /\ S \in SUBSET Owners /\ S # {} /\ IsFiniteSet(S)
           /\ DeliversTo(S, s, h, ready, failing)
<1>1. S \in SUBSET Owners /\ IsFiniteSet(S)
  <2>1. S \in SUBSET Owners
    BY DEF subscribers
  <2> QED BY <2>1, Constants, FS_Subset
<1>2. S # {}
  BY DEF NewTemplate
<1>3. PICK F : /\ IsDelivery(F, SUBSET S, [cache |-> cache, miner |-> miner], h, ready, failing)
               /\ deliver([cache |-> cache, miner |-> miner], S, h, ready, failing) = F[S]
  <2>1. Deliverable([cache |-> cache, miner |-> miner], S, h, ready, failing)
    BY <1>1, DeliveryOf
  <2> QED BY <2>1, Zenon DEF Deliverable
<1>4. cache' = C!observeHeight(deliver([cache |-> cache, miner |-> miner], S, h, ready, failing).cache, s, h)
  BY Zenon DEF NewTemplate, State, deliver
<1>5. cache' = C!observeHeight(F[S].cache, s, h)
  BY <1>3, <1>4
<1>6. DeliversTo(S, s, h, ready, failing)
  BY <1>3, <1>5, Zenon DEF DeliversTo
<1> QED BY <1>1, <1>2, <1>6

LEMMA BucketsTemplate ==
    ASSUME 0 \notin Owners, MinersOK, MinersOK', BucketsInv,
           NEW s \in Sources, NEW h \in Heights, NEW ready \in BOOLEAN, NEW failing,
           NewTemplate(s, h, ready, failing)
    PROVE  BucketsInv'
<1> DEFINE S == subscribers(s)
<1>1. /\ S \in SUBSET Owners /\ S # {} /\ IsFiniteSet(S)
      /\ DeliversTo(S, s, h, ready, failing)
  BY NewTemplateParts
<1>2. s \notin retired /\ \A o \in S : miner[o].source = s
  BY <1>1 DEF subscribers, BucketsInv, SourcesOK
<1>3. \A o \in S : miner[o].source \in Sources \ retired /\ OwnJobs(miner[o], retired)
  <2>1. s # 0
    BY Constants
  <2> QED BY <1>1, <1>2, <2>1, SourceOwnJobs DEF BucketsInv
<1>4. miner' = delivered(miner, S, h, ready, failing)
  BY Delivered
<1> HIDE DEF S
<1>5. PICK F : /\ IsDelivery(F, SUBSET S, [cache |-> cache, miner |-> miner], h, ready, failing)
               /\ cache' = C!observeHeight(F[S].cache, s, h)
  BY <1>1, Zenon DEF DeliversTo
<1>6. miner \in [Owners -> MinerType] /\ cache' = C!observeHeight(F[S].cache, s, h)
  BY <1>5, BucketsTypes
<1>7. /\ CacheInv(cache) /\ 0 \notin retired
      /\ \A o \in Owners : Referenced(cache, o, miner[o], retired)
  BY BucketsTypes DEF BucketsInv, References
<1>8. AllReferenced(cache, F[S].cache, delivered(miner, S, h, ready, failing), retired)
  <2>1. ReferencedThrough(F, S, cache, miner, h, ready, failing, retired)
    BY <1>1, <1>3, <1>5, <1>6, <1>7, DeliveredReferences
  <2> QED BY <2>1, Zenon DEF ReferencedThrough
<1> DEFINE c == F[S].cache
<1>9. \A o \in Owners : Referenced(c, o, miner'[o], retired)
  BY <1>4, <1>8 DEF AllReferenced
<1> HIDE DEF c
<1>10. /\ CacheInv(cache') /\ cache'.ownerHeights = c.ownerHeights
       /\ \A t \in Sources : cache'.currentHeight[t] = IF t = s THEN h ELSE c.currentHeight[t]
  BY <1>6, <1>8, ObserveEffect DEF c, AllReferenced
<1>11. UNCHANGED <<retired, pending>>
  BY DEF NewTemplate
<1>12. References'
  <2>1. CacheInv(cache)'
    BY <1>10 DEF CacheInv
  <2>2. \A o \in Owners : Referenced(cache', o, miner'[o], retired')
    BY <1>9, <1>10, <1>11 DEF Referenced
  <2>3. \A t \in retired' : cache'.currentHeight[t] = 0
    BY <1>2, <1>8, <1>10, <1>11, BucketsTypes DEF BucketsInv, References, c, AllReferenced
  <2>4. /\ IsFiniteSet(pending')
        /\ \A p \in pending' : p.res.global.sourceId \in Sources /\ p.res.global.height \in Heights
    BY <1>11 DEF BucketsInv, References
  <2> QED BY <2>1, <2>2, <2>3, <2>4 DEF References, Referenced, InUse
<1>13. ASSUME NEW o \in Owners
       PROVE  /\ miner'[o].source = miner[o].source /\ miner'[o].client = miner[o].client
              /\ JobsFrom(miner[o], miner'[o])
  <2>1. CASE o \in S
    <3> DEFINE w == o \notin failing
               n == templateMiner(miner[o], h, ready, w)
    <3>1. miner'[o] = n
      BY <1>4, <2>1 DEF delivered
    <3>2. w \in BOOLEAN /\ miner[o] \in MinerType /\ miner[o].source \in Sources
      BY <1>3, <2>1, BucketsTypes
    <3> HIDE DEF w
    <3> QED BY <3>1, <3>2, TemplateMinerFrom
  <2>2. CASE o \notin S
    <3>1. miner'[o] = miner[o]
      BY <1>4, <2>2 DEF delivered
    <3> QED BY <3>1 DEF JobsFrom
  <2> QED BY <2>1, <2>2
<1>14. SourcesOK'
  BY <1>11, <1>13, SourcesKept DEF BucketsInv
<1> QED BY <1>12, <1>14 DEF BucketsInv

\* One miner stays with its client.
LEMMA BucketsOne ==
    ASSUME MinersOK, MinersOK', BucketsInv, NEW o \in Owners, NEW n, miner' = [miner EXCEPT ![o] = n],
           Rereferenced(cache, cache', o, n, retired), UNCHANGED <<retired, pending>>,
           n.source = miner[o].source, n.client = miner[o].client, JobsFrom(miner[o], n)
    PROVE  BucketsInv'
<1>1. References'
  BY BucketsTypes, OneRereferenced DEF BucketsInv
<1>2. miner'[o] = n /\ \A p \in Owners \ {o} : miner'[p] = miner[p]
  BY BucketsTypes
<1>3. \A p \in Owners : /\ miner'[p].source = miner[p].source
                        /\ miner'[p].client = miner[p].client
                        /\ JobsFrom(miner[p], miner'[p])
  BY <1>2 DEF JobsFrom
<1>4. SourcesOK'
  BY <1>3, SourcesKept DEF BucketsInv
<1> QED BY <1>1, <1>4 DEF BucketsInv

\* The deferred snapshot becomes a job.
LEMMA DeferredParts ==
    ASSUME MinersOK, NEW o \in Owners, NEW written \in BOOLEAN, InstallDeferred(o, written),
           NEW m, m = miner[o], NEW h, h = m.deferred
    PROVE  /\ m \in MinerType /\ MinerOK(m) /\ h \in Heights /\ m.source \in Sources
           /\ miner' = [miner EXCEPT ![o] = jobMiner(m, h, written)]
           /\ cache' = jobCache(cache, o, m, h, written)
<1> DEFINE n == jobMiner(m, h, written)
<1>1. m \in MinerType /\ MinerOK(m)
  BY BucketsTypes
<1>2. h \in Heights /\ m.source \in Sources
  BY <1>1, MinerFields DEF MinerOK, InstallDeferred
<1>3. /\ miner' = [miner EXCEPT ![o] = n] /\ cache' = jobCache(cache, o, m, h, written)
  <2>1. /\ cache' = setJob([cache |-> cache, miner |-> miner], o, h, written).cache
        /\ miner' = setJob([cache |-> cache, miner |-> miner], o, h, written).miner
    BY Zenon DEF InstallDeferred, State
  <2> DEFINE j == setJob([cache |-> cache, miner |-> miner], o, h, written)
             a == jobCache(cache, o, m, h, written)
  <2> HIDE DEF n
  <2>2. setJob([cache |-> cache, miner |-> miner], o, h, written) =
            [cache |-> jobCache(cache, o, m, h, written),
             miner |-> [miner EXCEPT ![o] = n]]
    <3> DEFINE st == [cache |-> cache, miner |-> miner]
    <3>1. st.cache = cache /\ st.miner = miner
      OBVIOUS
    <3> HIDE DEF st
    <3>2. setJob(st, o, h, written) =
               [cache |-> jobCache(st.cache, o, st.miner[o], h, written),
                miner |-> [st.miner EXCEPT ![o] = jobMiner(st.miner[o], h, written)]]
      BY SetJobParts
    <3>3. setJob(st, o, h, written) =
               [cache |-> jobCache(cache, o, m, h, written),
                miner |-> [miner EXCEPT ![o] = n]]
      BY <3>1, <3>2 DEF n
    <3> QED BY <3>3 DEF st
  <2>3. cache' = j.cache /\ miner' = j.miner
    BY <2>1, Zenon
  <2>4. j = [cache |-> a, miner |-> [miner EXCEPT ![o] = n]]
    BY <2>2, Zenon
  <2> HIDE DEF j, a
  <2>5. cache' = a /\ miner' = [miner EXCEPT ![o] = n]
    BY <2>3, <2>4
  <2> QED BY <2>5 DEF a
<1> QED BY <1>1, <1>2, <1>3 DEF n

LEMMA BucketsDeferred ==
    ASSUME 0 \notin Owners, MinersOK, MinersOK', BucketsInv, NEW o \in Owners, NEW written \in BOOLEAN,
           InstallDeferred(o, written)
    PROVE  BucketsInv'
<1> DEFINE m == miner[o]
           h == m.deferred
           n == jobMiner(m, h, written)
<1>1. m \in MinerType /\ MinerOK(m)
  BY BucketsTypes
<1>2. h \in Heights /\ m.source \in Sources
  BY <1>1, MinerFields DEF MinerOK, InstallDeferred
<1>3. /\ miner' = [miner EXCEPT ![o] = n] /\ cache' = jobCache(cache, o, m, h, written)
  BY DeferredParts
<1> HIDE DEF h, n
<1>4. /\ m.source \notin retired /\ OwnJobs(m, retired) /\ Referenced(cache, o, m, retired)
      /\ CacheInv(cache) /\ 0 \notin retired /\ o # 0
  <2>1. m.source # 0
    BY <1>2, Constants
  <2> QED BY <2>1, BucketsTypes, SourceOwnJobs DEF BucketsInv, SourcesOK, References
<1>5. Rereferenced(cache, cache', o, n, retired)
  <2> HIDE DEF m
  <2>1. Rereferenced(cache, jobCache(cache, o, m, h, written), o, jobMiner(m, h, written), retired)
    BY <1>1, <1>2, <1>4, JobReferences
  <2> QED BY <1>3, <2>1 DEF n
<1>6. n.source = m.source /\ n.client = m.client /\ JobsFrom(m, n)
  BY <1>1, <1>2, JobMinerFrom DEF n
<1>7. UNCHANGED <<retired, pending>>
  BY DEF InstallDeferred
<1> QED BY <1>3, <1>5, <1>6, <1>7, BucketsOne

LEMMA SameJobsBuckets ==
    ASSUME MinersOK, MinersOK', BucketsInv, NEW o \in Owners, NEW n, SameBut(miner[o], n),
           miner' = [miner EXCEPT ![o] = n], UNCHANGED <<cache, retired, pending>>
    PROVE  BucketsInv'
<1>1. SameJobs(miner[o], n) /\ n.source = miner[o].source /\ n.client = miner[o].client
  BY DEF SameBut, SameJobs
<1>2. Referenced(cache, o, n, retired) /\ JobsFrom(miner[o], n)
  BY <1>1, SameJobsReferenced, SameJobsFrom DEF BucketsInv, References
<1>3. Rereferenced(cache, cache', o, n, retired)
  BY <1>2 DEF Rereferenced, BucketsInv, References
<1> QED BY <1>1, <1>2, <1>3, BucketsOne

LEMMA BucketsExpired ==
    ASSUME MinersOK, MinersOK', BucketsInv, NEW o \in Owners, ExpireJob(o)
    PROVE  BucketsInv'
<1>1. PICK i \in DOMAIN miner[o].jobs : miner' = [miner EXCEPT ![o].jobs[i].live = FALSE]
  BY DEF ExpireJob
<1> DEFINE m == miner[o]
           n == [m EXCEPT !.jobs[i].live = FALSE]
<1>2. miner' = [miner EXCEPT ![o] = n]
  BY <1>1
<1> HIDE DEF n
<1>3. JobExpired(m, n)
  <2>1. MinerOK(m)
    BY BucketsTypes
  <2> HIDE DEF m
  <2> QED BY <2>1, Expired DEF n, m
<1>4. Referenced(cache, o, m, retired) /\ CacheInv(cache)
  BY DEF BucketsInv, References
<1> HIDE DEF m
<1>5. Referenced(cache, o, n, retired)
  BY <1>3, <1>4 DEF Referenced, InUse, JobExpired
<1>6. JobsFrom(m, n)
  BY <1>3 DEF JobsFrom, JobExpired
<1>7. UNCHANGED <<cache, retired, pending>>
  BY DEF ExpireJob
<1>8. Rereferenced(cache, cache', o, n, retired)
  BY <1>4, <1>5, <1>7 DEF Rereferenced
<1> QED BY <1>2, <1>3, <1>6, <1>7, <1>8, BucketsOne DEF m, JobExpired

LEMMA BucketsLost ==
    ASSUME MinersOK, MinersOK', BucketsInv, NEW o \in Owners, ConnectionLost(o)
    PROVE  BucketsInv'
<1>1. SameBut(miner[o], shutdown(miner[o]))
  BY BucketsTypes, Shutdown
<1> QED BY <1>1, SameJobsBuckets DEF ConnectionLost

-----------------------------------------------------------------------------
\* A cache in which only records may have changed.
Follows(c, d) == CacheInv(d) /\ SameReferences(c, d)

LEMMA ReleaseFollows ==
    ASSUME NEW c, NEW d, Follows(c, d), NEW res
    PROVE  Follows(c, release2(d, res))
<1>1. CacheInv(release2(d, res)) /\ SameReferences(d, release2(d, res))
  BY Release2Effect DEF Follows
<1> QED BY <1>1 DEF Follows, SameReferences

\* The outcome of a share is counted, and its records come or go.
LEMMA BucketsJudged ==
    ASSUME MinersOK, MinersOK', BucketsInv, NEW o \in Owners, Judged(o), UNCHANGED retired,
           Follows(cache, cache'), IsFiniteSet(pending'),
           \A p \in pending' : p.res.global.sourceId \in Sources /\ p.res.global.height \in Heights
    PROVE  BucketsInv'
<1>1. PICK n : SameBut(miner[o], n) /\ miner' = [miner EXCEPT ![o] = n]
  BY DEF Judged
<1>2. \A p \in Owners : /\ miner'[p].source = miner[p].source
                        /\ miner'[p].client = miner[p].client
                        /\ SameJobs(miner[p], miner'[p])
  BY <1>1, BucketsTypes DEF SameBut, SameJobs
<1>3. SourcesOK'
  BY <1>2, SameJobsFrom, SourcesKept DEF BucketsInv
<1>4. ASSUME NEW p \in Owners PROVE Referenced(cache', p, miner'[p], retired')
  <2>1. Referenced(cache, p, miner'[p], retired)
    BY <1>2, SameJobsReferenced DEF BucketsInv, References
  <2> QED BY <2>1 DEF Referenced, Follows, SameReferences
<1>5. CacheInv(cache)'
  BY DEF Follows, CacheInv
<1>6. \A s \in retired' : cache'.currentHeight[s] = 0
  BY DEF BucketsInv, References, Follows, SameReferences
<1>7. References'
  BY <1>4, <1>5, <1>6 DEF References, Referenced, InUse
<1> QED BY <1>3, <1>7 DEF BucketsInv

\* What a request that passed every check reserves.
LEMMA AdmittedJob ==
    ASSUME MinersOK, NEW o \in Owners, NEW t, NEW c, Admitted(o, t, c), NEW j, j = jobOf(o, t)
    PROVE  /\ j \in JobType /\ j \in findTelemetryJob(miner[o], t)
           /\ ~ isStale(j.height, miner[o].jobHeight)
           /\ C!reserveResult(cache, j.source, j.height, key(o, t, c)) = "Accepted"
<1> DEFINE jobs == findTelemetryJob(miner[o], t)
<1>1. submitError(o, t, c, "none") = "NoError"
  BY DEF Admitted
<1>2. /\ jobs # {} /\ ~ isStale(j.height, miner[o].jobHeight)
      /\ C!reserveResult(cache, j.source, j.height, key(o, t, c)) = "Accepted"
  BY <1>1 DEF submitError, jobOf
<1>3. j \in jobs
  BY <1>2 DEF jobOf
<1>4. j \in JobType
  BY <1>3, BucketsTypes, MinerFields DEF findTelemetryJob
<1> QED BY <1>2, <1>3, <1>4

LEMMA ReservedEffect ==
    ASSUME MinersOK, CacheInv(cache), NEW o \in Owners, NEW t \in Tokens, NEW c \in Results,
           Admitted(o, t, c)
    PROVE  /\ Follows(cache, reserved(o, t, c))
           /\ reservation(o, t, c).global.sourceId \in Sources
           /\ reservation(o, t, c).global.height \in Heights
<1> DEFINE j == jobOf(o, t)
           k == key(o, t, c)
           r == C!newReservation(cache, j.source, j.height, k)
<1>1. j.source \in Sources /\ j.height \in Heights
  BY AdmittedJob DEF JobType
<1>2. C!reserveResult(cache, j.source, j.height, k) = "Accepted"
  BY AdmittedJob
<1>3. k \in Keys
  BY DEF Keys, key
<1>4. reserved(o, t, c) = C!reserve(cache, j.source, j.height, k) /\ reservation(o, t, c).global = r
  BY Zenon DEF reserved, reservation
<1> HIDE DEF j, k, r
<1>5. /\ CacheInv(reserved(o, t, c)) /\ SameReferences(cache, reserved(o, t, c))
      /\ r.sourceId = j.source /\ r.height = j.height
  BY <1>1, <1>2, <1>3, <1>4, ReserveEffect DEF r
<1> QED BY <1>1, <1>4, <1>5 DEF Follows

LEMMA BucketsSubmit ==
    ASSUME RequestsInv, MinersOK', BucketsInv, NEW o \in Owners, NEW t \in Tokens, NEW n,
           NEW c \in Results, NEW x, NewShare(o, t, n, c, x)
    PROVE  BucketsInv'
<1> DEFINE ca == reserved(o, t, c)
           res == reservation(o, t, c)
           k == Len(log) + 1
           Typed(p) == p.res.global.sourceId \in Sources /\ p.res.global.height \in Heights
<1>1. MinersOK /\ Judged(o) /\ UNCHANGED retired
  BY DEF NewShare, RequestsInv
<1>2. CacheInv(cache) /\ IsFiniteSet(pending) /\ \A p \in pending : Typed(p)
  BY DEF BucketsInv, References
<1>3. Follows(cache, cache)
  BY <1>2 DEF Follows, SameReferences
<1>4. ASSUME Follows(cache, cache'), UNCHANGED pending
      PROVE  BucketsInv'
  BY <1>1, <1>2, <1>4, BucketsJudged
<1>5. CASE UNCHANGED <<cache, pending>>
  BY <1>3, <1>4, <1>5
<1>6. CASE Admitted(o, t, c) /\ Reserved(k, o, t, c, ca, res, x)
  <2>1. Follows(cache, ca) /\ res.global.sourceId \in Sources /\ res.global.height \in Heights
    BY <1>1, <1>2, <1>6, ReservedEffect
  <2> HIDE DEF ca, res
  <2>2. Follows(cache, release2(ca, res)) /\ Follows(cache, release2(release2(ca, res), res))
    BY <2>1, ReleaseFollows
  <2>3. CASE cache' = ca /\ \E p : pending' = pending \cup {p} /\ p.res = res
    <3>1. PICK p : pending' = pending \cup {p} /\ p.res = res
      BY <2>3
    <3>2. IsFiniteSet(pending')
      BY <1>2, <3>1, FS_AddElement
    <3>3. \A r \in pending' : Typed(r)
      BY <1>2, <2>1, <3>1
    <3> QED BY <1>1, <2>1, <2>3, <3>2, <3>3, BucketsJudged
  <2>4. CASE cache' = ca /\ UNCHANGED pending
    BY <1>4, <2>1, <2>4
  <2>5. CASE cache' = release2(ca, res) /\ UNCHANGED pending
    BY <1>4, <2>2, <2>5
  <2>6. CASE cache' = release2(release2(ca, res), res) /\ UNCHANGED pending
    BY <1>4, <2>2, <2>6
  <2>7. \/ cache' = ca /\ \E p : pending' = pending \cup {p} /\ p.res = res
        \/ cache' = ca /\ UNCHANGED pending
        \/ cache' = release2(ca, res) /\ UNCHANGED pending
        \/ cache' = release2(release2(ca, res), res) /\ UNCHANGED pending
    BY <1>6, Zenon DEF Reserved, Forwarded
  <2> QED BY <2>3, <2>4, <2>5, <2>6, <2>7
<1> QED BY <1>5, <1>6 DEF NewShare

\* A computed identity is reserved in the bucket of the claimed one.
LEMMA ComputedEffect ==
    ASSUME RequestsInv, CacheInv(cache), NEW p \in pending,
           p.res.global.sourceId \in Sources, p.res.global.height \in Heights
    PROVE  Follows(cache, withComputed(p).cache)
<1> DEFINE g == p.res.global
           k == key(p.owner, p.token, log[p.req].nonce)
<1>1. k \in Keys
  <2>1. p.req \in DOMAIN log /\ p.owner = log[p.req].owner /\ p.token = log[p.req].token
    BY DEF RequestsInv, RequestsOK
  <2>2. p.owner \in Owners /\ p.token \in Tokens /\ log[p.req].nonce \in Results
    BY <2>1, LogFields DEF RequestsInv
  <2> QED BY <2>2 DEF Keys, key
<1>2. CASE computedIdentity(p) # "Accepted"
  <2>1. withComputed(p).cache = cache
    BY <1>2 DEF withComputed
  <2> QED BY <2>1 DEF Follows, SameReferences
<1>3. CASE computedIdentity(p) = "Accepted"
  <2>1. C!reserveResult(cache, g.sourceId, g.height, k) = "Accepted"
    BY <1>3 DEF computedIdentity
  <2>2. withComputed(p).cache = C!reserve(cache, g.sourceId, g.height, k)
    BY <1>3 DEF withComputed
  <2> HIDE DEF g, k
  <2>3. g.sourceId \in Sources /\ g.height \in Heights
    BY DEF g
  <2>4. CacheInv(withComputed(p).cache) /\ SameReferences(cache, withComputed(p).cache)
    BY <1>1, <2>1, <2>2, <2>3, ReserveEffect
  <2> QED BY <2>4 DEF Follows
<1> QED BY <1>2, <1>3

LEMMA FinishingCache ==
    ASSUME NEW p, NEW ca, NEW res, Finishing(p, ca, res)
    PROVE  cache' = ca \/ cache' = release2(ca, res)
BY Zenon DEF Finishing, HandedOn

LEMMA BucketsComplete ==
    ASSUME RequestsInv, MinersOK', BucketsInv, NEW p \in pending, FinishedShare(p)
    PROVE  BucketsInv'
<1>1. MinersOK /\ Judged(p.owner) /\ UNCHANGED retired /\ p.owner \in Owners
  BY TakeParts DEF FinishedShare, RequestsInv
<1>2. /\ CacheInv(cache) /\ IsFiniteSet(pending)
      /\ \A r \in pending : r.res.global.sourceId \in Sources /\ r.res.global.height \in Heights
  BY DEF BucketsInv, References
<1>3. pending' \subseteq pending
  BY DEF FinishedShare, Take
<1>4. IsFiniteSet(pending')
  BY <1>2, <1>3, FS_Subset
<1> DEFINE d == withComputed(p).cache
           res == withComputed(p).res
<1>5. Follows(cache, cache) /\ Follows(cache, d)
  BY <1>2, ComputedEffect DEF Follows, SameReferences
<1> HIDE DEF d, res
<1>6. Follows(cache, release2(cache, p.res)) /\ Follows(cache, release2(d, res))
  BY <1>5, ReleaseFollows
<1>7. cache' \in {cache, d, release2(cache, p.res), release2(d, res)}
  <2>1. \/ cache' = release2(cache, p.res)
        \/ Finishing(p, cache, p.res) \/ Finishing(p, d, res)
    BY Zenon DEF FinishedShare, d, res
  <2> QED BY <2>1, FinishingCache
<1>8. Follows(cache, cache')
  BY <1>5, <1>6, <1>7
<1> QED BY <1>1, <1>2, <1>3, <1>4, <1>8, BucketsJudged

LEMMA BucketsResult ==
    ASSUME RequestsInv, MinersOK', BucketsInv, NEW q \in inflight, NEW out, DaemonResult(q, out)
    PROVE  BucketsInv'
<1> DEFINE o == log[q].owner
<1>1. MinersOK /\ q \in DOMAIN log /\ o \in Owners
  BY LogFields DEF RequestsInv, RequestsOK
<1>2. UNCHANGED <<cache, retired, pending>>
  BY DEF DaemonResult
<1>3. Judged(o)
  <2>1. miner' = miner \/ miner' = [miner EXCEPT ![o] = recordShareOutcome(@, out = "OK")]
    BY Zenon DEF DaemonResult
  <2> QED BY <1>1, <2>1, JudgedBy
<1>4. /\ CacheInv(cache) /\ IsFiniteSet(pending)
      /\ \A r \in pending : r.res.global.sourceId \in Sources /\ r.res.global.height \in Heights
  BY DEF BucketsInv, References
<1>5. Follows(cache, cache')
  BY <1>2, <1>4 DEF Follows, SameReferences
<1> HIDE DEF o
<1> QED BY <1>1, <1>2, <1>3, <1>4, <1>5, BucketsJudged

-----------------------------------------------------------------------------
\* The shares of a connection that goes away.
LEMMA DestroyedFollows ==
    ASSUME NEW S, IsFiniteSet(S), NEW c, CacheInv(c)
    PROVE  Follows(c, destroyed(c, S))
<1>1. PICK F : IsDestruction(F, SUBSET S, c) /\ destroyed(c, S) = F[S]
  BY Destruction
<1> DEFINE G == {T \in SUBSET S : Follows(c, F[T])}
<1>2. {} \in G
  <2>1. F[{}] = c
    BY <1>1 DEF IsDestruction
  <2> QED BY <2>1 DEF Follows, SameReferences
<1>3. ASSUME NEW T \in SUBSET S, T # {}, T \ {Pick(T)} \in G
      PROVE  T \in G
  <2>1. F[T] = release2(F[T \ {Pick(T)}], Pick(T).res)
    BY <1>1, <1>3 DEF IsDestruction
  <2> QED BY <1>3, <2>1, ReleaseFollows
<1> HIDE DEF G
<1>4. \A T \in SUBSET S : T \in G
  BY <1>2, <1>3, SetInduction
<1> QED BY <1>1, <1>4 DEF G

\* A source that its last client leaves takes its buckets and their references.
LEMMA LeftReferences ==
    ASSUME MinersOK, References, NEW o \in Owners, NEW s, s = miner[o].source, retire(s, o),
           NEW d, d = releaseSource(cache, s, o)
    PROVE  /\ CacheInv(d) /\ \A t \in retired' : d.currentHeight[t] = 0
           /\ \A p \in Owners : Referenced(d, p, miner[p], retired')
<1>1. s \in Sources \cup {0} /\ 0 \notin Sources /\ 0 \notin retired /\ retired \subseteq Sources
  BY BucketsTypes, MinerFields, Constants
<1>2. CASE s # 0 /\ subscribers(s) = {o}
  <2>1. d = C!removeSource(cache, s) /\ retired' = retired \cup {s} /\ s \in Sources
    BY <1>1, <1>2 DEF releaseSource, retire
  <2>2. /\ CacheInv(d)
        /\ \A t \in Sources : d.currentHeight[t] = IF t = s THEN 0 ELSE cache.currentHeight[t]
        /\ \A p \in Owners : d.ownerHeights[p] =
              IF cache.ownerHeights[p].sourceId = s THEN C!NoHeights ELSE cache.ownerHeights[p]
    BY <2>1, RemoveSourceEffect DEF References
  <2>3. ASSUME NEW p \in Owners PROVE Referenced(d, p, miner[p], retired')
    <3>1. Referenced(cache, p, miner[p], retired)
      BY DEF References
    <3>2. \A i \in DOMAIN miner[p].jobs : InUse(miner[p], i, retired') =>
             InUse(miner[p], i, retired) /\ miner[p].jobs[i].source # s
      BY <2>1 DEF InUse
    <3>3. CASE cache.ownerHeights[p].sourceId = s
      <4>1. d.ownerHeights[p].sourceId = 0
        BY <2>2, <3>3 DEF C!NoHeights
      <4>2. \A i \in DOMAIN miner[p].jobs : ~ InUse(miner[p], i, retired')
        BY <3>1, <3>2, <3>3 DEF Referenced
      <4> QED BY <1>1, <2>1, <4>1, <4>2 DEF Referenced
    <3>4. CASE cache.ownerHeights[p].sourceId # s
      <4>1. d.ownerHeights[p] = cache.ownerHeights[p]
        BY <2>2, <3>4
      <4> QED BY <2>1, <3>1, <3>2, <3>4, <4>1 DEF Referenced
    <3> QED BY <3>3, <3>4
  <2>4. \A t \in retired' : d.currentHeight[t] = 0
    BY <1>1, <2>1, <2>2 DEF References
  <2> QED BY <2>2, <2>3, <2>4
<1>3. CASE ~ (s # 0 /\ subscribers(s) = {o})
  <2>1. d = cache /\ retired' = retired
    BY <1>3 DEF releaseSource, retire
  <2> QED BY <2>1 DEF References
<1> QED BY <1>2, <1>3

LEMMA BucketsDisconnect ==
    ASSUME MinersOK, MinersOK', BucketsInv, NEW o \in Owners, Disconnect(o)
    PROVE  BucketsInv'
<1> DEFINE m == miner[o]
           n == [m EXCEPT !.source = 0, !.deferred = 0]
           s == m.source
<1>1. /\ miner' = [miner EXCEPT ![o].source = 0, ![o].deferred = 0]
      /\ cache' = releaseSource(cache, s, o) /\ retire(s, o) /\ UNCHANGED pending
  BY DEF Disconnect
<1>2. m \in MinerType /\ miner \in [Owners -> MinerType]
  BY BucketsTypes
<1>3. n.source = 0 /\ SameJobs(m, n)
  BY <1>2 DEF SameJobs, MinerType
<1>4. miner'[o] = n /\ \A p \in Owners \ {o} : miner'[p] = miner[p]
  BY <1>1, <1>2
<1> HIDE DEF n
<1>5. SourcesOK'
  BY <1>1, <1>3, <1>4, SameJobsFrom, SourcesLeft DEF BucketsInv
<1>6. /\ CacheInv(cache') /\ \A t \in retired' : cache'.currentHeight[t] = 0
      /\ \A p \in Owners : Referenced(cache', p, miner[p], retired')
  BY <1>1, LeftReferences DEF BucketsInv
<1>7. \A p \in Owners : Referenced(cache', p, miner'[p], retired')
  BY <1>3, <1>4, <1>6, SameJobsReferenced
<1>8. /\ IsFiniteSet(pending')
      /\ \A p \in pending' : p.res.global.sourceId \in Sources /\ p.res.global.height \in Heights
  BY <1>1 DEF BucketsInv, References
<1>9. CacheInv(cache)'
  BY <1>6 DEF CacheInv
<1>10. References'
  BY <1>6, <1>7, <1>8, <1>9 DEF References, Referenced, InUse
<1> QED BY <1>5, <1>10 DEF BucketsInv

LEMMA BucketsClose ==
    ASSUME 0 \notin Owners, MinersOK, MinersOK', BucketsInv, NEW o \in Owners, Close(o)
    PROVE  BucketsInv'
<1> DEFINE gone == [NewMiner EXCEPT !.state = "gone"]
           s == miner[o].source
           mine == {p \in pending : p.owner = o}
           b == releaseSource(cache, s, o)
           c == C!removeOwner(b, o)
<1>1. /\ miner' = [miner EXCEPT ![o] = gone] /\ retire(s, o)
      /\ pending' = pending \ mine /\ cache' = destroyed(c, mine)
  BY DEF Close
<1>2. gone.source = 0 /\ gone.jobs = <<>>
  BY DEF NewMiner
<1>3. miner'[o] = gone /\ \A p \in Owners \ {o} : miner'[p] = miner[p]
  BY <1>1, BucketsTypes
<1> HIDE DEF gone, s
<1>4. SourcesOK'
  <2>1. JobsFrom(miner[o], gone)
    BY <1>2 DEF JobsFrom
  <2> QED BY <1>1, <1>2, <1>3, <2>1, SourcesLeft DEF BucketsInv, s
<1>5. /\ CacheInv(b) /\ \A t \in retired' : b.currentHeight[t] = 0
      /\ \A p \in Owners : Referenced(b, p, miner[p], retired')
  BY <1>1, LeftReferences DEF BucketsInv, s
<1>6. 0 \notin retired'
  <2>1. retired' \subseteq Sources
    BY DEF MinersOK
  <2> QED BY <2>1, Constants
<1> HIDE DEF b
<1>7. Rereferenced(b, c, o, gone, retired')
  BY <1>2, <1>5, <1>6, ClearedReferences
<1> HIDE DEF c
<1>8. IsFiniteSet(mine) /\ IsFiniteSet(pending') /\ pending' \subseteq pending
  BY <1>1, FS_Subset DEF BucketsInv, References
<1> HIDE DEF mine
<1>9. Follows(c, cache')
  BY <1>1, <1>7, <1>8, DestroyedFollows DEF Rereferenced
<1>10. ASSUME NEW p \in Owners PROVE Referenced(cache', p, miner'[p], retired')
  <2>1. Referenced(c, p, miner'[p], retired')
    <3>1. CASE p = o
      BY <1>3, <1>7, <3>1 DEF Rereferenced
    <3>2. CASE p # o
      BY <1>3, <1>5, <1>7, <3>2, OtherReferences
    <3> QED BY <3>1, <3>2
  <2> QED BY <1>9, <2>1 DEF Referenced, Follows, SameReferences
<1>11. CacheInv(cache)' /\ \A t \in retired' : cache'.currentHeight[t] = 0
  BY <1>5, <1>7, <1>9 DEF Follows, SameReferences, CacheInv, Rereferenced
<1>12. References'
  <2>1. \A p \in pending' : p.res.global.sourceId \in Sources /\ p.res.global.height \in Heights
    BY <1>8 DEF BucketsInv, References
  <2> QED BY <1>8, <1>10, <1>11, <2>1 DEF References, Referenced, InUse
<1> QED BY <1>4, <1>12 DEF BucketsInv

LEMMA BucketsInit == Init => BucketsInv
<1> SUFFICES ASSUME Init PROVE BucketsInv
  OBVIOUS
<1>1. /\ cache = C!EmptyCache /\ miner = [o \in Owners |-> NewMiner]
      /\ retired = {} /\ pending = {}
  BY DEF Init
<1>2. NewMiner.source = 0 /\ NewMiner.jobs = <<>>
  BY DEF NewMiner
<1>3. SourcesOK
  BY <1>1, <1>2 DEF SourcesOK
<1>4. CacheInv(cache)
  <2>1. cache = CP!EmptyCache
    BY <1>1, SameOperations
  <2> QED BY <2>1, CacheConstants, CP!EmptyInv DEF CacheInv
<1>5. \A o \in Owners : Referenced(cache, o, miner[o], retired)
  BY <1>1, <1>2 DEF Referenced
<1>6. IsFiniteSet(pending)
  BY <1>1, FS_EmptySet
<1> QED BY <1>1, <1>3, <1>4, <1>5, <1>6 DEF BucketsInv, References

LEMMA BucketsNext ==
    ASSUME 0 \notin Owners, RequestsInv, RequestsInv', BucketsInv, [Next]_vars
    PROVE  BucketsInv'
<1>0. MinersOK /\ MinersOK' /\ SeedReady \subseteq BOOLEAN
  BY SeedReadyType DEF RequestsInv
<1>1. ASSUME NEW o \in Owners, NEW s \in Sources, NEW cl \in Clients,
             NEW ready \in SeedReady, NEW written \in BOOLEAN,
             Login(o, s, cl, ready, written) \/ Reconnect(o, s, cl, ready, written)
      PROVE  BucketsInv'
  <2>1. ready \in BOOLEAN
    BY <1>0
  <2> QED BY <1>0, <1>1, <2>1, BucketsLogin
<1>2. ASSUME NEW s \in Sources, NEW h \in Heights, NEW ready \in SeedReady,
             NEW failing \in SUBSET Owners, NewTemplate(s, h, ready, failing)
      PROVE  BucketsInv'
  <2>1. ready \in BOOLEAN
    BY <1>0
  <2> QED BY <1>0, <1>2, <2>1, BucketsTemplate
<1>3. ASSUME NEW o \in Owners, NEW written \in BOOLEAN, InstallDeferred(o, written)
      PROVE  BucketsInv'
  BY <1>0, <1>3, BucketsDeferred
<1>4. ASSUME NEW o \in Owners, ExpireJob(o) \/ ConnectionLost(o) \/ Disconnect(o) \/ Close(o)
      PROVE  BucketsInv'
  BY <1>0, <1>4, BucketsExpired, BucketsLost, BucketsDisconnect, BucketsClose
<1>5. ASSUME NEW o \in Owners, NEW t \in Tokens, NEW n \in Results, NEW c \in Results,
             Submit(o, t, n, c)
      PROVE  BucketsInv'
  <2>1. PICK m \in Results : \E x : NewShare(o, t, m, c, x)
    BY <1>5, SubmitShare
  <2>2. PICK x : NewShare(o, t, m, c, x)
    BY <2>1
  <2> QED BY <1>0, <2>2, BucketsSubmit
<1>6. ASSUME NEW p \in pending, Complete(p) PROVE BucketsInv'
  BY <1>0, <1>6, CompleteShare, BucketsComplete
<1>7. ASSUME NEW q \in inflight, NEW out, DaemonResult(q, out) PROVE BucketsInv'
  BY <1>0, <1>7, BucketsResult
<1>8. ASSUME UNCHANGED vars PROVE BucketsInv'
  <2>1. UNCHANGED <<cache, miner, retired, pending>>
    BY <1>8 DEF vars
  <2>2. SourcesOK'
    BY <2>1 DEF BucketsInv, SourcesOK
  <2>3. References'
    BY <2>1 DEF BucketsInv, References, CacheInv, Referenced, InUse
  <2> QED BY <2>2, <2>3 DEF BucketsInv
<1> QED BY <1>1, <1>2, <1>3, <1>4, <1>5, <1>6, <1>7, <1>8 DEF Next

LEMMA BucketsListed ==
    ASSUME MinersOK, BucketsInv
    PROVE  BucketForEligibleJob
<1> SUFFICES ASSUME NEW o \in Owners, NEW i \in DOMAIN miner[o].jobs, Eligible(miner[o], i),
                    miner[o].jobs[i].source \notin retired
             PROVE  C!hasHeight(cache, miner[o].jobs[i].source, miner[o].jobs[i].height)
  BY DEF BucketForEligibleJob
<1>0. miner[o].jobHeight \in Heights \cup {0}
  BY BucketsTypes, MinerFields
<1>1. miner[o].jobs[i] \in JobType
  BY BucketsTypes, MinerFields
<1>2. miner[o].jobs[i].source \in Sources /\ miner[o].jobs[i].height \in Heights
  BY <1>1 DEF JobType
<1>3. InUse(miner[o], i, retired)
  <2>1. miner[o].jobs[i].live /\ ~ isStale(miner[o].jobs[i].height, miner[o].jobHeight)
    BY DEF Eligible
  <2> DEFINE h == miner[o].jobs[i].height
             k == miner[o].jobHeight
  <2>2. h \in Nat /\ h # 0 /\ k \in Nat
    <3>1. h \in Heights /\ k \in Heights \cup {0}
      BY <1>0, <1>2
    <3> HIDE DEF h, k
    <3> QED BY <3>1, Constants
  <2>3. ~ (h # 0 /\ k > h)
    BY <2>1, Zenon DEF isStale, h, k
  <2> HIDE DEF h, k
  <2>4. h >= k
    BY <2>2, <2>3
  <2> QED BY <2>1, <2>4, Zenon DEF InUse, h, k
<1>4. /\ cache.ownerHeights[o].sourceId = miner[o].jobs[i].source
      /\ miner[o].jobs[i].height \in cache.ownerHeights[o].heights
  BY <1>3 DEF BucketsInv, References, Referenced
<1> QED BY <1>2, <1>4, ListedHeight DEF BucketsInv, References

\* The inductive invariant, for owners with keys other than 0: the cache references
\* the heights of every job in use, and of no source that is gone.
THEOREM BucketsInvariance ==
    ASSUME 0 \notin Owners
    PROVE  Spec => [](RequestsInv /\ BucketsInv)
<1>1. Init => RequestsInv /\ BucketsInv
  BY RequestsInit, BucketsInit
<1>2. RequestsInv /\ BucketsInv /\ [Next]_vars => (RequestsInv /\ BucketsInv)'
  BY RequestsNext, BucketsNext
<1> QED BY <1>1, <1>2, PTL DEF Spec

\* The last part of rememberJob against observeHeight and detachOwner: whatever the
\* other connections and the daemon do, the bucket of a job that a connected miner
\* may still submit exists.
THEOREM EligibleBuckets ==
    ASSUME 0 \notin Owners
    PROVE  Spec => []BucketForEligibleJob
<1>1. RequestsInv /\ BucketsInv => BucketForEligibleJob
  BY BucketsListed DEF RequestsInv
<1> QED BY <1>1, BucketsInvariance, PTL

(***************************************************************************)
(* Records of shares                                                       *)
(***************************************************************************)

\* Steps of a connection that take and finish no share only drop records.
Shrinks(c, d) == CacheInv(d) /\ d.entries \subseteq c.entries /\ d.sequence = c.sequence

LEMMA ShrinksTrans ==
    ASSUME NEW c, NEW d, NEW e, Shrinks(c, d), Shrinks(d, e)
    PROVE  Shrinks(c, e)
BY DEF Shrinks

LEMMA RemoveOwnerShrinks ==
    ASSUME NEW c, CacheInv(c), NEW o \in Owners
    PROVE  Shrinks(c, C!removeOwner(c, o))
BY RemoveOwnerEffect DEF Shrinks, CP!Keeps

LEMMA SetHeightsShrinks ==
    ASSUME NEW c, CacheInv(c), NEW o \in Owners, NEW s \in Sources, NEW H \in SUBSET Heights
    PROVE  Shrinks(c, C!setOwnerHeights(c, o, s, H))
<1> DEFINE d == C!setOwnerHeights(c, o, s, H)
<1>1. CacheInv(d) /\ CP!Keeps(c, d)
  BY SetHeightsEffect
<1> QED BY <1>1 DEF Shrinks, CP!Keeps

LEMMA EligibleHeightsType ==
    ASSUME NEW n \in MinerType, NEW s
    PROVE  eligibleHeights(n, s) \in SUBSET Heights
<1>1. n.jobs \in Seq(JobType)
  BY MinerFields
<1>2. ASSUME NEW i \in DOMAIN n.jobs PROVE n.jobs[i].height \in Heights
  <2>1. n.jobs[i] \in JobType
    BY <1>1
  <2> QED BY <2>1 DEF JobType
<1> QED BY <1>2 DEF eligibleHeights

LEMMA JobShrinks ==
    ASSUME NEW c, CacheInv(c), NEW o \in Owners, NEW old \in MinerType, old.source \in Sources,
           NEW h \in Heights, NEW written \in BOOLEAN
    PROVE  Shrinks(c, jobCache(c, o, old, h, written))
<1> DEFINE e == IF old.jobClient = old.client THEN c ELSE C!removeOwner(c, o)
           s == base(old).source
           n == sentMiner(base(old), h)
           H == eligibleHeights(n, s)
<1>1. Shrinks(c, e)
  BY RemoveOwnerShrinks DEF Shrinks
<1>2. s \in Sources /\ H \in SUBSET Heights
  <2>1. s = old.source
    BY BaseFields
  <2>2. n \in MinerType
    BY SentJobs
  <2> HIDE DEF n, s
  <2> QED BY <2>1, <2>2, EligibleHeightsType
<1>3. jobCache(c, o, old, h, written) = e
          \/ jobCache(c, o, old, h, written) = C!setOwnerHeights(e, o, s, H)
  BY Zenon DEF jobCache, sentMiner
<1> HIDE DEF e, s, n, H
<1>4. Shrinks(e, C!setOwnerHeights(e, o, s, H))
  BY <1>1, <1>2, SetHeightsShrinks DEF Shrinks
<1> QED BY <1>1, <1>3, <1>4, ShrinksTrans

LEMMA TemplateShrinks ==
    ASSUME NEW c, CacheInv(c), NEW o \in Owners, NEW old \in MinerType, old.source \in Sources,
           NEW h \in Heights, NEW ready \in BOOLEAN, NEW written \in BOOLEAN
    PROVE  Shrinks(c, templateCache(c, o, old, h, ready, written))
<1>1. templateCache(c, o, old, h, ready, written) = jobCache(c, o, old, h, written)
          \/ templateCache(c, o, old, h, ready, written) = c
  BY Zenon DEF templateCache
<1>2. Shrinks(c, c)
  BY DEF Shrinks
<1>3. Shrinks(c, jobCache(c, o, old, h, written))
  BY JobShrinks
<1> QED BY <1>1, <1>2, <1>3

LEMMA DeliveredShrinks ==
    ASSUME NEW S \in SUBSET Owners, IsFiniteSet(S), NEW c, CacheInv(c), NEW mm \in [Owners -> MinerType],
           \A o \in S : mm[o].source \in Sources,
           NEW h \in Heights, NEW ready \in BOOLEAN, NEW failing, NEW F,
           IsDelivery(F, SUBSET S, [cache |-> c, miner |-> mm], h, ready, failing)
    PROVE  Shrinks(c, F[S].cache)
<1>0. DeliveredBy(F, S, c, mm, h, ready, failing)
  BY DeliveryParts
<1> DEFINE G == {T \in SUBSET S : Shrinks(c, F[T].cache)}
<1>1. {} \in G
  <2>1. F[{}].cache = c
    BY <1>0, Zenon DEF DeliveredBy
  <2> QED BY <2>1 DEF Shrinks
<1>2. ASSUME NEW T \in SUBSET S, T # {}, T \ {Pick(T)} \in G
      PROVE  T \in G
  <2> DEFINE o == Pick(T)
             w == o \notin failing
             b == F[T \ {o}].cache
             d == F[T].cache
  <2>1. o \in T /\ o \in Owners /\ o \in S
    BY <1>2, PickIn
  <2>2. d = templateCache(b, o, mm[o], h, ready, w)
    BY <1>0, <1>2, Zenon DEF DeliveredBy
  <2>3. Shrinks(c, b) /\ w \in BOOLEAN
    BY <1>2
  <2>4. mm[o] \in MinerType /\ mm[o].source \in Sources
    BY <2>1
  <2> HIDE DEF o, w, b, d
  <2>5. Shrinks(b, templateCache(b, o, mm[o], h, ready, w))
    BY <2>1, <2>3, <2>4, TemplateShrinks DEF Shrinks
  <2>6. Shrinks(c, d)
    BY <2>2, <2>3, <2>5, ShrinksTrans
  <2> QED BY <2>6 DEF d
<1> HIDE DEF G
<1>3. \A T \in SUBSET S : T \in G
  BY <1>1, <1>2, SetInduction
<1> QED BY <1>3 DEF G

LEMMA SubscribeShrinks ==
    ASSUME MinersOK, CacheInv(cache), NEW o \in Owners, NEW s \in Sources, NEW cl \in Clients,
           NEW m0, MinerOK(m0), isWritable(m0),
           NEW ready \in BOOLEAN, NEW written \in BOOLEAN, subscribe(o, s, cl, m0, ready, written)
    PROVE  Shrinks(cache, cache')
<1> DEFINE m == subscribed(m0, s, cl)
<1>1. cache' = IF latest[s] = 0 THEN cache
               ELSE templateCache(cache, o, m, latest[s], ready, written)
  BY SubscribeParts
<1>2. m \in MinerType /\ m.source = s
  BY Subscribed DEF MinerOK
<1> HIDE DEF m
<1>3. CASE latest[s] = 0
  BY <1>1, <1>3 DEF Shrinks
<1>4. CASE latest[s] # 0
  <2>1. latest[s] \in Heights
    BY <1>4 DEF MinersOK
  <2>2. Shrinks(cache, templateCache(cache, o, m, latest[s], ready, written))
    BY <1>2, <2>1, TemplateShrinks
  <2> QED BY <1>1, <1>4, <2>2
<1> QED BY <1>3, <1>4

\* A step that takes no request drops no record it does not drop a bucket of.
LEMMA QuietShrinks ==
    ASSUME MinersOK, CacheInv(cache), QuietStep
    PROVE  Shrinks(cache, cache') /\ UNCHANGED <<log, pending>>
<1>1. UNCHANGED <<log, pending>>
  BY DEF QuietStep, Login, Reconnect, NewTemplate, InstallDeferred, ExpireJob, ConnectionLost
<1>2. ASSUME NEW o \in Owners, NEW s \in Sources, NEW cl \in Clients, NEW ready \in BOOLEAN,
             NEW written \in BOOLEAN, Login(o, s, cl, ready, written) \/ Reconnect(o, s, cl, ready, written)
      PROVE  Shrinks(cache, cache')
  <2>1. \E m0 : /\ MinerOK(m0) /\ isWritable(m0) /\ SameJobs(miner[o], m0)
                /\ subscribe(o, s, cl, m0, ready, written)
    BY <1>2, LoginParts, Zenon
  <2> QED BY <2>1, SubscribeShrinks
<1>3. ASSUME NEW s \in Sources, NEW h \in Heights, NEW ready \in BOOLEAN, NEW failing,
             NewTemplate(s, h, ready, failing)
      PROVE  Shrinks(cache, cache')
  <2> DEFINE S == subscribers(s)
  <2>1. S \in SUBSET Owners /\ IsFiniteSet(S) /\ DeliversTo(S, s, h, ready, failing)
    BY <1>3, NewTemplateParts
  <2>2. \A o \in S : miner[o].source \in Sources
    BY DEF subscribers
  <2> HIDE DEF S
  <2>3. PICK F : /\ IsDelivery(F, SUBSET S, [cache |-> cache, miner |-> miner], h, ready, failing)
                 /\ cache' = C!observeHeight(F[S].cache, s, h)
    BY <2>1, Zenon DEF DeliversTo
  <2>4. miner \in [Owners -> MinerType]
    BY DEF MinersOK
  <2>5. Shrinks(cache, F[S].cache)
    BY <2>1, <2>2, <2>3, <2>4, DeliveredShrinks
  <2>6. Shrinks(F[S].cache, cache')
    BY <2>3, <2>5, ObserveEffect DEF Shrinks, CP!Keeps
  <2> QED BY <2>5, <2>6, ShrinksTrans
<1>4. ASSUME NEW o \in Owners, NEW written \in BOOLEAN, InstallDeferred(o, written)
      PROVE  Shrinks(cache, cache')
  <2>1. /\ miner[o] \in MinerType /\ miner[o].deferred \in Heights /\ miner[o].source \in Sources
        /\ cache' = jobCache(cache, o, miner[o], miner[o].deferred, written)
    BY <1>4, DeferredParts
  <2> QED BY <2>1, JobShrinks
<1>5. ASSUME UNCHANGED cache
      PROVE  Shrinks(cache, cache')
  BY <1>5 DEF Shrinks
<1>6. SeedReady \subseteq BOOLEAN
  BY SeedReadyType
<1> QED BY <1>1, <1>2, <1>3, <1>4, <1>5, <1>6 DEF QuietStep, ExpireJob, ConnectionLost

\* The identity a request claims.
keyOf(r) == key(r.owner, r.token, r.claimed)

\* A share that keeps a record: it went to the daemon or was answered for good.
KeptFor(e, r) ==
    /\ e.key.owner = r.owner /\ e.key.token = r.token /\ e.key.result \in {r.claimed, r.nonce}
    /\ r.submitted \/ r.answers \in {<<"Rejected">>, <<"OK">>}

\* A pending share holds a reservation of the identity it claims.
HoldsOwn(p) ==
    /\ p.res = [global |-> p.res.global, computed |-> NoReservation]
    /\ p.res.global \in C!Reservation /\ p.res.global.key = keyOf(log[p.req])

Claims(e) == (\E p \in pending : p.res.global = e) \/ (\E q \in DOMAIN log : KeptFor(e, log[q]))

\* Every record is held by a pending share or kept for a request.
Records ==
    /\ CacheInv(cache) /\ IsFiniteSet(pending)
    /\ \A p \in pending : HoldsOwn(p)
    /\ \A e \in cache.entries : Claims(e)

\* Requests are never forgotten, nor what was made of them.
LogGrows ==
    \A q \in DOMAIN log :
        /\ q \in DOMAIN log'
        /\ log'[q].owner = log[q].owner /\ log'[q].token = log[q].token
        /\ log'[q].claimed = log[q].claimed /\ log'[q].nonce = log[q].nonce
        /\ log[q].submitted => log'[q].submitted
        /\ log[q].answers # <<>> => log'[q].answers = log[q].answers

LEMMA RecordsStep ==
    ASSUME RequestsOK, Records, CacheInv(cache'), IsFiniteSet(pending'), LogGrows,
           \A p \in pending' : p \in pending \/ HoldsOwn(p)',
           \A e \in cache'.entries : e \in cache.entries \/ Claims(e)',
           \A p \in pending : p \in pending' \/ p.res.global \notin cache'.entries \/ Claims(p.res.global)'
    PROVE  Records'
<1>1. ASSUME NEW p \in pending' PROVE HoldsOwn(p)'
  <2>1. CASE p \in pending
    <3>1. p.req \in DOMAIN log /\ HoldsOwn(p)
      BY <2>1 DEF Records, RequestsOK
    <3> QED BY <3>1 DEF HoldsOwn, LogGrows, keyOf
  <2> QED BY <2>1
<1>2. ASSUME NEW e, NEW q \in DOMAIN log, KeptFor(e, log[q]) PROVE q \in DOMAIN log' /\ KeptFor(e, log'[q])
  <2>1. log[q].answers \in {<<"Rejected">>, <<"OK">>} => log[q].answers # <<>>
    OBVIOUS
  <2> QED BY <1>2, <2>1 DEF KeptFor, LogGrows
<1>3. ASSUME NEW e \in cache'.entries PROVE Claims(e)'
  <2>1. CASE e \in cache.entries /\ \E p \in pending : p.res.global = e
    BY <2>1 DEF Claims
  <2>2. CASE e \in cache.entries /\ \E q \in DOMAIN log : KeptFor(e, log[q])
    BY <1>2, <2>2 DEF Claims
  <2> QED BY <2>1, <2>2 DEF Records, Claims
<1>4. CacheInv(cache)'
  BY DEF CacheInv
<1> QED BY <1>1, <1>3, <1>4 DEF Records

\* Nothing but records goes.
LEMMA RecordsFewer ==
    ASSUME RequestsOK, Records, Shrinks(cache, cache'), UNCHANGED pending, LogGrows
    PROVE  Records'
<1>1. CacheInv(cache') /\ cache'.entries \subseteq cache.entries
  BY DEF Shrinks
<1> QED BY <1>1, RecordsStep DEF Records

LEMMA SameLogGrows == ASSUME log' = log PROVE LogGrows
BY DEF LogGrows

LEMMA AppendGrows ==
    ASSUME RequestsOK, NEW x \in RequestType, log' = Append(log, x)
    PROVE  LogGrows
<1>1. \A q \in DOMAIN log : q \in DOMAIN log' /\ log'[q] = log[q]
  BY Appended
<1> QED BY <1>1 DEF LogGrows

\* An owed request has no answer yet.
LEMMA OwedGrows ==
    ASSUME RequestsInv, NEW q \in DOMAIN log, Owed(q), OnlyRequest(q),
           log[q].submitted => log'[q].submitted
    PROVE  LogGrows
<1>1. log[q].answers = <<>>
  BY DEF RequestsInv, Answering
<1>2. ASSUME NEW i \in DOMAIN log
      PROVE  /\ i \in DOMAIN log'
             /\ log'[i].owner = log[i].owner /\ log'[i].token = log[i].token
             /\ log'[i].claimed = log[i].claimed /\ log'[i].nonce = log[i].nonce
             /\ log[i].submitted => log'[i].submitted
             /\ log[i].answers # <<>> => log'[i].answers = log[i].answers
  <2>1. CASE i = q
    BY <1>1, <2>1 DEF OnlyRequest, SameRequest
  <2>2. CASE i # q
    BY <2>2 DEF OnlyRequest
  <2> QED BY <2>1, <2>2
<1> QED BY <1>2 DEF LogGrows

LEMMA RecordsQuiet ==
    ASSUME RequestsInv, Records, QuietStep
    PROVE  Records'
<1>1. Shrinks(cache, cache') /\ UNCHANGED <<log, pending>>
  BY QuietShrinks DEF RequestsInv, Records
<1> QED BY <1>1, SameLogGrows, RecordsFewer DEF RequestsInv

LEMMA RecordsResult ==
    ASSUME RequestsInv, Records, NEW q \in inflight, NEW out, DaemonResult(q, out)
    PROVE  Records'
<1> DEFINE v == IF out = "OK" THEN "OK" ELSE "Rejected"
<1>1. log' = answer(log, q, v) /\ UNCHANGED <<cache, pending>>
  BY DEF DaemonResult
<1>2. v \in Answers
  BY DEF Answers
<1>3. q \in DOMAIN log /\ Owed(q)
  BY DEF RequestsInv, RequestsOK, Owed
<1> HIDE DEF v
<1>4. AnsweredWith(q, v)
  BY <1>1, <1>2, <1>3, AnswerOld DEF RequestsInv
<1>5. LogGrows
  BY <1>3, <1>4, OwedGrows DEF AnsweredWith
<1>6. Shrinks(cache, cache')
  BY <1>1 DEF Shrinks, Records
<1> QED BY <1>1, <1>5, <1>6, RecordsFewer DEF RequestsInv

\* The reservation of an admitted request.
LEMMA ReservedRecord ==
    ASSUME MinersOK, CacheInv(cache), NEW o \in Owners, NEW t \in Tokens, NEW c \in Results,
           Admitted(o, t, c)
    PROVE  /\ CacheInv(reserved(o, t, c)) /\ reservation(o, t, c).global \in C!Reservation
           /\ reserved(o, t, c).entries = cache.entries \cup {reservation(o, t, c).global}
           /\ reservation(o, t, c).global.key = key(o, t, c)
           /\ reservation(o, t, c) = [global |-> reservation(o, t, c).global, computed |-> NoReservation]
<1> DEFINE j == jobOf(o, t)
           k == key(o, t, c)
           r == C!newReservation(cache, j.source, j.height, k)
<1>1. j.source \in Sources /\ j.height \in Heights
  BY AdmittedJob DEF JobType
<1>2. C!reserveResult(cache, j.source, j.height, k) = "Accepted"
  BY AdmittedJob
<1>3. k \in Keys
  BY DEF Keys, key
<1>4. /\ reserved(o, t, c) = C!reserve(cache, j.source, j.height, k)
      /\ reservation(o, t, c) = [global |-> r, computed |-> NoReservation]
  BY Zenon DEF reserved, reservation
<1> HIDE DEF j, k, r
<1>5. /\ CacheInv(reserved(o, t, c)) /\ r \in C!Reservation
      /\ reserved(o, t, c).entries = cache.entries \cup {r} /\ r.key = k
  BY <1>1, <1>2, <1>3, <1>4, ReserveEffect DEF r
<1> QED BY <1>4, <1>5 DEF k

\* What became of the reservation of a new share: a pending share holds it, its
\* request keeps it, or it was released.
LEMMA ReservedCases ==
    ASSUME NEW k, NEW o, NEW t, NEW c, NEW ca, NEW res, NEW x, Reserved(k, o, t, c, ca, res, x)
    PROVE  \/ cache' = ca /\ \E p : pending' = pending \cup {p} /\ p.req = k /\ p.res = res
           \/ /\ cache' = ca /\ UNCHANGED pending
              /\ x.submitted \/ x.answers \in {<<"Rejected">>, <<"OK">>}
           \/ cache' = release2(ca, res) /\ UNCHANGED pending
           \/ cache' = release2(release2(ca, res), res) /\ UNCHANGED pending
BY Zenon DEF Reserved, Forwarded

LEMMA RecordsSubmit ==
    ASSUME RequestsInv, Records, NEW o \in Owners, NEW t \in Tokens, NEW n,
           NEW c \in Results, NEW x, NewShare(o, t, n, c, x)
    PROVE  Records'
<1> DEFINE ca == reserved(o, t, c)
           res == reservation(o, t, c)
           k == Len(log) + 1
<1>1. /\ MinersOK /\ RequestsOK /\ CacheInv(cache)
      /\ x \in RequestType /\ x.owner = o /\ x.token = t /\ x.claimed = c /\ log' = Append(log, x)
  BY DEF NewShare, NewRequest, RequestsInv, Records
<1>2. LogGrows /\ k \in DOMAIN log' /\ log'[k] = x
  BY <1>1, AppendGrows, Appended
<1>3. ASSUME Shrinks(cache, cache'), UNCHANGED pending
      PROVE  Records'
  BY <1>1, <1>2, <1>3, RecordsFewer
<1>4. CASE UNCHANGED <<cache, pending>>
  BY <1>1, <1>3, <1>4 DEF Shrinks
<1>5. CASE Admitted(o, t, c) /\ Reserved(k, o, t, c, ca, res, x)
  <2>1. /\ CacheInv(ca) /\ res.global \in C!Reservation
        /\ ca.entries = cache.entries \cup {res.global} /\ res.global.key = key(o, t, c)
        /\ res = [global |-> res.global, computed |-> NoReservation]
    BY <1>1, <1>5, ReservedRecord
  <2> HIDE DEF ca, res, k
  <2>2. CASE cache' = ca /\ \E p : pending' = pending \cup {p} /\ p.req = k /\ p.res = res
    <3>1. PICK p : pending' = pending \cup {p} /\ p.req = k /\ p.res = res
      BY <2>2
    <3>2. IsFiniteSet(pending')
      BY <3>1, FS_AddElement DEF Records
    <3>3. HoldsOwn(p)'
      BY <1>1, <1>2, <2>1, <3>1 DEF HoldsOwn, keyOf
    <3>4. \A e : e = res.global => Claims(e)'
      BY <3>1 DEF Claims
    <3>5. \A e \in cache'.entries : e \in cache.entries \/ Claims(e)'
      BY <2>1, <2>2, <3>4
    <3>6. \A r \in pending' : r \in pending \/ HoldsOwn(r)'
      BY <3>1, <3>3
    <3> QED BY <1>1, <1>2, <2>1, <2>2, <3>1, <3>2, <3>5, <3>6, RecordsStep
  <2>3. CASE /\ cache' = ca /\ UNCHANGED pending
             /\ x.submitted \/ x.answers \in {<<"Rejected">>, <<"OK">>}
    <3>1. KeptFor(res.global, x)
      BY <1>1, <2>1, <2>3 DEF KeptFor, key
    <3>2. \A e : e = res.global => Claims(e)'
      BY <1>2, <3>1 DEF Claims
    <3>3. \A e \in cache'.entries : e \in cache.entries \/ Claims(e)'
      BY <2>1, <2>3, <3>2
    <3> QED BY <1>1, <1>2, <2>1, <2>3, <3>3, RecordsStep DEF Records
  <2>4. ASSUME NEW d, CacheInv(d), d.entries \subseteq cache.entries, cache' = d, UNCHANGED pending
        PROVE  Records'
    BY <1>1, <1>2, <2>4, RecordsStep DEF Records
  <2>5. /\ CacheInv(release2(ca, res)) /\ release2(ca, res).entries \subseteq cache.entries
        /\ CacheInv(release2(release2(ca, res), res))
        /\ release2(release2(ca, res), res).entries \subseteq cache.entries
    <3> DEFINE d == release2(ca, res)
    <3>1. CacheInv(d) /\ d.entries = ca.entries \ {res.global, res.computed}
      BY <2>1, Release2Effect
    <3> HIDE DEF d
    <3>2. /\ CacheInv(release2(d, res))
          /\ release2(d, res).entries = d.entries \ {res.global, res.computed}
      BY <3>1, Release2Effect
    <3>3. d.entries \subseteq cache.entries
      BY <2>1, <3>1
    <3> QED BY <3>1, <3>2, <3>3 DEF d
  <2>6. CASE cache' = release2(ca, res) /\ UNCHANGED pending
    BY <2>4, <2>5, <2>6
  <2>7. CASE cache' = release2(release2(ca, res), res) /\ UNCHANGED pending
    BY <2>4, <2>5, <2>7
  <2> QED BY <1>5, <2>2, <2>3, <2>6, <2>7, ReservedCases DEF ca, res, k
<1> QED BY <1>4, <1>5 DEF NewShare

\* The record of the computed identity comes on top of that of the claimed one.
LEMMA ComputedRecord ==
    ASSUME RequestsInv, Records, NEW p \in pending
    PROVE  LET ca == withComputed(p).cache
               res == withComputed(p).res
               r == log[p.req]
           IN  /\ CacheInv(ca) /\ res.global = p.res.global
               /\ \A e \in ca.entries \ cache.entries :
                     /\ e = res.computed
                     /\ e.key.owner = r.owner /\ e.key.token = r.token /\ e.key.result = r.nonce
<1> DEFINE g == p.res.global
           k == key(p.owner, p.token, log[p.req].nonce)
           ca == withComputed(p).cache
           res == withComputed(p).res
<1>1. /\ p.req \in DOMAIN log /\ p.owner = log[p.req].owner /\ p.token = log[p.req].token
      /\ p.owner \in Owners /\ p.token \in Tokens /\ log[p.req].nonce \in Results
  <2>1. p.req \in DOMAIN log /\ p.owner = log[p.req].owner /\ p.token = log[p.req].token
    BY DEF RequestsInv, RequestsOK
  <2> QED BY <2>1, LogFields DEF RequestsInv
<1>2. k \in Keys /\ k.owner = log[p.req].owner /\ k.token = log[p.req].token /\ k.result = log[p.req].nonce
  BY <1>1 DEF Keys, key
<1>3. g \in C!Reservation /\ CacheInv(cache)
  BY DEF Records, HoldsOwn
<1>4. CASE computedIdentity(p) # "Accepted"
  <2>1. ca = cache /\ res = p.res
    BY <1>4 DEF withComputed
  <2> QED BY <1>3, <2>1
<1>5. CASE computedIdentity(p) = "Accepted"
  <2> DEFINE n == C!newReservation(cache, g.sourceId, g.height, k)
  <2>1. C!reserveResult(cache, g.sourceId, g.height, k) = "Accepted"
    BY <1>5 DEF computedIdentity
  <2>2. ca = C!reserve(cache, g.sourceId, g.height, k)
    BY <1>5 DEF withComputed
  <2>3. res = [p.res EXCEPT !.computed = n]
    BY <1>5 DEF withComputed
  <2>4. g.sourceId \in Sources /\ g.height \in Heights
    BY <1>3 DEF C!Reservation
  <2> HIDE DEF g, k, ca, res, n
  <2>5. CacheInv(ca) /\ ca.entries = cache.entries \cup {n} /\ n.key = k
    BY <1>2, <1>3, <2>1, <2>2, <2>4, ReserveEffect DEF n
  <2>6. res.global = p.res.global /\ res.computed = n
    <3>1. p.res = [global |-> p.res.global, computed |-> NoReservation]
      BY DEF Records, HoldsOwn
    <3> QED BY <2>3, <3>1
  <2> QED BY <1>2, <2>5, <2>6 DEF ca, res, k
<1> QED BY <1>4, <1>5

\* A share is finished with its records kept for its request, or released.
LEMMA FinishingCases ==
    ASSUME NEW p, NEW ca, NEW res, Finishing(p, ca, res), miner[log[p.req].owner].state = "ready"
    PROVE  /\ OnlyRequest(p.req) /\ (log[p.req].submitted => log'[p.req].submitted)
           /\ \/ cache' = release2(ca, res)
              \/ /\ cache' = ca
                 /\ log'[p.req].submitted \/ log'[p.req].answers \in {<<"Rejected">>, <<"OK">>}
<1>1. ASSUME NEW v, AnsweredWith(p.req, v)
      PROVE  /\ OnlyRequest(p.req) /\ (log[p.req].submitted => log'[p.req].submitted)
             /\ log'[p.req].answers = <<v>>
  BY <1>1 DEF AnsweredWith
<1>2. CASE AnsweredWith(p.req, "Retry") /\ cache' = release2(ca, res)
  BY <1>1, <1>2
<1>3. CASE \E v \in {"Rejected", "OK"} : AnsweredWith(p.req, v) /\ cache' = ca
  BY <1>1, <1>3
<1>4. CASE HandedOn(p.req, ca, res)
  BY <1>1, <1>4 DEF HandedOn
<1> QED BY <1>2, <1>3, <1>4 DEF Finishing

\* The verifier is done with share p, whose records are kept or gone.
LEMMA RecordsFinished ==
    ASSUME RequestsInv, Records, NEW p \in pending, Take(p), NEW ca, NEW res,
           CacheInv(ca), res.global = p.res.global, LogGrows, OnlyRequest(p.req),
           \A e \in ca.entries \ cache.entries :
               /\ e = res.computed
               /\ e.key.owner = log[p.req].owner /\ e.key.token = log[p.req].token
               /\ e.key.result = log[p.req].nonce,
           \/ cache' = release2(ca, res)
           \/ /\ cache' = ca
              /\ log'[p.req].submitted \/ log'[p.req].answers \in {<<"Rejected">>, <<"OK">>}
    PROVE  Records'
<1>1. /\ p.req \in DOMAIN log /\ pending' = {x \in pending : x.req # p.req}
      /\ \A x \in pending : x.req = p.req => x = p
  BY TakeParts DEF RequestsInv, RequestsOK
<1>2. IsFiniteSet(pending') /\ \A x \in pending' : x \in pending
  BY <1>1, FS_Subset DEF Records
<1>3. \A x \in pending : x \in pending' \/ x = p
  BY <1>1
<1>4. RequestsOK
  BY DEF RequestsInv
<1>5. CASE cache' = release2(ca, res)
  <2>1. CacheInv(cache') /\ cache'.entries = ca.entries \ {res.global, res.computed}
    BY <1>5, Release2Effect
  <2>2. cache'.entries \subseteq cache.entries /\ p.res.global \notin cache'.entries
    BY <2>1
  <2> QED BY <1>2, <1>3, <1>4, <2>1, <2>2, RecordsStep
<1>6. CASE /\ cache' = ca
           /\ log'[p.req].submitted \/ log'[p.req].answers \in {<<"Rejected">>, <<"OK">>}
  <2>1. /\ p.req \in DOMAIN log' /\ log'[p.req].owner = log[p.req].owner
        /\ log'[p.req].token = log[p.req].token /\ log'[p.req].claimed = log[p.req].claimed
        /\ log'[p.req].nonce = log[p.req].nonce
    BY <1>1 DEF LogGrows
  <2>2. ASSUME NEW e, e.key.owner = log[p.req].owner, e.key.token = log[p.req].token,
               e.key.result \in {log[p.req].claimed, log[p.req].nonce}
        PROVE  Claims(e)'
    <3>1. KeptFor(e, log'[p.req])
      BY <1>6, <2>1, <2>2 DEF KeptFor
    <3> QED BY <2>1, <3>1 DEF Claims
  <2>3. \A e \in cache'.entries : e \in cache.entries \/ Claims(e)'
    BY <1>6, <2>2
  <2>4. Claims(p.res.global)'
    <3>1. p.res.global.key = keyOf(log[p.req])
      BY DEF Records, HoldsOwn
    <3> QED BY <2>2, <3>1 DEF keyOf, key
  <2> QED BY <1>2, <1>3, <1>4, <1>6, <2>3, <2>4, RecordsStep
<1> QED BY <1>5, <1>6

LEMMA RecordsComplete ==
    ASSUME RequestsInv, Records, NEW p \in pending, FinishedShare(p)
    PROVE  Records'
<1>1. Take(p)
  BY DEF FinishedShare
<1>2. p.req \in DOMAIN log /\ Owed(p.req) /\ p.owner = log[p.req].owner /\ CacheInv(cache)
  BY <1>1, TakeParts DEF Records
<1>3. CASE cache' = release2(cache, p.res) /\ log' = log
  <2>1. LogGrows /\ OnlyRequest(p.req)
    BY <1>2, <1>3, SameLogGrows, SameLog
  <2> QED BY <1>1, <1>2, <1>3, <2>1, RecordsFinished
<1>4. ASSUME NEW ca, NEW res, Finishing(p, ca, res), miner[p.owner].state = "ready",
             CacheInv(ca), res.global = p.res.global,
             \A e \in ca.entries \ cache.entries :
                 /\ e = res.computed
                 /\ e.key.owner = log[p.req].owner /\ e.key.token = log[p.req].token
                 /\ e.key.result = log[p.req].nonce
      PROVE  Records'
  <2>1. /\ OnlyRequest(p.req) /\ (log[p.req].submitted => log'[p.req].submitted)
        /\ \/ cache' = release2(ca, res)
           \/ /\ cache' = ca
              /\ log'[p.req].submitted \/ log'[p.req].answers \in {<<"Rejected">>, <<"OK">>}
    BY <1>2, <1>4, FinishingCases
  <2>2. LogGrows
    BY <1>2, <2>1, OwedGrows
  <2> QED BY <1>1, <1>4, <2>1, <2>2, RecordsFinished
<1>5. CASE miner[p.owner].state = "ready" /\ Finishing(p, cache, p.res)
  BY <1>2, <1>4, <1>5
<1>6. CASE miner[p.owner].state = "ready" /\ Finishing(p, withComputed(p).cache, withComputed(p).res)
  <2> DEFINE ca == withComputed(p).cache
             res == withComputed(p).res
  <2>1. /\ CacheInv(ca) /\ res.global = p.res.global
        /\ \A e \in ca.entries \ cache.entries :
              /\ e = res.computed
              /\ e.key.owner = log[p.req].owner /\ e.key.token = log[p.req].token
              /\ e.key.result = log[p.req].nonce
    BY ComputedRecord
  <2>2. Finishing(p, ca, res)
    BY <1>6
  <2> HIDE DEF ca, res
  <2> QED BY <1>4, <1>6, <2>1, <2>2
<1> QED BY <1>3, <1>5, <1>6 DEF FinishedShare

LEMMA LeftShrinks ==
    ASSUME MinersOK, NEW c, CacheInv(c), NEW o \in Owners, NEW d, d = releaseSource(c, miner[o].source, o)
    PROVE  Shrinks(c, d)
<1> DEFINE s == miner[o].source
<1>1. s \in Sources \cup {0}
  BY MinerFields DEF MinersOK
<1>2. CASE s # 0 /\ subscribers(s) = {o}
  <2>1. d = C!removeSource(c, s) /\ s \in Sources
    BY <1>1, <1>2 DEF releaseSource
  <2> QED BY <2>1, RemoveSourceEffect DEF Shrinks, CP!Keeps
<1>3. CASE ~ (s # 0 /\ subscribers(s) = {o})
  <2>1. d = c
    BY <1>3 DEF releaseSource
  <2> QED BY <2>1 DEF Shrinks
<1> QED BY <1>2, <1>3

LEMMA DisconnectGrows ==
    ASSUME RequestsInv, NEW o \in Owners, Disconnect(o)
    PROVE  LogGrows
<1> DEFINE mine == {q \in inflight : log[q].owner = o}
<1>1. log' = [q \in DOMAIN log |-> IF q \in mine THEN answer(log, q, "Rejected")[q] ELSE log[q]]
  BY DEF Disconnect
<1>2. ASSUME NEW q \in DOMAIN log
      PROVE  /\ q \in DOMAIN log'
             /\ log'[q].owner = log[q].owner /\ log'[q].token = log[q].token
             /\ log'[q].claimed = log[q].claimed /\ log'[q].nonce = log[q].nonce
             /\ log[q].submitted => log'[q].submitted
             /\ log[q].answers # <<>> => log'[q].answers = log[q].answers
  <2>1. CASE q \in mine
    <3> DEFINE lg == answer(log, q, "Rejected")
    <3>1. Owed(q) /\ "Rejected" \in Answers
      BY <2>1 DEF Owed, Answers
    <3>2. log[q].answers = <<>>
      BY <3>1 DEF RequestsInv, Answering
    <3>3. /\ lg[q].owner = log[q].owner /\ lg[q].token = log[q].token
          /\ lg[q].nonce = log[q].nonce /\ lg[q].claimed = log[q].claimed
          /\ lg[q].submitted = log[q].submitted
      BY <3>1, AnswerParts DEF RequestsInv
    <3>4. log'[q] = lg[q] /\ q \in DOMAIN log'
      BY <1>1, <2>1
    <3> HIDE DEF lg
    <3> QED BY <3>2, <3>3, <3>4
  <2>2. CASE q \notin mine
    <3>1. log'[q] = log[q] /\ q \in DOMAIN log'
      BY <1>1, <2>2
    <3> QED BY <3>1
  <2> QED BY <2>1, <2>2
<1>q. QED
  BY <1>2 DEF LogGrows

LEMMA RecordsDisconnect ==
    ASSUME RequestsInv, Records, NEW o \in Owners, Disconnect(o)
    PROVE  Records'
<1>1. cache' = releaseSource(cache, miner[o].source, o) /\ UNCHANGED pending
  BY DEF Disconnect
<1>2. Shrinks(cache, cache')
  BY <1>1, LeftShrinks DEF RequestsInv, Records
<1>3. LogGrows
  BY DisconnectGrows
<1> QED BY <1>1, <1>2, <1>3, RecordsFewer DEF RequestsInv

\* The shares of a connection that goes away take their records along.
Dropped(c, S, d) ==
    /\ CacheInv(d) /\ d.entries \subseteq c.entries /\ d.sequence = c.sequence
    /\ \A p \in S : p.res.global \notin d.entries

LEMMA DestroyedDropped ==
    ASSUME NEW S, IsFiniteSet(S), NEW c, CacheInv(c)
    PROVE  Dropped(c, S, destroyed(c, S))
<1>1. PICK F : IsDestruction(F, SUBSET S, c) /\ destroyed(c, S) = F[S]
  BY Destruction
<1> DEFINE G == {T \in SUBSET S : Dropped(c, T, F[T])}
<1>2. {} \in G
  <2>1. F[{}] = c
    BY <1>1 DEF IsDestruction
  <2> QED BY <2>1 DEF Dropped
<1>3. ASSUME NEW T \in SUBSET S, T # {}, T \ {Pick(T)} \in G
      PROVE  T \in G
  <2> DEFINE b == F[T \ {Pick(T)}]
             r == Pick(T).res
  <2>1. F[T] = release2(b, r)
    BY <1>1, <1>3 DEF IsDestruction
  <2>2. Dropped(c, T \ {Pick(T)}, b)
    BY <1>3
  <2> HIDE DEF b
  <2>3. CacheInv(b)
    BY <2>2 DEF Dropped
  <2>4. /\ CacheInv(release2(b, r)) /\ release2(b, r).entries = b.entries \ {r.global, r.computed}
        /\ release2(b, r).sequence = b.sequence
    BY <2>3, Release2Effect
  <2>5. Dropped(c, T, F[T])
    <3>1. \A p \in T : p = Pick(T) \/ p \in T \ {Pick(T)}
      OBVIOUS
    <3> QED BY <2>1, <2>2, <2>4, <3>1 DEF Dropped
  <2> QED BY <2>5
<1> HIDE DEF G
<1>4. \A T \in SUBSET S : T \in G
  BY <1>2, <1>3, SetInduction
<1> QED BY <1>1, <1>4 DEF G

LEMMA RecordsClose ==
    ASSUME RequestsInv, Records, NEW o \in Owners, Close(o)
    PROVE  Records'
<1> DEFINE mine == {p \in pending : p.owner = o}
           b == releaseSource(cache, miner[o].source, o)
           c == C!removeOwner(b, o)
<1>1. pending' = pending \ mine /\ cache' = destroyed(c, mine) /\ log' = log
  BY DEF Close
<1>2. IsFiniteSet(mine) /\ IsFiniteSet(pending')
  BY <1>1, FS_Subset DEF Records
<1>3. Shrinks(cache, b)
  BY LeftShrinks DEF RequestsInv, Records
<1> HIDE DEF b
<1>4. Shrinks(b, c)
  BY <1>3, RemoveOwnerShrinks DEF Shrinks
<1>5. Shrinks(cache, c)
  BY <1>3, <1>4, ShrinksTrans
<1> HIDE DEF c
<1>6. Dropped(c, mine, cache')
  BY <1>1, <1>2, <1>5, DestroyedDropped DEF Shrinks
<1>7. CacheInv(cache') /\ cache'.entries \subseteq cache.entries
  BY <1>5, <1>6 DEF Shrinks, Dropped
<1>8. \A p \in pending : p \in pending' \/ p.res.global \notin cache'.entries
  BY <1>1, <1>6 DEF Dropped
<1>9. LogGrows
  BY <1>1, SameLogGrows
<1> HIDE DEF mine
<1> QED BY <1>1, <1>2, <1>7, <1>8, <1>9, RecordsStep DEF RequestsInv

LEMMA RecordsInit == Init => Records
<1> SUFFICES ASSUME Init PROVE Records
  OBVIOUS
<1>1. cache = C!EmptyCache /\ pending = {}
  BY DEF Init
<1>2. CacheInv(cache) /\ cache.entries = {}
  BY <1>1, SameOperations, CacheConstants, CP!EmptyInv DEF CacheInv
<1> QED BY <1>1, <1>2, FS_EmptySet DEF Records

LEMMA RecordsNext == RequestsInv /\ Records /\ [Next]_vars => Records'
<1> SUFFICES ASSUME RequestsInv, Records, [Next]_vars PROVE Records'
  OBVIOUS
<1>1. CASE QuietStep
  BY <1>1, RecordsQuiet
<1>2. ASSUME NEW o \in Owners, Disconnect(o) PROVE Records'
  BY <1>2, RecordsDisconnect
<1>3. ASSUME NEW o \in Owners, Close(o) PROVE Records'
  BY <1>3, RecordsClose
<1>4. ASSUME NEW o \in Owners, NEW t \in Tokens, NEW n \in Results, NEW c \in Results, Submit(o, t, n, c)
      PROVE  Records'
  <2>1. PICK m \in Results : \E x : NewShare(o, t, m, c, x)
    BY <1>4, SubmitShare
  <2>2. PICK x : NewShare(o, t, m, c, x)
    BY <2>1
  <2> QED BY <2>2, RecordsSubmit
<1>5. ASSUME NEW p \in pending, Complete(p) PROVE Records'
  BY <1>5, CompleteShare, RecordsComplete
<1>6. ASSUME NEW q \in inflight, NEW out, DaemonResult(q, out) PROVE Records'
  BY <1>6, RecordsResult
<1>7. CASE UNCHANGED vars
  <2>1. Shrinks(cache, cache') /\ UNCHANGED <<log, pending>>
    BY <1>7 DEF vars, Shrinks, Records
  <2> QED BY <2>1, SameLogGrows, RecordsFewer DEF RequestsInv
<1> QED BY <1>1, <1>2, <1>3, <1>4, <1>5, <1>6, <1>7 DEF Next, QuietStep

\* The inductive invariant: every record of the cache is held by a share in the
\* verifier or kept for a request that was answered for good or went to the daemon.
THEOREM RecordsInvariance == Spec => []Records
<1>1. RequestsInv /\ Records /\ [Next]_vars => Records'
  BY RecordsNext
<1> QED BY RequestsInvariance, RecordsInit, <1>1, PTL DEF Spec

\* An indexed key has a record, and a record has a share that claims it.
LEMMA NoneLeaked ==
    ASSUME RequestsInv, Records
    PROVE  NoLeakedReservation
<1> SUFFICES ASSUME NEW k \in Keys, cache.keys[k] # 0
             PROVE  \E q \in DOMAIN log :
                        /\ log[q].owner = k.owner /\ log[q].token = k.token
                        /\ k.result \in {log[q].claimed, log[q].nonce}
                        /\ Claimed(q) \/ log[q].submitted \/ log[q].answers = <<"Rejected">>
  BY DEF NoLeakedReservation
<1>1. PICK e \in cache.entries : e.key = k
  BY DEF Records, CacheInv, CP!CacheInv, CP!Shape, CP!IndexMatches
<1>2. Claims(e)
  BY DEF Records
<1>3. CASE \E p \in pending : p.res.global = e
  <2>1. PICK p \in pending : p.res.global = e
    BY <1>3
  <2>2. p.req \in DOMAIN log /\ k = keyOf(log[p.req])
    BY <1>1, <2>1 DEF Records, HoldsOwn, RequestsInv, RequestsOK
  <2>3. Claimed(p.req)
    BY DEF Claimed
  <2> QED BY <2>2, <2>3 DEF keyOf, key
<1>4. CASE \E q \in DOMAIN log : KeptFor(e, log[q])
  <2>1. PICK q \in DOMAIN log : KeptFor(e, log[q])
    BY <1>4
  <2>2. log[q].answers = <<"OK">> => Claimed(q)
    BY DEF Claimed
  <2> QED BY <1>1, <2>1, <2>2 DEF KeptFor
<1> QED BY <1>2, <1>3, <1>4 DEF Claims

\* Every path out of parseRequest and completeVerification that leaves a share free
\* to be tried again releases both of its identities.
THEOREM NoneLeakedTheorem == Spec => []NoLeakedReservation
<1> QED BY RequestsInvariance, RecordsInvariance, NoneLeaked, PTL

(***************************************************************************)
(* Shares that are relied upon                                             *)
(***************************************************************************)

\* The height of a miner's jobs follows that of their source, la, which no
\* reorganisation takes back: a job that became stale stays stale.
HeightOK(m, la, R) ==
    /\ m.deferred # 0 => m.deferred = la[m.source]
    /\ \A i \in DOMAIN m.jobs : m.jobs[i].source \notin R => m.jobHeight <= la[m.jobs[i].source]

HeightsOK == \A o \in Owners : HeightOK(miner[o], latest, retired)

\* Job k of m is job i of n.
SameJob(m, k, n, i) ==
    /\ m.jobs[k].token = n.jobs[i].token /\ m.jobs[k].source = n.jobs[i].source
    /\ m.jobs[k].height = n.jobs[i].height

\* A job in use is new or was in use before.
Continues(m, n, R, R2) ==
    \A i \in DOMAIN n.jobs : InUse(n, i, R2) =>
        \/ n.jobs[i].token > m.sequence
        \/ \E k \in DOMAIN m.jobs : SameJob(m, k, n, i) /\ InUse(m, k, R)

LEMMA JobFields ==
    ASSUME NEW m \in MinerType, NEW i \in DOMAIN m.jobs
    PROVE  /\ m.jobs[i] \in JobType /\ m.jobs[i].token \in Nat /\ m.jobs[i].height \in Heights
           /\ m.jobs[i].source \in Sources /\ m.jobs[i].live \in BOOLEAN
<1>1. m.jobs \in Seq(JobType)
  BY MinerFields
<1>2. m.jobs[i] \in JobType
  BY <1>1
<1> QED BY <1>2 DEF JobType

LEMMA HeightsNat == \A x \in Heights \cup {0} : x \in Nat
<1> SUFFICES ASSUME NEW x \in Heights PROVE x \in Nat
  OBVIOUS
<1> QED BY Constants

LEMMA SameJobsContinue ==
    ASSUME NEW m, NEW n, n.jobs = m.jobs, n.jobHeight = m.jobHeight, NEW R, NEW R2, R \subseteq R2
    PROVE  Continues(m, n, R, R2)
<1> SUFFICES ASSUME NEW i \in DOMAIN n.jobs, InUse(n, i, R2)
             PROVE  \E k \in DOMAIN m.jobs : SameJob(m, k, n, i) /\ InUse(m, k, R)
  BY DEF Continues
<1>1. i \in DOMAIN m.jobs /\ SameJob(m, i, n, i) /\ InUse(m, i, R)
  BY DEF SameJob, InUse
<1> QED BY <1>1

\* A template that was sent: only the jobs of the client stay, at the new height.
LEMMA SentWork ==
    ASSUME NEW R, NEW old \in MinerType, old.source \in Sources \ R, OwnJobs(old, R),
           NEW la \in [Sources -> Heights \cup {0}], HeightOK(old, la, R),
           NEW h \in Heights, la[old.source] <= h, NEW n, n = sentMiner(base(old), h)
    PROVE  /\ n.jobHeight = h /\ n.deferred = 0
           /\ \A i \in DOMAIN n.jobs : n.jobs[i].source \notin R => n.jobs[i].source = old.source
           /\ Continues(old, n, R, R)
           /\ old.jobClient # old.client => \A i \in DOMAIN n.jobs : n.jobs[i].token > old.sequence
<1> DEFINE m == base(old)
<1>1. /\ m \in MinerType /\ m.source = old.source /\ m.sequence = old.sequence /\ m.deferred = 0
      /\ old.jobClient = old.client => m.jobs = old.jobs
      /\ old.jobClient # old.client => m.jobs = <<>>
  BY BaseFields
<1>2. old.sequence \in Nat /\ old.jobHeight \in Heights \cup {0}
  BY MinerFields
<1> HIDE DEF m
<1>3. /\ n.jobHeight = h /\ n.deferred = m.deferred
      /\ \A i \in DOMAIN n.jobs : IF i = 1 THEN n.jobs[i] = newJob(m, h)
                                  ELSE i - 1 \in DOMAIN m.jobs /\ n.jobs[i] = m.jobs[i - 1]
  <2>1. n = sentMiner(m, h)
    BY DEF m
  <2>2. m.source \in Sources
    BY <1>1
  <2> QED BY <1>1, <2>1, <2>2, Remembered
<1>4. ASSUME NEW i \in DOMAIN n.jobs
      PROVE  \/ n.jobs[i].token > old.sequence /\ n.jobs[i].source = old.source
             \/ /\ old.jobClient = old.client
                /\ i - 1 \in DOMAIN old.jobs /\ n.jobs[i] = old.jobs[i - 1]
  <2>1. CASE i = 1
    <3>1. n.jobs[i] = newJob(m, h)
      BY <1>3, <2>1
    <3>2. n.jobs[i].token = m.sequence + 1 /\ n.jobs[i].source = m.source
      BY <3>1 DEF newJob
    <3> QED BY <1>1, <1>2, <3>2
  <2>2. CASE i # 1
    <3>1. i - 1 \in DOMAIN m.jobs /\ n.jobs[i] = m.jobs[i - 1]
      BY <1>3, <2>2
    <3>2. old.jobClient = old.client
      BY <1>1, <3>1
    <3> QED BY <1>1, <3>1, <3>2
  <2> QED BY <2>1, <2>2
<1>5. \A i \in DOMAIN n.jobs : n.jobs[i].source \notin R => n.jobs[i].source = old.source
  BY <1>4 DEF OwnJobs
<1>6. ASSUME NEW i \in DOMAIN n.jobs, InUse(n, i, R), ~ n.jobs[i].token > old.sequence
      PROVE  \E k \in DOMAIN old.jobs : SameJob(old, k, n, i) /\ InUse(old, k, R)
  <2> DEFINE k == i - 1
  <2>1. k \in DOMAIN old.jobs /\ n.jobs[i] = old.jobs[k]
    BY <1>4, <1>6
  <2> HIDE DEF k
  <2>2. n.jobs[i].live /\ n.jobs[i].height >= h /\ n.jobs[i].source \notin R
    BY <1>3, <1>6 DEF InUse
  <2>3. old.jobHeight <= la[old.source]
    BY <1>5, <2>1, <2>2 DEF HeightOK
  <2>4. old.jobs[k].height \in Heights
    BY <2>1, JobFields
  <2>5. la[old.source] \in Nat /\ old.jobHeight \in Nat /\ h \in Nat /\ old.jobs[k].height \in Nat
    <3>1. la[old.source] \in Heights \cup {0}
      OBVIOUS
    <3> QED BY <1>2, <2>4, <3>1, HeightsNat
  <2>6. old.jobs[k].height >= old.jobHeight
    <3> DEFINE x == la[old.source]
               y == old.jobHeight
               z == old.jobs[k].height
    <3>1. x <= h /\ y <= x /\ z >= h /\ x \in Nat /\ y \in Nat /\ z \in Nat /\ h \in Nat
      BY <2>1, <2>2, <2>3, <2>5
    <3> HIDE DEF x, y, z
    <3>2. z >= y
      BY <3>1
    <3> QED BY <3>2 DEF y, z
  <2>7. SameJob(old, k, n, i) /\ InUse(old, k, R)
    BY <2>1, <2>2, <2>6 DEF SameJob, InUse
  <2> QED BY <2>1, <2>7
<1>7. Continues(old, n, R, R)
  BY <1>6 DEF Continues
<1> QED BY <1>1, <1>3, <1>4, <1>5, <1>7

\* A template that was not sent, or whose snapshot waits, changes no job, or drops
\* those of another client.
LEMMA UnsentWork ==
    ASSUME NEW R, NEW old \in MinerType, NEW h, NEW ready \in BOOLEAN, NEW written \in BOOLEAN,
           ~ ready \/ ~ isWritable(old) \/ ~ written, NEW n, n = templateMiner(old, h, ready, written)
    PROVE  /\ n.deferred = IF ready THEN 0 ELSE h
           /\ n.jobs = <<>> \/ (n.jobs = old.jobs /\ n.jobHeight = old.jobHeight)
           /\ ready /\ old.jobClient # old.client => n.jobs = <<>>
<1>1. CASE ready
  <2>1. n = jobMiner(old, h, written)
    BY <1>1 DEF templateMiner
  <2>2. /\ old.jobClient = old.client => n.jobs = old.jobs /\ n.jobHeight = old.jobHeight
        /\ old.jobClient # old.client => n.jobs = <<>>
    <3> DEFINE k == jobMiner(old, h, written)
    <3>1. CASE ~ isWritable(old) \/ ~ written
      <4>1. /\ old.jobClient = old.client => k.jobs = old.jobs /\ k.jobHeight = old.jobHeight
            /\ old.jobClient # old.client => k.jobs = <<>>
        BY <3>1, UnsentJobs
      <4> QED BY <2>1, <4>1
    <3> QED BY <1>1, <3>1
  <2>3. n.deferred = 0
    <3>1. base(old) \in MinerType /\ base(old).deferred = 0
      BY BaseFields
    <3>2. n = base(old) \/ n = shutdown(base(old))
      <4>1. isWritable(base(old)) <=> isWritable(old)
        BY BaseFields DEF isWritable
      <4> QED BY <1>1, <2>1, <4>1 DEF jobMiner
    <3>3. SameBut(base(old), shutdown(base(old)))
      BY <3>1, Shutdown
    <3> QED BY <3>1, <3>2, <3>3 DEF SameBut
  <2> QED BY <1>1, <2>2, <2>3
<1>2. CASE ~ ready
  <2>1. n = [old EXCEPT !.deferred = h]
    BY <1>2 DEF templateMiner
  <2> QED BY <1>2, <2>1 DEF MinerType
<1> QED BY <1>1, <1>2

\* The heights of a source's templates, lb after la.
Rises(la, lb) ==
    /\ la \in [Sources -> Heights \cup {0}] /\ lb \in [Sources -> Heights \cup {0}]
    /\ \A s \in Sources : la[s] <= lb[s]

\* A miner whose jobs are those of old, or none.
LEMMA KeptHeight ==
    ASSUME NEW R, NEW old \in MinerType, NEW la, HeightOK(old, la, R), NEW lb, Rises(la, lb),
           NEW n, n.jobs = <<>> \/ (n.jobs = old.jobs /\ n.jobHeight = old.jobHeight),
           n.deferred # 0 => n.deferred = lb[n.source]
    PROVE  HeightOK(n, lb, R)
<1> SUFFICES ASSUME NEW i \in DOMAIN n.jobs, n.jobs[i].source \notin R
             PROVE  n.jobHeight <= lb[n.jobs[i].source]
  BY DEF HeightOK
<1> DEFINE s == old.jobs[i].source
<1>1. i \in DOMAIN old.jobs /\ n.jobs = old.jobs /\ n.jobHeight = old.jobHeight
  OBVIOUS
<1>2. s \in Sources /\ s \notin R /\ old.jobHeight \in Heights \cup {0}
  BY <1>1, JobFields, MinerFields
<1>3. old.jobHeight <= la[s]
  BY <1>1, <1>2 DEF HeightOK
<1> HIDE DEF s
<1>4. la[s] <= lb[s] /\ la[s] \in Heights \cup {0} /\ lb[s] \in Heights \cup {0}
  BY <1>2 DEF Rises
<1>5. old.jobHeight <= lb[s]
  <2> DEFINE x == la[s]
             y == lb[s]
             z == old.jobHeight
  <2>1. x \in Nat /\ y \in Nat /\ z \in Nat
    BY <1>2, <1>4, HeightsNat
  <2>2. z <= x /\ x <= y
    BY <1>3, <1>4
  <2> HIDE DEF x, y, z
  <2>3. z <= y
    BY <2>1, <2>2
  <2> QED BY <2>3 DEF y, z
<1> QED BY <1>1, <1>5 DEF s

\* A template reaches a connection whose source is at height h now.
TemplateWorks(old, n, ready, lb, R) ==
    /\ HeightOK(n, lb, R) /\ Continues(old, n, R, R)
    /\ ready /\ old.jobClient # old.client => \A i \in DOMAIN n.jobs : n.jobs[i].token > old.sequence

LEMMA TemplateWork ==
    ASSUME NEW R, NEW old \in MinerType, old.source \in Sources \ R, OwnJobs(old, R),
           NEW la, HeightOK(old, la, R), NEW lb, Rises(la, lb),
           NEW h \in Heights, h = lb[old.source], NEW ready \in BOOLEAN, NEW written \in BOOLEAN,
           NEW n, n = templateMiner(old, h, ready, written)
    PROVE  TemplateWorks(old, n, ready, lb, R)
<1>0. n.source = old.source
  BY TemplateMinerFrom
<1>1. CASE ready /\ isWritable(old) /\ written
  <2>1. n = sentMiner(base(old), h)
    BY <1>1, SentNow DEF templateMiner
  <2>2. la \in [Sources -> Heights \cup {0}] /\ la[old.source] <= h
    BY DEF Rises
  <2>3. /\ n.jobHeight = h /\ n.deferred = 0
        /\ \A i \in DOMAIN n.jobs : n.jobs[i].source \notin R => n.jobs[i].source = old.source
        /\ Continues(old, n, R, R)
        /\ old.jobClient # old.client => \A i \in DOMAIN n.jobs : n.jobs[i].token > old.sequence
    BY <2>1, <2>2, SentWork
  <2>4. h <= h
    <3>1. h \in Nat
      BY HeightsNat
    <3> QED BY <3>1
  <2>5. HeightOK(n, lb, R)
    BY <2>3, <2>4 DEF HeightOK
  <2> QED BY <2>3, <2>5 DEF TemplateWorks
<1>2. CASE ~ ready \/ ~ isWritable(old) \/ ~ written
  <2>1. /\ n.deferred = IF ready THEN 0 ELSE h
        /\ n.jobs = <<>> \/ (n.jobs = old.jobs /\ n.jobHeight = old.jobHeight)
        /\ ready /\ old.jobClient # old.client => n.jobs = <<>>
    BY <1>2, UnsentWork
  <2>2. HeightOK(n, lb, R)
    BY <1>0, <2>1, KeptHeight
  <2>3. Continues(old, n, R, R)
    <3>1. CASE n.jobs = <<>>
      BY <3>1 DEF Continues
    <3>2. CASE n.jobs = old.jobs /\ n.jobHeight = old.jobHeight
      BY <3>2, SameJobsContinue
    <3> QED BY <2>1, <3>1, <3>2
  <2> QED BY <2>1, <2>2, <2>3 DEF TemplateWorks
<1> QED BY <1>1, <1>2

(***************************************************************************)
(* The records a connection refers to stay                                 *)
(***************************************************************************)

\* Owner p references the bucket of height h of source s.
Lists(c, p, s, h) == c.ownerHeights[p].sourceId = s /\ h \in c.ownerHeights[p].heights

\* The cache d has the records that c has in that bucket.
Stays(c, d, s, h) == \A e \in c.entries : e.sourceId = s /\ e.height = h => e \in d.entries

LEMMA StaysTrans ==
    ASSUME NEW b, NEW c, NEW d, NEW s, NEW h, Stays(b, c, s, h), Stays(c, d, s, h)
    PROVE  Stays(b, d, s, h)
BY DEF Stays

LEMMA ListedStays ==
    ASSUME NEW c, NEW d, CacheInv(d), CP!Keeps(c, d), NEW p \in Owners,
           NEW s \in Sources, NEW h \in Heights, Lists(d, p, s, h)
    PROVE  Stays(c, d, s, h)
<1>1. C!hasHeight(d, s, h)
  BY ListedHeight DEF Lists
<1>2. h \in d.buckets[s]
  BY <1>1 DEF C!hasHeight
<1> QED BY <1>2 DEF Stays, CP!Keeps

\* A job is set for owner o: owner p is another, or o itself with the same client.
LEMMA JobStays ==
    ASSUME NEW b, CacheInv(b), NEW o \in Owners, NEW old \in MinerType, old.source \in Sources,
           NEW h \in Heights, NEW written \in BOOLEAN, NEW d, d = jobCache(b, o, old, h, written),
           NEW p \in Owners, NEW s \in Sources, NEW k \in Heights,
           p # o => Lists(b, p, s, k),
           p = o => old.jobClient = old.client /\ Lists(d, p, s, k)
    PROVE  Stays(b, d, s, k)
<1> DEFINE e == IF old.jobClient = old.client THEN b ELSE C!removeOwner(b, o)
           r == base(old).source
           n == sentMiner(base(old), h)
           H == eligibleHeights(n, r)
           f == C!setOwnerHeights(e, o, r, H)
<1>1. r \in Sources /\ H \in SUBSET Heights
  <2>1. r = old.source
    BY BaseFields
  <2>2. n \in MinerType
    BY SentJobs
  <2> HIDE DEF n, r
  <2> QED BY <2>1, <2>2, EligibleHeightsType
<1>2. d = e \/ d = f
  BY Zenon DEF jobCache, sentMiner
<1>3. /\ CacheInv(e) /\ (p # o => Lists(e, p, s, k)) /\ Stays(b, e, s, k)
      /\ p = o => e = b
  <2>1. CASE old.jobClient = old.client
    BY <2>1 DEF Stays
  <2>2. CASE old.jobClient # old.client
    <3>1. e = C!removeOwner(b, o) /\ p # o
      BY <2>2
    <3> HIDE DEF e
    <3>2. /\ CacheInv(e) /\ CP!Keeps(b, e) /\ e.ownerHeights[p] = b.ownerHeights[p]
      BY <3>1, RemoveOwnerEffect
    <3>3. Lists(e, p, s, k)
      BY <3>1, <3>2 DEF Lists
    <3> QED BY <3>1, <3>2, <3>3, ListedStays
  <2> QED BY <2>1, <2>2
<1> HIDE DEF e, r, n, H
<1>4. CASE d = f
  <2>1. /\ CacheInv(f) /\ CP!Keeps(e, f)
        /\ \A x \in Owners : f.ownerHeights[x] =
              IF x = o /\ o # 0
              THEN IF H = {} THEN C!NoHeights ELSE [sourceId |-> r, heights |-> H]
              ELSE e.ownerHeights[x]
    BY <1>1, <1>3, SetHeightsEffect
  <2> HIDE DEF f
  <2>2. Lists(f, p, s, k)
    BY <1>3, <1>4, <2>1 DEF Lists
  <2>3. Stays(e, f, s, k)
    BY <2>1, <2>2, ListedStays
  <2> QED BY <1>3, <1>4, <2>3, StaysTrans
<1> QED BY <1>2, <1>3, <1>4

LEMMA TemplateStays ==
    ASSUME NEW b, CacheInv(b), NEW o \in Owners, NEW old \in MinerType, old.source \in Sources,
           NEW h \in Heights, NEW ready \in BOOLEAN, NEW written \in BOOLEAN,
           NEW d, d = templateCache(b, o, old, h, ready, written),
           NEW p \in Owners, NEW s \in Sources, NEW k \in Heights,
           p # o => Lists(b, p, s, k),
           p = o => Lists(d, p, s, k) /\ (ready => old.jobClient = old.client)
    PROVE  Stays(b, d, s, k)
<1>1. CASE ready
  <2>1. d = jobCache(b, o, old, h, written)
    BY <1>1 DEF templateCache
  <2>2. p = o => old.jobClient = old.client /\ Lists(d, p, s, k)
    BY <1>1
  <2> QED BY <2>1, <2>2, JobStays
<1>2. CASE ~ ready
  <2>1. d = b
    BY <1>2 DEF templateCache
  <2> QED BY <2>1 DEF Stays
<1> QED BY <1>1, <1>2

\* Miner m has a job in use at height k of source s.
Uses(m, s, k, R) ==
    \E i \in DOMAIN m.jobs : InUse(m, i, R) /\ m.jobs[i].source = s /\ m.jobs[i].height = k

LEMMA UsesListed ==
    ASSUME NEW c, NEW p, NEW m, NEW R, Referenced(c, p, m, R), NEW s, NEW k, Uses(m, s, k, R)
    PROVE  Lists(c, p, s, k)
BY DEF Referenced, Uses, Lists

\* A template that is set reaches a miner with the client its jobs are of.
SameClient(m, ready) == ready => m.jobClient = m.client

LEMMA DeliveredStays ==
    ASSUME NEW S \in SUBSET Owners, IsFiniteSet(S), NEW R, NEW c, CacheInv(c),
           NEW mm \in [Owners -> MinerType], \A o \in S : mm[o].source \in Sources,
           NEW h \in Heights, NEW ready \in BOOLEAN, NEW failing, NEW F,
           IsDelivery(F, SUBSET S, [cache |-> c, miner |-> mm], h, ready, failing),
           ReferencedThrough(F, S, c, mm, h, ready, failing, R),
           NEW p \in Owners, NEW s \in Sources, NEW k \in Heights, Uses(mm[p], s, k, R),
           p \in S => /\ Uses(templateMiner(mm[p], h, ready, p \notin failing), s, k, R)
                      /\ SameClient(mm[p], ready)
    PROVE  Stays(c, F[S].cache, s, k)
<1>0. DeliveredBy(F, S, c, mm, h, ready, failing)
  BY DeliveryParts
<1> DEFINE G == {T \in SUBSET S : Stays(c, F[T].cache, s, k)}
<1>1. {} \in G
  <2>1. F[{}].cache = c
    BY <1>0, Zenon DEF DeliveredBy
  <2> QED BY <2>1 DEF Stays
<1>2. ASSUME NEW T \in SUBSET S, T # {}, T \ {Pick(T)} \in G
      PROVE  T \in G
  <2> DEFINE o == Pick(T)
             U == T \ {o}
             w == o \notin failing
             b == F[U].cache
             d == F[T].cache
  <2>1. o \in T /\ o \in Owners /\ o \in S /\ U \in SUBSET S
    BY <1>2, PickIn
  <2>2. d = templateCache(b, o, mm[o], h, ready, w)
    BY <1>0, <1>2, Zenon DEF DeliveredBy
  <2>3. /\ AllReferenced(c, b, delivered(mm, U, h, ready, failing), R)
        /\ AllReferenced(c, d, delivered(mm, T, h, ready, failing), R)
    BY <2>1, Zenon DEF ReferencedThrough
  <2>4. Stays(c, b, s, k) /\ w \in BOOLEAN
    BY <1>2
  <2>5. mm[o] \in MinerType /\ mm[o].source \in Sources
    BY <2>1
  <2>6. p # o => Lists(b, p, s, k)
    <3>1. delivered(mm, U, h, ready, failing)[p] = mm[p]
             \/ /\ p \in S
                /\ delivered(mm, U, h, ready, failing)[p] = templateMiner(mm[p], h, ready, p \notin failing)
      BY <2>1 DEF delivered
    <3>2. Uses(delivered(mm, U, h, ready, failing)[p], s, k, R)
      BY <3>1
    <3> HIDE DEF b, U, o
    <3>3. Referenced(b, p, delivered(mm, U, h, ready, failing)[p], R)
      BY <2>3 DEF AllReferenced
    <3> QED BY <3>2, <3>3, UsesListed
  <2>7. p = o => Lists(d, p, s, k) /\ SameClient(mm[o], ready)
    <3> SUFFICES ASSUME p = o PROVE Lists(d, p, s, k) /\ SameClient(mm[p], ready)
      BY Zenon
    <3>1. delivered(mm, T, h, ready, failing)[p] = templateMiner(mm[p], h, ready, p \notin failing)
      BY <2>1 DEF delivered
    <3>2. Uses(delivered(mm, T, h, ready, failing)[p], s, k, R) /\ SameClient(mm[p], ready)
      BY <2>1, <3>1
    <3> HIDE DEF d, o
    <3>3. Referenced(d, p, delivered(mm, T, h, ready, failing)[p], R)
      BY <2>3 DEF AllReferenced
    <3> QED BY <3>2, <3>3, UsesListed
  <2>8. CacheInv(b)
    BY <2>3 DEF AllReferenced
  <2> HIDE DEF o, w, b, d
  <2>9. p = o => Lists(d, p, s, k) /\ (ready => mm[o].jobClient = mm[o].client)
    BY <2>7, Zenon DEF SameClient
  <2>10. Stays(b, d, s, k)
    BY <2>1, <2>2, <2>4, <2>5, <2>6, <2>8, <2>9, TemplateStays
  <2>11. Stays(c, d, s, k)
    BY <2>4, <2>10, StaysTrans
  <2> QED BY <2>11 DEF d
<1> HIDE DEF G
<1>3. \A T \in SUBSET S : T \in G
  BY <1>1, <1>2, SetInduction
<1> QED BY <1>3 DEF G

\* The jobs in use of a miner are new, or were in use with the records they have.
Carries(c, d, m, n, R, R2) ==
    \A i \in DOMAIN n.jobs : InUse(n, i, R2) =>
        \/ n.jobs[i].token > m.sequence
        \/ \E k \in DOMAIN m.jobs : /\ SameJob(m, k, n, i) /\ InUse(m, k, R)
                                    /\ Stays(c, d, n.jobs[i].source, n.jobs[i].height)

Carried(o) == Carries(cache, cache', miner[o], miner'[o], retired, retired')

\* A miner whose jobs do not change and whose heights stay listed.
LEMMA UnchangedCarried ==
    ASSUME NEW c, NEW d, NEW m, NEW n, n.jobs = m.jobs, n.jobHeight = m.jobHeight,
           NEW R, NEW R2, R \subseteq R2,
           \A s, k : Uses(n, s, k, R2) => Stays(c, d, s, k)
    PROVE  Carries(c, d, m, n, R, R2)
<1> SUFFICES ASSUME NEW i \in DOMAIN n.jobs, InUse(n, i, R2)
             PROVE  \E k \in DOMAIN m.jobs : /\ SameJob(m, k, n, i) /\ InUse(m, k, R)
                                             /\ Stays(c, d, n.jobs[i].source, n.jobs[i].height)
  BY DEF Carries
<1>1. i \in DOMAIN m.jobs /\ SameJob(m, i, n, i) /\ InUse(m, i, R)
  BY DEF SameJob, InUse
<1>2. Uses(n, n.jobs[i].source, n.jobs[i].height, R2)
  BY DEF Uses
<1> QED BY <1>1, <1>2

LEMMA SameCacheCarried ==
    ASSUME NEW c, NEW m, NEW n, NEW R, NEW R2, Continues(m, n, R, R2)
    PROVE  Carries(c, c, m, n, R, R2)
<1>1. \A s, h : Stays(c, c, s, h)
  BY DEF Stays
<1> QED BY <1>1 DEF Carries, Continues

LEMMA UsesTypes ==
    ASSUME NEW m \in MinerType, NEW s, NEW k, NEW R, Uses(m, s, k, R)
    PROVE  s \in Sources /\ k \in Heights
BY JobFields DEF Uses

\* A template reaches one connection o, whose miner is m by then.
LEMMA OneCarried ==
    ASSUME MinersOK, MinersOK', References, References', UNCHANGED retired,
           NEW o \in Owners, NEW m \in MinerType, SameJobs(miner[o], m), m.sequence = miner[o].sequence,
           m.source \in Sources, NEW h \in Heights, NEW ready \in BOOLEAN, NEW written \in BOOLEAN,
           NEW n, miner' = [miner EXCEPT ![o] = n], NEW la, TemplateWorks(m, n, ready, la, retired),
           cache' = templateCache(cache, o, m, h, ready, written), NEW p \in Owners
    PROVE  Carried(p)
<1>1. CacheInv(cache) /\ miner[p] \in MinerType /\ miner'[p] \in MinerType /\ miner[o] \in MinerType
  BY BucketsTypes DEF References, MinersOK
<1>2. Referenced(cache', p, miner'[p], retired') /\ Referenced(cache, p, miner[p], retired)
  BY DEF References, Referenced, InUse
<1>3. CASE p # o
  <2>1. miner'[p] = miner[p]
    BY <1>3, BucketsTypes
  <2>2. ASSUME NEW s, NEW k, Uses(miner[p], s, k, retired) PROVE Stays(cache, cache', s, k)
    <3>1. s \in Sources /\ k \in Heights /\ Lists(cache, p, s, k)
      BY <1>1, <1>2, <2>2, UsesTypes, UsesListed
    <3> QED BY <1>1, <1>3, <3>1, TemplateStays
  <2> QED BY <2>1, <2>2, UnchangedCarried DEF Carried
<1>4. CASE p = o
  <2>1. miner'[p] = n
    BY <1>4, BucketsTypes
  <2> SUFFICES ASSUME NEW i \in DOMAIN n.jobs, InUse(n, i, retired), ~ n.jobs[i].token > miner[o].sequence
               PROVE  \E k \in DOMAIN miner[o].jobs :
                          /\ SameJob(miner[o], k, n, i) /\ InUse(miner[o], k, retired)
                          /\ Stays(cache, cache', n.jobs[i].source, n.jobs[i].height)
    BY <1>4, <2>1 DEF Carried, Carries
  <2> DEFINE s == n.jobs[i].source
             k == n.jobs[i].height
  <2>2. PICK j \in DOMAIN m.jobs : SameJob(m, j, n, i) /\ InUse(m, j, retired)
    BY DEF TemplateWorks, Continues
  <2>3. j \in DOMAIN miner[o].jobs /\ SameJob(miner[o], j, n, i) /\ InUse(miner[o], j, retired)
    BY <2>2 DEF SameJobs, SameJob, InUse
  <2>4. ready => m.jobClient = m.client
    BY DEF TemplateWorks
  <2>5. Uses(n, s, k, retired)
    BY DEF Uses
  <2>6. s \in Sources /\ k \in Heights /\ Lists(cache', p, s, k)
    BY <1>1, <1>2, <2>1, <2>5, UsesTypes, UsesListed
  <2> HIDE DEF s, k
  <2>7. Stays(cache, cache', s, k)
    BY <1>1, <1>4, <2>4, <2>6, TemplateStays
  <2> QED BY <2>3, <2>7 DEF s, k
<1> QED BY <1>3, <1>4

(***************************************************************************)
(* The steps that take no share                                            *)
(***************************************************************************)

\* Jobs and their records go on.
WorkKept == HeightsOK' /\ \A p \in Owners : Carried(p)

LEMMA HeightsOne ==
    ASSUME MinersOK, HeightsOK, NEW o \in Owners, NEW n, miner' = [miner EXCEPT ![o] = n],
           UNCHANGED <<latest, retired>>, HeightOK(n, latest, retired)
    PROVE  HeightsOK'
<1> SUFFICES ASSUME NEW p \in Owners PROVE HeightOK(miner'[p], latest', retired')
  BY DEF HeightsOK, HeightOK
<1>1. miner'[p] = IF p = o THEN n ELSE miner[p]
  BY BucketsTypes
<1> QED BY <1>1 DEF HeightsOK

LEMMA SameRises ==
    ASSUME MinersOK
    PROVE  Rises(latest, latest)
<1>1. latest \in [Sources -> Heights \cup {0}]
  BY DEF MinersOK
<1>2. ASSUME NEW s \in Sources PROVE latest[s] <= latest[s]
  <2> DEFINE x == latest[s]
  <2>1. x \in Nat
    BY <1>1, HeightsNat
  <2> HIDE DEF x
  <2>2. x <= x
    BY <2>1
  <2> QED BY <2>2 DEF x
<1> QED BY <1>1, <1>2 DEF Rises

\* The miner that connects has the jobs it had, and no source yet.
LEMMA LoginFrom ==
    ASSUME MinersOK, NEW o \in Owners, NEW s, NEW cl, NEW ready, NEW written,
           Login(o, s, cl, ready, written) \/ Reconnect(o, s, cl, ready, written)
    PROVE  \E m0 : /\ MinerOK(m0) /\ isWritable(m0) /\ SameJobs(miner[o], m0)
                   /\ m0.sequence = miner[o].sequence /\ m0.source = 0
                   /\ subscribe(o, s, cl, m0, ready, written)
<1>1. MinerOK(miner[o]) /\ miner[o] \in MinerType
  BY BucketsTypes
<1>2. CASE Login(o, s, cl, ready, written)
  <2> DEFINE m0 == [miner[o] EXCEPT !.state = "wait"]
  <2>1. /\ m0.state = "wait" /\ m0.deferred = miner[o].deferred /\ m0.source = miner[o].source
        /\ m0.jobs = miner[o].jobs /\ m0.sequence = miner[o].sequence
        /\ m0.jobHeight = miner[o].jobHeight /\ m0.jobClient = miner[o].jobClient
    BY <1>1 DEF MinerType
  <2>2. m0 \in MinerType
    BY <1>1 DEF MinerType, MinerStates
  <2>3. miner[o].source = 0
    BY <1>1, <1>2 DEF Login, MinerOK
  <2>4. subscribe(o, s, cl, m0, ready, written)
    BY <1>2, Zenon DEF Login
  <2> HIDE DEF m0
  <2>5. MinerOK(m0) /\ isWritable(m0) /\ SameJobs(miner[o], m0)
    BY <1>1, <2>1, <2>2, <2>3 DEF MinerOK, isWritable, SameJobs
  <2> QED BY <2>1, <2>3, <2>4, <2>5, Zenon
<1>3. CASE Reconnect(o, s, cl, ready, written)
  <2>1. isWritable(miner[o]) /\ miner[o].source = 0 /\ subscribe(o, s, cl, miner[o], ready, written)
    BY <1>3, Zenon DEF Reconnect
  <2>2. SameJobs(miner[o], miner[o])
    BY DEF SameJobs
  <2> QED BY <1>1, <2>1, <2>2, Zenon
<1> QED BY <1>2, <1>3

LEMMA LoginWork ==
    ASSUME MinersOK, MinersOK', BucketsInv, BucketsInv', HeightsOK,
           NEW o \in Owners, NEW s \in Sources, NEW cl \in Clients,
           NEW ready \in BOOLEAN, NEW written \in BOOLEAN,
           Login(o, s, cl, ready, written) \/ Reconnect(o, s, cl, ready, written)
    PROVE  WorkKept
<1>1. UNCHANGED <<latest, retired>> /\ acquirable(s, cl)
  BY DEF Login, Reconnect
<1>2. PICK m0 : /\ MinerOK(m0) /\ isWritable(m0) /\ SameJobs(miner[o], m0)
                /\ m0.sequence = miner[o].sequence /\ m0.source = 0
                /\ subscribe(o, s, cl, m0, ready, written)
  BY LoginFrom, Zenon
<1> DEFINE m == subscribed(m0, s, cl)
           n == IF latest[s] = 0 THEN m ELSE templateMiner(m, latest[s], ready, written)
<1>3. /\ miner' = [miner EXCEPT ![o] = n]
      /\ cache' = IF latest[s] = 0 THEN cache
                  ELSE templateCache(cache, o, m, latest[s], ready, written)
  BY <1>2, SubscribeParts
<1>4. /\ MinerOK(m) /\ m.source = s /\ m.client = cl /\ m.deferred = m0.deferred
      /\ m.jobClient = m0.jobClient /\ m.jobs = m0.jobs /\ m.jobHeight = m0.jobHeight
      /\ m.sequence = m0.sequence
  BY <1>2, Subscribed
<1> HIDE DEF m
<1>5. SameJobs(miner[o], m) /\ m \in MinerType /\ m.sequence = miner[o].sequence /\ m.deferred = 0
  BY <1>2, <1>4 DEF SameJobs, MinerOK
<1>6. HeightOK(m, latest, retired)
  BY <1>5 DEF HeightOK, HeightsOK, SameJobs
<1>7. OwnJobs(m, retired) /\ m.source \in Sources \ retired
  BY <1>1, <1>4, <1>5, ConnectOwnJobs DEF BucketsInv, acquirable
<1>8. CASE latest[s] = 0
  <2>1. n = m /\ cache' = cache
    BY <1>3, <1>8
  <2> HIDE DEF n
  <2>2. HeightsOK'
    BY <1>1, <1>3, <1>6, <2>1, HeightsOne
  <2>3. ASSUME NEW p \in Owners PROVE Carried(p)
    <3>1. miner'[p].jobs = miner[p].jobs /\ miner'[p].jobHeight = miner[p].jobHeight
      BY <1>3, <1>5, <2>1, BucketsTypes DEF SameJobs
    <3>2. Carries(cache, cache, miner[p], miner'[p], retired, retired)
      BY <3>1, SameJobsContinue, SameCacheCarried
    <3> QED BY <1>1, <2>1, <3>2 DEF Carried
  <2> QED BY <2>2, <2>3 DEF WorkKept
<1>9. CASE latest[s] # 0
  <2> DEFINE h == latest[s]
  <2>1. h \in Heights
    BY <1>9 DEF MinersOK
  <2>2. n = templateMiner(m, h, ready, written) /\ cache' = templateCache(cache, o, m, h, ready, written)
    BY <1>3, <1>9
  <2>3. h = latest[m.source]
    BY <1>4
  <2> HIDE DEF n, h
  <2>4. TemplateWorks(m, n, ready, latest, retired)
    BY <1>5, <1>6, <1>7, <2>1, <2>2, <2>3, SameRises, TemplateWork
  <2>5. HeightsOK'
    BY <1>1, <1>3, <2>4, HeightsOne DEF TemplateWorks
  <2>6. ASSUME NEW p \in Owners PROVE Carried(p)
    BY <1>1, <1>3, <1>5, <1>7, <2>1, <2>2, <2>4, OneCarried DEF BucketsInv
  <2> QED BY <2>5, <2>6 DEF WorkKept
<1> QED BY <1>8, <1>9

LEMMA DeferredWork ==
    ASSUME MinersOK, MinersOK', BucketsInv, BucketsInv', HeightsOK,
           NEW o \in Owners, NEW written \in BOOLEAN, InstallDeferred(o, written)
    PROVE  WorkKept
<1> DEFINE m == miner[o]
           h == m.deferred
           n == jobMiner(m, h, written)
           ready == TRUE
<1>1. /\ m \in MinerType /\ MinerOK(m) /\ h \in Heights /\ m.source \in Sources
      /\ miner' = [miner EXCEPT ![o] = n]
      /\ cache' = jobCache(cache, o, m, h, written)
  BY DeferredParts
<1>2. UNCHANGED <<latest, retired>>
  BY DEF InstallDeferred
<1>3. HeightOK(m, latest, retired) /\ h = latest[m.source]
  <2>1. h # 0
    BY <1>1, Constants
  <2> QED BY <2>1 DEF HeightsOK, HeightOK
<1>4. n = templateMiner(m, h, ready, written) /\ cache' = templateCache(cache, o, m, h, ready, written)
  BY <1>1 DEF templateMiner, templateCache
<1>5. OwnJobs(m, retired) /\ m.source \in Sources \ retired
  <2>1. m.source # 0
    BY <1>1, Constants
  <2> QED BY <1>1, <2>1, SourceOwnJobs DEF BucketsInv, SourcesOK
<1>6. SameJobs(miner[o], m) /\ m.sequence = miner[o].sequence /\ ready \in BOOLEAN
  BY DEF SameJobs
<1> HIDE DEF m, n, h, ready
<1>7. TemplateWorks(m, n, ready, latest, retired)
  BY <1>1, <1>3, <1>4, <1>5, <1>6, SameRises, TemplateWork
<1>8. HeightsOK'
  BY <1>1, <1>2, <1>7, HeightsOne DEF TemplateWorks
<1>9. ASSUME NEW p \in Owners PROVE Carried(p)
  BY <1>1, <1>2, <1>4, <1>6, <1>7, OneCarried DEF BucketsInv
<1> QED BY <1>8, <1>9 DEF WorkKept

\* A template reaches every subscriber of its source; without reorganisations its
\* height is at least the last one.
LEMMA TemplateRises ==
    ASSUME ~ AllowReorg, MinersOK, NEW s \in Sources, NEW h \in Heights, NEW ready, NEW failing,
           NewTemplate(s, h, ready, failing)
    PROVE  Rises(latest, latest') /\ latest'[s] = h
<1>1. latest' = [latest EXCEPT ![s] = h] /\ h >= latest[s] /\ UNCHANGED retired
  BY DEF NewTemplate
<1>2. latest \in [Sources -> Heights \cup {0}]
  BY DEF MinersOK
<1>3. ASSUME NEW t \in Sources PROVE latest[t] <= latest'[t]
  <2>1. CASE t = s
    <3> DEFINE x == latest[s]
    <3>1. x \in Nat /\ h \in Nat
      BY <1>2, HeightsNat
    <3>2. h >= x /\ latest'[t] = h
      BY <1>1, <1>2, <2>1
    <3> HIDE DEF x
    <3>3. x <= h
      BY <3>1, <3>2
    <3> QED BY <2>1, <3>2, <3>3 DEF x
  <2>2. CASE t # s
    BY <1>1, <1>2, <2>2, SameRises DEF Rises
  <2> QED BY <2>1, <2>2
<1> QED BY <1>1, <1>2, <1>3 DEF Rises

LEMMA TemplateHeights ==
    ASSUME ~ AllowReorg, MinersOK, BucketsInv, HeightsOK,
           NEW s \in Sources, NEW h \in Heights, NEW ready \in BOOLEAN, NEW failing,
           NewTemplate(s, h, ready, failing), NEW o \in Owners
    PROVE  /\ HeightOK(miner'[o], latest', retired)
           /\ o \notin subscribers(s) => miner'[o] = miner[o]
           /\ o \in subscribers(s) =>
                 /\ miner'[o] = templateMiner(miner[o], h, ready, o \notin failing)
                 /\ TemplateWorks(miner[o], miner'[o], ready, latest', retired)
<1>1. miner' = delivered(miner, subscribers(s), h, ready, failing)
  BY Delivered
<1>2. Rises(latest, latest') /\ latest'[s] = h
  BY TemplateRises
<1>3. HeightOK(miner[o], latest, retired) /\ miner[o] \in MinerType
  BY BucketsTypes DEF HeightsOK
<1>4. CASE o \in subscribers(s)
  <2> DEFINE w == o \notin failing
             m == miner[o]
             n == miner'[o]
  <2>1. n = templateMiner(m, h, ready, w)
    BY <1>1, <1>4 DEF delivered
  <2>2. m.source = s /\ w \in BOOLEAN
    BY <1>4 DEF subscribers
  <2>3. m.source \in Sources \ retired /\ OwnJobs(m, retired)
    <3>1. m.source # 0
      BY <2>2, Constants
    <3> QED BY <2>2, <3>1, SourceOwnJobs DEF BucketsInv, SourcesOK
  <2> HIDE DEF w, m, n
  <2>4. TemplateWorks(m, n, ready, latest', retired)
    <3>1. HeightOK(m, latest, retired) /\ m \in MinerType /\ h = latest'[m.source]
      BY <1>2, <1>3, <2>2 DEF m
    <3> QED BY <1>2, <2>1, <2>2, <2>3, <3>1, TemplateWork
  <2> QED BY <1>4, <2>1, <2>4 DEF TemplateWorks, m, n, w
<1>5. CASE o \notin subscribers(s)
  <2>1. miner'[o] = miner[o]
    BY <1>1, <1>5 DEF delivered
  <2> DEFINE m == miner[o]
  <2>2. m.deferred # 0 => m.deferred = latest'[m.source]
    <3> SUFFICES ASSUME m.deferred # 0 PROVE m.deferred = latest'[m.source]
      OBVIOUS
    <3>1. m.source # s /\ m.source \in Sources
      BY <1>5, BucketsTypes, MinerFields DEF subscribers, MinerOK
    <3>2. latest' = [latest EXCEPT ![s] = h] /\ latest \in [Sources -> Heights \cup {0}]
      BY DEF NewTemplate, MinersOK
    <3>3. latest'[m.source] = latest[m.source]
      BY <3>1, <3>2
    <3> QED BY <1>3, <3>3 DEF HeightOK
  <2> HIDE DEF m
  <2>3. HeightOK(m, latest', retired)
    <3>1. HeightOK(m, latest, retired) /\ m \in MinerType
      BY <1>3 DEF m
    <3> QED BY <1>2, <2>2, <3>1, KeptHeight
  <2> QED BY <1>5, <2>1, <2>3 DEF m
<1> QED BY <1>4, <1>5

\* A job in use once more after the template, and its owner's miners.
LEMMA TemplateUses ==
    ASSUME ~ AllowReorg, MinersOK, MinersOK', BucketsInv, HeightsOK,
           NEW s \in Sources, NEW h \in Heights, NEW ready \in BOOLEAN, NEW failing,
           NewTemplate(s, h, ready, failing), NEW o \in Owners,
           NEW i \in DOMAIN miner'[o].jobs, InUse(miner'[o], i, retired),
           ~ miner'[o].jobs[i].token > miner[o].sequence
    PROVE  /\ o \in subscribers(s) => SameClient(miner[o], ready)
           /\ \E k \in DOMAIN miner[o].jobs :
                 SameJob(miner[o], k, miner'[o], i) /\ InUse(miner[o], k, retired)
<1>1. CASE o \in subscribers(s)
  <2>1. TemplateWorks(miner[o], miner'[o], ready, latest', retired)
    BY <1>1, TemplateHeights
  <2>2. Continues(miner[o], miner'[o], retired, retired)
    BY <2>1 DEF TemplateWorks
  <2>3. SameClient(miner[o], ready)
    <3>1. CASE ready /\ miner[o].jobClient # miner[o].client
      BY <2>1, <3>1 DEF TemplateWorks
    <3> QED BY <3>1 DEF SameClient
  <2> QED BY <2>2, <2>3 DEF Continues
<1>2. CASE o \notin subscribers(s)
  <2>1. miner'[o] = miner[o]
    BY <1>2, TemplateHeights
  <2> QED BY <1>2, <2>1 DEF SameJob
<1> QED BY <1>1, <1>2

LEMMA NewTemplateWork ==
    ASSUME ~ AllowReorg, 0 \notin Owners, MinersOK, MinersOK', BucketsInv, BucketsInv', HeightsOK,
           NEW s \in Sources, NEW h \in Heights, NEW ready \in BOOLEAN, NEW failing,
           NewTemplate(s, h, ready, failing)
    PROVE  WorkKept
<1> DEFINE S == subscribers(s)
<1>1. UNCHANGED retired
  BY DEF NewTemplate
<1>2. HeightsOK'
  <2>1. \A o \in Owners : HeightOK(miner'[o], latest', retired)
    BY TemplateHeights
  <2> QED BY <1>1, <2>1 DEF HeightsOK, HeightOK
<1>3. /\ S \in SUBSET Owners /\ IsFiniteSet(S)
      /\ DeliversTo(S, s, h, ready, failing)
  BY NewTemplateParts
<1>4. \A o \in S : miner[o].source \in Sources \ retired /\ OwnJobs(miner[o], retired)
  <2>1. s # 0 /\ \A o \in S : miner[o].source = s
    BY Constants DEF subscribers
  <2> QED BY <1>3, <2>1, SourceOwnJobs DEF BucketsInv, SourcesOK
<1>5. PICK F : /\ IsDelivery(F, SUBSET S, [cache |-> cache, miner |-> miner], h, ready, failing)
               /\ cache' = C!observeHeight(F[S].cache, s, h)
  BY <1>3, Zenon DEF DeliversTo
<1>6. miner' = delivered(miner, S, h, ready, failing)
  BY Delivered
<1> DEFINE c == F[S].cache
<1>7. /\ CacheInv(cache) /\ 0 \notin retired /\ miner \in [Owners -> MinerType]
      /\ \A o \in Owners : Referenced(cache, o, miner[o], retired)
  BY BucketsTypes DEF BucketsInv, References
<1>8. \A o \in S : miner'[o] = templateMiner(miner[o], h, ready, o \notin failing)
  BY <1>3, <1>6 DEF delivered
<1> HIDE DEF S
<1>9. ReferencedThrough(F, S, cache, miner, h, ready, failing, retired)
  BY <1>3, <1>4, <1>5, <1>7, DeliveredReferences
<1>10. CacheInv(c)
  <2>1. AllReferenced(cache, c, delivered(miner, S, h, ready, failing), retired)
    BY <1>9, Zenon DEF ReferencedThrough
  <2> QED BY <2>1 DEF AllReferenced
<1>11. CacheInv(cache') /\ CP!Keeps(c, cache')
  BY <1>5, <1>10, ObserveEffect
<1> HIDE DEF c
<1>12. ASSUME NEW o \in Owners, NEW i \in DOMAIN miner'[o].jobs, InUse(miner'[o], i, retired),
              ~ miner'[o].jobs[i].token > miner[o].sequence
       PROVE  \E k \in DOMAIN miner[o].jobs :
                  /\ SameJob(miner[o], k, miner'[o], i) /\ InUse(miner[o], k, retired)
                  /\ Stays(cache, cache', miner'[o].jobs[i].source, miner'[o].jobs[i].height)
  <2> DEFINE x == miner'[o].jobs[i].source
             y == miner'[o].jobs[i].height
             n == templateMiner(miner[o], h, ready, o \notin failing)
  <2>1. /\ o \in S => SameClient(miner[o], ready)
        /\ \E k \in DOMAIN miner[o].jobs :
              SameJob(miner[o], k, miner'[o], i) /\ InUse(miner[o], k, retired)
    BY <1>12, TemplateUses DEF S
  <2>2. PICK k \in DOMAIN miner[o].jobs : SameJob(miner[o], k, miner'[o], i) /\ InUse(miner[o], k, retired)
    BY <2>1
  <2>3. Uses(miner[o], x, y, retired)
    BY <2>2 DEF Uses, SameJob
  <2>4. Uses(miner'[o], x, y, retired)
    BY <1>12 DEF Uses
  <2>5. o \in S => Uses(n, x, y, retired) /\ SameClient(miner[o], ready)
    BY <1>8, <2>1, <2>4
  <2>6. miner[o] \in MinerType
    BY BucketsTypes
  <2> HIDE DEF x, y, n
  <2>7. x \in Sources /\ y \in Heights
    BY <2>3, <2>6, UsesTypes
  <2>8. Stays(cache, c, x, y)
    <3>1. \A r \in S : miner[r].source \in Sources
      BY <1>4
    <3>2. o \in S => /\ Uses(templateMiner(miner[o], h, ready, o \notin failing), x, y, retired)
                     /\ SameClient(miner[o], ready)
      BY <2>5, Zenon DEF n
    <3>3. Stays(cache, F[S].cache, x, y)
      BY <1>3, <1>5, <1>7, <1>9, <2>3, <2>7, <3>1, <3>2, DeliveredStays
    <3> QED BY <3>3 DEF c
  <2>9. Lists(cache', o, x, y)
    <3>1. Referenced(cache', o, miner'[o], retired)
      BY <1>1 DEF BucketsInv, References, Referenced, InUse
    <3> QED BY <2>4, <3>1, UsesListed
  <2>10. Stays(c, cache', x, y)
    BY <1>11, <2>7, <2>9, ListedStays
  <2>11. Stays(cache, cache', x, y)
    BY <2>8, <2>10, StaysTrans
  <2> QED BY <2>2, <2>11 DEF x, y
<1>13. ASSUME NEW o \in Owners PROVE Carried(o)
  BY <1>1, <1>12 DEF Carried, Carries
<1> QED BY <1>2, <1>13 DEF WorkKept

\* A miner keeps its jobs, or one of them expires.
LEMMA SettledWork ==
    ASSUME MinersOK, BucketsInv, HeightsOK, UNCHANGED <<cache, latest, retired>>, NEW o \in Owners,
           NEW n, miner' = [miner EXCEPT ![o] = n], n.source = miner[o].source,
           n.deferred = miner[o].deferred, n.jobHeight = miner[o].jobHeight,
           Continues(miner[o], n, retired, retired), DOMAIN n.jobs = DOMAIN miner[o].jobs,
           \A i \in DOMAIN n.jobs : n.jobs[i].source = miner[o].jobs[i].source
    PROVE  WorkKept
<1>1. HeightOK(n, latest, retired)
  BY DEF HeightsOK, HeightOK
<1>2. HeightsOK'
  BY <1>1, HeightsOne
<1>3. ASSUME NEW p \in Owners PROVE Carried(p)
  <2>1. miner'[p] = IF p = o THEN n ELSE miner[p]
    BY BucketsTypes
  <2>2. Continues(miner[p], miner'[p], retired, retired)
    BY <2>1, SameJobsContinue
  <2> QED BY <2>2, SameCacheCarried DEF Carried
<1> QED BY <1>2, <1>3 DEF WorkKept

LEMMA ExpiredWork ==
    ASSUME MinersOK, BucketsInv, HeightsOK, NEW o \in Owners, ExpireJob(o)
    PROVE  WorkKept
<1>1. UNCHANGED <<cache, latest, retired>>
  BY DEF ExpireJob
<1>2. PICK i \in DOMAIN miner[o].jobs : miner' = [miner EXCEPT ![o].jobs[i].live = FALSE]
  BY DEF ExpireJob
<1> DEFINE n == [miner[o] EXCEPT !.jobs[i].live = FALSE]
<1>3. miner' = [miner EXCEPT ![o] = n]
  BY <1>2, BucketsTypes
<1>4. JobExpired(miner[o], n)
  BY <1>2, BucketsTypes, Expired
<1> HIDE DEF n
<1>5. Continues(miner[o], n, retired, retired)
  <2> SUFFICES ASSUME NEW j \in DOMAIN n.jobs, InUse(n, j, retired)
               PROVE  \E k \in DOMAIN miner[o].jobs : SameJob(miner[o], k, n, j) /\ InUse(miner[o], k, retired)
    BY DEF Continues
  <2>1. j \in DOMAIN miner[o].jobs /\ SameJob(miner[o], j, n, j) /\ InUse(miner[o], j, retired)
    BY <1>4 DEF JobExpired, SameJob, InUse
  <2> QED BY <2>1
<1> QED BY <1>1, <1>3, <1>4, <1>5, SettledWork DEF JobExpired

\* What does not touch a miner's jobs.
LEMMA JudgedWork ==
    ASSUME MinersOK, BucketsInv, HeightsOK, NEW o \in Owners, Judged(o), UNCHANGED <<latest, retired>>
    PROVE  /\ HeightsOK'
           /\ \A p \in Owners : /\ miner'[p].jobs = miner[p].jobs /\ miner'[p].jobHeight = miner[p].jobHeight
                                /\ miner'[p].sequence = miner[p].sequence
<1>1. PICK n : SameBut(miner[o], n) /\ miner' = [miner EXCEPT ![o] = n]
  BY DEF Judged
<1>2. HeightOK(n, latest, retired)
  BY <1>1 DEF HeightsOK, HeightOK, SameBut
<1>3. HeightsOK'
  BY <1>1, <1>2, HeightsOne
<1>4. \A p \in Owners : miner'[p] = IF p = o THEN n ELSE miner[p]
  BY <1>1, BucketsTypes
<1> QED BY <1>1, <1>3, <1>4 DEF SameBut

\* No miner goes, and its jobs are counted on.
Remains(p) ==
    /\ miner'[p].sequence >= miner[p].sequence
    /\ miner'[p].state = "gone" => miner'[p] = miner[p]

LEMMA OneRemains ==
    ASSUME MinersOK, NEW o \in Owners, NEW n, miner' = [miner EXCEPT ![o] = n],
           n.sequence >= miner[o].sequence \/ n.sequence = miner[o].sequence, n.state # "gone", NEW p \in Owners
    PROVE  Remains(p)
<1>1. miner'[p] = IF p = o THEN n ELSE miner[p]
  BY BucketsTypes
<1>2. miner[p].sequence \in Nat
  BY BucketsTypes, MinerFields
<1> QED BY <1>1, <1>2 DEF Remains

\* A connection that is gone has no jobs.
NoJobs == \A o \in Owners : miner[o].state = "gone" => miner[o].jobs = <<>>

LEMMA QuietRemains ==
    ASSUME MinersOK, NoJobs, QuietStep, NEW p \in Owners
    PROVE  Remains(p)
<1>1. ASSUME NEW o \in Owners, NEW s \in Sources, NEW cl \in Clients, NEW ready \in BOOLEAN,
             NEW written \in BOOLEAN, Login(o, s, cl, ready, written) \/ Reconnect(o, s, cl, ready, written)
      PROVE  Remains(p)
  <2>1. PICK m0 : /\ MinerOK(m0) /\ isWritable(m0) /\ SameJobs(miner[o], m0)
                  /\ m0.sequence = miner[o].sequence /\ m0.source = 0
                  /\ subscribe(o, s, cl, m0, ready, written)
    BY <1>1, LoginFrom, Zenon
  <2>2. \E n : /\ miner' = [miner EXCEPT ![o] = n] /\ MinerOK(n) /\ Advances(m0, n)
               /\ n.source = s /\ n.client = cl /\ n.state \notin {"new", "gone"}
               /\ n.generation >= m0.generation /\ n.sequence >= m0.sequence
    BY <2>1, Connected
  <2> QED BY <2>1, <2>2, OneRemains
<1>2. ASSUME NEW s \in Sources, NEW h \in Heights, NEW ready \in BOOLEAN, NEW failing,
             NewTemplate(s, h, ready, failing)
      PROVE  Remains(p)
  <2>1. miner' = delivered(miner, subscribers(s), h, ready, failing)
    BY <1>2, Delivered
  <2>2. CASE p \in subscribers(s)
    <3> DEFINE w == p \notin failing
               m == miner[p]
               n == miner'[p]
    <3>1. n = templateMiner(m, h, ready, w)
      BY <2>1, <2>2 DEF delivered
    <3>2. m.source \in Sources /\ MinerOK(m) /\ w \in BOOLEAN
      BY <2>2, BucketsTypes DEF subscribers
    <3>3. m.state \notin {"new", "gone"}
      BY <3>2, Constants DEF MinerOK
    <3> HIDE DEF w, m, n
    <3>4. n.sequence >= m.sequence /\ n.state \notin {"new", "gone"}
      BY <3>1, <3>2, <3>3, TemplateMiner
    <3> QED BY <3>4 DEF Remains, m, n
  <2>3. CASE p \notin subscribers(s)
    <3>1. miner'[p] = miner[p]
      BY <2>1, <2>3 DEF delivered
    <3>2. miner[p].sequence \in Nat
      BY BucketsTypes, MinerFields
    <3> QED BY <3>1, <3>2 DEF Remains
  <2> QED BY <2>2, <2>3
<1>3. ASSUME NEW o \in Owners, NEW written \in BOOLEAN, InstallDeferred(o, written)
      PROVE  Remains(p)
  <2> DEFINE m == miner[o]
             h == m.deferred
             n == jobMiner(m, h, written)
  <2>1. /\ m \in MinerType /\ MinerOK(m) /\ h \in Heights /\ m.source \in Sources
        /\ miner' = [miner EXCEPT ![o] = n]
    BY <1>3, DeferredParts
  <2>2. m.state \notin {"new", "gone"}
    BY <2>1, Constants DEF MinerOK
  <2> HIDE DEF n, m, h
  <2>3. /\ n.sequence >= m.sequence
        /\ n.state = IF ~ isWritable(m) THEN m.state ELSE IF written THEN "ready" ELSE "closing"
    BY <2>1, JobMiner DEF n
  <2>4. n.state # "gone"
    BY <2>2, <2>3
  <2> QED BY <2>1, <2>3, <2>4, OneRemains DEF m
<1>4. ASSUME NEW o \in Owners, ExpireJob(o)
      PROVE  Remains(p)
  <2>1. PICK i \in DOMAIN miner[o].jobs : miner' = [miner EXCEPT ![o].jobs[i].live = FALSE]
    BY <1>4 DEF ExpireJob
  <2> DEFINE n == [miner[o] EXCEPT !.jobs[i].live = FALSE]
  <2>2. miner' = [miner EXCEPT ![o] = n]
    BY <2>1, BucketsTypes
  <2>3. MinerOK(n) /\ n.state = miner[o].state /\ JobExpired(miner[o], n)
    BY <2>1, BucketsTypes, Expired
  <2> HIDE DEF n
  <2>4. n.sequence = miner[o].sequence /\ n.state # "gone"
    BY <2>1, <2>3 DEF JobExpired, NoJobs
  <2> QED BY <2>1, <2>2, <2>3, <2>4, OneRemains
<1>5. ASSUME NEW o \in Owners, ConnectionLost(o)
      PROVE  Remains(p)
  <2> DEFINE n == shutdown(miner[o])
  <2>1. miner' = [miner EXCEPT ![o] = n]
    BY <1>5 DEF ConnectionLost
  <2>2. SameBut(miner[o], n) /\ n.state = "closing"
    BY BucketsTypes, Shutdown
  <2> HIDE DEF n
  <2> QED BY <2>1, <2>2, OneRemains DEF SameBut
<1>6. SeedReady \subseteq BOOLEAN
  BY SeedReadyType
<1> QED BY <1>1, <1>2, <1>3, <1>4, <1>5, <1>6 DEF QuietStep

LEMMA QuietWork ==
    ASSUME ~ AllowReorg, 0 \notin Owners, MinersOK, MinersOK', BucketsInv, BucketsInv', HeightsOK, QuietStep
    PROVE  WorkKept
<1>1. SeedReady \subseteq BOOLEAN
  BY SeedReadyType
<1>2. ASSUME NEW o \in Owners, ConnectionLost(o) PROVE WorkKept
  <2>1. UNCHANGED <<cache, latest, retired>> /\ miner' = [miner EXCEPT ![o] = shutdown(miner[o])]
    BY <1>2 DEF ConnectionLost
  <2> DEFINE n == shutdown(miner[o])
  <2>2. SameBut(miner[o], n) /\ miner' = [miner EXCEPT ![o] = n]
    BY <2>1, BucketsTypes, Shutdown
  <2> HIDE DEF n
  <2>3. Continues(miner[o], n, retired, retired)
    BY <2>2, SameJobsContinue DEF SameBut
  <2> QED BY <2>1, <2>2, <2>3, SettledWork DEF SameBut
<1> QED BY <1>1, <1>2, LoginWork, NewTemplateWork, DeferredWork, ExpiredWork DEF QuietStep

(***************************************************************************)
(* A submission whose verdict or acceptance still counts                   *)
(***************************************************************************)

\* The requests whose share must not be taken again.
Relied(q) == Claimed(q) /\ ~ log[q].unverified

HasRecord(c, r, j) ==
    \E e \in c.entries : e.key = keyOf(r) /\ e.sourceId = j.source /\ e.height = j.height

\* The job of request r, while it is in use, has r's share on record.  A job
\* issued later has another token.
Covered(c, r, m, R) ==
    /\ m.state = "gone" \/ r.token <= m.sequence
    /\ \A i \in DOMAIN m.jobs :
          m.jobs[i].token = r.token /\ InUse(m, i, R) => HasRecord(c, r, m.jobs[i])

Recorded ==
    /\ NoJobs
    /\ \A p \in pending : ~ log[p.req].unverified
    /\ \A q \in DOMAIN log : Relied(q) => Covered(cache, log[q], miner[log[q].owner], retired)

Distinct ==
    \A q, r \in DOMAIN log : Relied(q) /\ Relied(r) /\ keyOf(log[q]) = keyOf(log[r]) => q = r

\* What a miner becomes never issues an old token and never comes back.
Succeeds(m, n) ==
    /\ n.sequence >= m.sequence
    /\ m.state = "gone" => n.state = "gone"
    /\ n.state = "gone" => n.jobs = <<>>

LEMMA CoveredCarried ==
    ASSUME NEW r \in RequestType, NEW m \in MinerType, NEW n \in MinerType,
           NEW c, NEW d, NEW R, NEW R2, Covered(c, r, m, R), Carries(c, d, m, n, R, R2),
           Succeeds(m, n)
    PROVE  Covered(d, r, n, R2)
<1>1. r.token \in Nat
  BY DEF RequestType, Tokens
<1>2. m.sequence \in Nat /\ n.sequence \in Nat
  BY MinerFields
<1>3. n.state = "gone" \/ r.token <= n.sequence
  <2>1. CASE m.state = "gone"
    BY <2>1 DEF Succeeds
  <2>2. CASE r.token <= m.sequence
    BY <1>1, <1>2, <2>2 DEF Succeeds
  <2>q. QED
    BY <2>1, <2>2 DEF Covered
<1>4. ASSUME NEW i \in DOMAIN n.jobs, n.jobs[i].token = r.token, InUse(n, i, R2)
      PROVE  HasRecord(d, r, n.jobs[i])
  <2>1. n.jobs # <<>>
    BY <1>4
  <2>2. m.state # "gone"
    BY <2>1 DEF Succeeds
  <2>3. r.token <= m.sequence
    BY <2>2 DEF Covered
  <2>4. ~ n.jobs[i].token > m.sequence
    BY <1>1, <1>2, <1>4, <2>3
  <2>5. PICK k \in DOMAIN m.jobs : /\ SameJob(m, k, n, i) /\ InUse(m, k, R)
                                   /\ Stays(c, d, n.jobs[i].source, n.jobs[i].height)
    BY <1>4, <2>4, Zenon DEF Carries
  <2>6. m.jobs[k].token = r.token
    BY <1>4, <2>5 DEF SameJob
  <2>7. HasRecord(c, r, m.jobs[k])
    BY <2>5, <2>6, Zenon DEF Covered
  <2>8. PICK e \in c.entries : /\ e.key = keyOf(r) /\ e.sourceId = m.jobs[k].source
                               /\ e.height = m.jobs[k].height
    BY <2>7, Zenon DEF HasRecord
  <2>9. e.sourceId = n.jobs[i].source /\ e.height = n.jobs[i].height
    BY <2>5, <2>8, Zenon DEF SameJob
  <2>10. e \in d.entries
    BY <2>5, <2>9, Zenon DEF Stays
  <2>q. QED
    BY <2>8, <2>9, <2>10, Zenon DEF HasRecord
<1>q. QED
  BY <1>3, <1>4, Zenon DEF Covered

\* No record of r's share is lost.
Retained(c, d, r) == \A e \in c.entries : e.key = keyOf(r) => e \in d.entries

LEMMA CoveredRetained ==
    ASSUME NEW r, NEW m, NEW n, NEW c, NEW d, NEW R, Covered(c, r, m, R), Retained(c, d, r),
           n.jobs = m.jobs, n.jobHeight = m.jobHeight, n.sequence = m.sequence,
           m.state = "gone" => n.state = "gone"
    PROVE  Covered(d, r, n, R)
<1>1. n.state = "gone" \/ r.token <= n.sequence
  BY Zenon DEF Covered
<1>2. ASSUME NEW i \in DOMAIN n.jobs, n.jobs[i].token = r.token, InUse(n, i, R)
      PROVE  HasRecord(d, r, n.jobs[i])
  <2>1. i \in DOMAIN m.jobs /\ m.jobs[i] = n.jobs[i] /\ InUse(m, i, R)
    BY <1>2 DEF InUse
  <2>2. HasRecord(c, r, n.jobs[i])
    BY <1>2, <2>1, Zenon DEF Covered
  <2>q. QED
    BY <2>2, Zenon DEF HasRecord, Retained
<1>q. QED
  BY <1>1, <1>2, Zenon DEF Covered

LEMMA ReliedFields ==
    ASSUME MinersOK, RequestsOK, NEW q \in DOMAIN log
    PROVE  /\ log[q] \in RequestType /\ log[q].owner \in Owners
           /\ miner[log[q].owner] \in MinerType
  BY LogFields, BucketsTypes

\* Templates, logins and lost connections leave the requests alone.
LEMMA QuietLog ==
    ASSUME MinersOK, QuietStep
    PROVE  UNCHANGED <<log, pending, inflight, credited>>
  BY DEF QuietStep, Login, Reconnect, NewTemplate, InstallDeferred, ExpireJob, ConnectionLost

LEMMA RecordedQuiet ==
    ASSUME RequestsInv, RequestsInv', WorkKept, Recorded, QuietStep
    PROVE  Recorded'
<1>1. MinersOK /\ RequestsOK /\ MinersOK' /\ NoJobs
  BY DEF RequestsInv, Recorded
<1>2. UNCHANGED <<log, pending, inflight>>
  BY <1>1, QuietLog
<1>3. \A p \in Owners : Remains(p) /\ Advances(miner[p], miner'[p])
  BY <1>1, QuietRemains, QuietMiners DEF Quietly
<1>4. NoJobs'
  BY <1>1, <1>3 DEF NoJobs, Remains
<1>5. \A p \in pending' : ~ log'[p.req].unverified
  BY <1>2 DEF Recorded
<1>6. ASSUME NEW q \in DOMAIN log', Relied(q)'
      PROVE  Covered(cache', log'[q], miner'[log'[q].owner], retired')
  <2>1. q \in DOMAIN log /\ log'[q] = log[q] /\ Relied(q)
    BY <1>2, <1>6 DEF Relied, Claimed
  <2> DEFINE o == log[q].owner
  <2>2. o \in Owners /\ log[q] \in RequestType /\ miner[o] \in MinerType
    BY <1>1, <2>1, ReliedFields
  <2> HIDE DEF o
  <2>3. miner'[o] \in MinerType
    BY <1>1, <2>2 DEF MinersOK
  <2>4. Covered(cache, log[q], miner[o], retired)
    BY <2>1, Zenon DEF Recorded, o
  <2>5. Carries(cache, cache', miner[o], miner'[o], retired, retired')
    BY <2>2, Zenon DEF WorkKept, Carried
  <2>6. Succeeds(miner[o], miner'[o])
    <3>1. Remains(o) /\ Advances(miner[o], miner'[o])
      BY <1>3, <2>2
    <3>2. miner'[o].state = "gone" => miner'[o].jobs = <<>>
      BY <1>4, <2>2 DEF NoJobs
    <3>3. miner[o].state = "gone" => miner'[o].state = "gone"
      BY <3>1 DEF Advances
    <3>q. QED
      BY <3>1, <3>2, <3>3 DEF Succeeds, Remains
  <2>7. Covered(cache', log[q], miner'[o], retired')
    BY <2>2, <2>3, <2>4, <2>5, <2>6, CoveredCarried
  <2>q. QED
    BY <2>1, <2>7 DEF o
<1>q. QED
  BY <1>4, <1>5, <1>6, Zenon DEF Recorded

\* A step after which fewer requests are relied upon, with the miners' jobs as
\* they were and the records of the requests that remain.
LEMMA RecordedFewer ==
    ASSUME RequestsInv, RequestsInv', Recorded, NEW o \in Owners, Judged(o), miner[o].state # "gone",
           UNCHANGED retired, LogGrows, pending' \subseteq pending,
           \A q \in DOMAIN log : log'[q].unverified = log[q].unverified,
           \A q \in DOMAIN log' : Relied(q)' =>
               q \in DOMAIN log /\ Relied(q) /\ Retained(cache, cache', log[q])
    PROVE  Recorded'
<1>1. MinersOK /\ RequestsOK /\ NoJobs
  BY DEF RequestsInv, Recorded
<1>2. \A p \in Owners : /\ miner'[p].jobs = miner[p].jobs /\ miner'[p].jobHeight = miner[p].jobHeight
                        /\ miner'[p].sequence = miner[p].sequence
                        /\ miner[p].state = "gone" <=> miner'[p].state = "gone"
  <2>1. PICK n : SameBut(miner[o], n) /\ miner' = [miner EXCEPT ![o] = n]
    BY Zenon DEF Judged
  <2>2. miner \in [Owners -> MinerType]
    BY <1>1, BucketsTypes
  <2>3. miner'[o] = n /\ \A p \in Owners \ {o} : miner'[p] = miner[p]
    BY <2>1, <2>2
  <2>q. QED
    BY <2>1, <2>3 DEF SameBut
<1>3. NoJobs'
  BY <1>1, <1>2 DEF NoJobs
<1>4. \A p \in pending' : ~ log'[p.req].unverified
  BY <1>1 DEF Recorded, RequestsOK
<1>5. ASSUME NEW q \in DOMAIN log', Relied(q)'
      PROVE  Covered(cache', log'[q], miner'[log'[q].owner], retired')
  <2>1. q \in DOMAIN log /\ Relied(q) /\ Retained(cache, cache', log[q])
    BY <1>5
  <2>2. /\ log'[q].owner = log[q].owner /\ log'[q].token = log[q].token
        /\ log'[q].claimed = log[q].claimed
    BY <2>1 DEF LogGrows
  <2> DEFINE p == log[q].owner
  <2>3. p \in Owners
    BY <1>1, <2>1, ReliedFields
  <2>4. Covered(cache, log[q], miner[p], retired)
    BY <2>1, Zenon DEF Recorded
  <2> HIDE DEF p
  <2>5. /\ miner'[p].jobs = miner[p].jobs /\ miner'[p].jobHeight = miner[p].jobHeight
        /\ miner'[p].sequence = miner[p].sequence
        /\ miner[p].state = "gone" => miner'[p].state = "gone"
    BY <1>2, <2>3
  <2>6. Covered(cache', log[q], miner'[p], retired')
    BY <2>1, <2>4, <2>5, CoveredRetained
  <2>7. keyOf(log'[q]) = keyOf(log[q])
    BY <2>2 DEF keyOf
  <2>q. QED
    BY <2>2, <2>6, <2>7 DEF Covered, HasRecord, p
<1>q. QED
  BY <1>3, <1>4, <1>5, Zenon DEF Recorded

\* A step that deals with the request q alone, which was owed an answer, makes
\* no other request relied upon.
OnlyRelied(q) ==
    /\ \A r \in DOMAIN log : log'[r].unverified = log[r].unverified
    /\ \A r \in DOMAIN log' : Relied(r)' => r \in DOMAIN log /\ Relied(r)

LEMMA ReliedShrinks ==
    ASSUME RequestsInv, NEW q \in DOMAIN log, Owed(q), OnlyRequest(q),
           pending' \subseteq pending, inflight' \subseteq inflight \cup {q}
    PROVE  OnlyRelied(q)
<1>1. DOMAIN log' = DOMAIN log
  BY DEF OnlyRequest
<1>2. ASSUME NEW r \in DOMAIN log
      PROVE  log'[r].unverified = log[r].unverified
  <2>1. CASE r = q
    BY <2>1 DEF OnlyRequest, SameRequest
  <2>2. CASE r # q
    BY <2>2 DEF OnlyRequest
  <2>q. QED
    BY <2>1, <2>2
<1>3. ASSUME NEW r \in DOMAIN log, Relied(r)'
      PROVE  Relied(r)
  <2>1. CASE r = q
    <3>1. Claimed(q)
      BY DEF Owed, Claimed
    <3>q. QED
      BY <1>2, <1>3, <2>1, <3>1 DEF Relied
  <2>2. CASE r # q
    <3>1. log'[r] = log[r]
      BY <2>2 DEF OnlyRequest
    <3>2. Claimed(r)
      BY <1>3, <2>2, <3>1 DEF Relied, Claimed
    <3>q. QED
      BY <1>3, <3>1, <3>2 DEF Relied
  <2>q. QED
    BY <2>1, <2>2
<1>q. QED
  BY <1>1, <1>2, <1>3 DEF OnlyRelied

LEMMA OwnerNotGone ==
    ASSUME RequestsInv, NEW q \in DOMAIN log, Owed(q)
    PROVE  log[q].owner \in Owners /\ miner[log[q].owner].state # "gone"
  BY LogFields DEF RequestsInv, Answering

\* A daemon's final result.
ResultParts(q, v) ==
    /\ Judged(log[q].owner) /\ AnsweredWith(q, v) /\ LogGrows /\ OnlyRelied(q)
    /\ inflight' = inflight \ {q} /\ UNCHANGED <<cache, latest, retired, pending>>

LEMMA ResultSettled ==
    ASSUME RequestsInv, NEW q \in inflight, NEW out, DaemonResult(q, out)
    PROVE  ResultParts(q, IF out = "OK" THEN "OK" ELSE "Rejected")
<1> DEFINE o == log[q].owner
           v == IF out = "OK" THEN "OK" ELSE "Rejected"
<1>1. /\ inflight' = inflight \ {q} /\ log' = answer(log, q, v)
      /\ miner' = IF out = "Ambiguous" THEN miner
                  ELSE [miner EXCEPT ![o] = recordShareOutcome(@, out = "OK")]
      /\ UNCHANGED <<cache, latest, retired, pending>>
  BY DEF DaemonResult
<1>2. v \in Answers
  BY DEF Answers
<1>3. q \in DOMAIN log /\ Owed(q)
  BY DEF RequestsInv, RequestsOK, Owed
<1>4. o \in Owners
  BY <1>3, OwnerNotGone
<1>5. Judged(o)
  <2>1. CASE out = "Ambiguous"
    BY <1>1, <1>4, <2>1, JudgedBy DEF RequestsInv
  <2>2. CASE out # "Ambiguous"
    <3>1. PICK b : b = (out = "OK")
      OBVIOUS
    <3>2. miner' = [miner EXCEPT ![o] = recordShareOutcome(@, b)]
      BY <1>1, <2>2, <3>1
    <3> QED BY <1>4, <3>2, JudgedBy DEF RequestsInv
  <2>q. QED
    BY <2>1, <2>2
<1> HIDE DEF v
<1>6. AnsweredWith(q, v)
  BY <1>1, <1>2, <1>3, AnswerOld DEF RequestsInv
<1>7. LogGrows
  BY <1>3, <1>6, OwedGrows DEF AnsweredWith
<1>8. OnlyRelied(q)
  BY <1>1, <1>3, <1>6, ReliedShrinks DEF AnsweredWith
<1>9. ResultParts(q, v)
  BY <1>1, <1>5, <1>6, <1>7, <1>8 DEF ResultParts
<1>q. QED
  BY <1>9 DEF v

LEMMA RecordedResult ==
    ASSUME RequestsInv, RequestsInv', Recorded, NEW q \in inflight, NEW out, DaemonResult(q, out)
    PROVE  Recorded'
<1>1. PICK v : ResultParts(q, v)
  BY ResultSettled
<1>2. log[q].owner \in Owners /\ miner[log[q].owner].state # "gone"
  BY OwnerNotGone DEF RequestsInv, RequestsOK, Owed
<1>3. \A r : Retained(cache, cache', r)
  BY <1>1 DEF ResultParts, Retained
<1>q. QED
  BY <1>1, <1>2, <1>3, RecordedFewer DEF ResultParts, OnlyRelied

\* A key the cache accepts has no record yet.
LEMMA FreeKey ==
    ASSUME NEW c, CacheInv(c), NEW s, NEW h, NEW k, C!reserveResult(c, s, h, k) = "Accepted"
    PROVE  \A e \in c.entries : e.key # k
<1>1. CP!reserveResult(c, s, h, k) = "Accepted"
  BY SameReserveResult
<1>2. c.keys[k] = 0
  BY <1>1 DEF CP!reserveResult
<1>3. \A e \in c.entries : c.keys[e.key] = e.token
  BY DEF CacheInv, CP!CacheInv, CP!Shape, CP!IndexMatches
<1>4. \A e \in c.entries : e.token \in Nat \ {0}
  BY CacheFields DEF C!Reservation
<1>q. QED
  BY <1>2, <1>3, <1>4

LEMMA ComputedFresh ==
    ASSUME RequestsInv, Records, NEW p \in pending
    PROVE  /\ cache.entries \subseteq withComputed(p).cache.entries
           /\ withComputed(p).res.computed \notin cache.entries
<1> DEFINE g == p.res.global
           k == key(p.owner, p.token, log[p.req].nonce)
           ca == withComputed(p).cache
           res == withComputed(p).res
<1>1. p.res = [global |-> p.res.global, computed |-> NoReservation] /\ g \in C!Reservation
  BY DEF Records, HoldsOwn
<1>2. CacheInv(cache)
  BY DEF Records
<1>3. CASE computedIdentity(p) # "Accepted"
  <2>1. ca = cache /\ res = p.res
    BY <1>3 DEF withComputed
  <2>2. res.computed = NoReservation
    BY <1>1, <2>1
  <2>3. NoReservation \notin cache.entries
    BY <1>2, CacheFields DEF NoReservation, C!Reservation
  <2>q. QED
    BY <2>1, <2>2, <2>3
<1>4. CASE computedIdentity(p) = "Accepted"
  <2> DEFINE n == C!newReservation(cache, g.sourceId, g.height, k)
  <2>1. C!reserveResult(cache, g.sourceId, g.height, k) = "Accepted"
    BY <1>4 DEF computedIdentity
  <2>2. ca = C!reserve(cache, g.sourceId, g.height, k)
    BY <1>4 DEF withComputed
  <2>3. res = [p.res EXCEPT !.computed = n]
    BY <1>4 DEF withComputed
  <2>4. res.computed = n
    BY <1>1, <2>3
  <2>5. n.key = k
    BY DEF C!newReservation
  <2>6. cache.entries \subseteq ca.entries
    <3>1. p.owner \in Owners /\ p.token \in Tokens /\ log[p.req].nonce \in Results
      <4>1. p.req \in DOMAIN log /\ p.owner = log[p.req].owner /\ p.token = log[p.req].token
        BY DEF RequestsInv, RequestsOK
      <4>q. QED
        BY <4>1, LogFields DEF RequestsInv
    <3>2. k \in Keys
      BY <3>1 DEF Keys, key
    <3>3. g.sourceId \in Sources /\ g.height \in Heights
      BY <1>1 DEF C!Reservation
    <3> HIDE DEF g, k, ca, res, n
    <3>4. ca.entries = cache.entries \cup {n}
      BY <1>2, <2>1, <2>2, <3>2, <3>3, ReserveEffect DEF n
    <3>q. QED
      BY <3>4
  <2> HIDE DEF g, k, ca, res, n
  <2>7. n \notin cache.entries
    BY <1>2, <2>1, <2>5, FreeKey
  <2>q. QED
    BY <2>4, <2>6, <2>7 DEF ca, res
<1>q. QED
  BY <1>3, <1>4

\* How the verifier's answer leaves the records of the cache.
FinishedParts(p) ==
    /\ Judged(p.owner) /\ LogGrows /\ OnlyRelied(p.req) /\ p.owner = log[p.req].owner
    /\ \/ cache.entries \ {p.res.global} \subseteq cache'.entries /\ ~ Relied(p.req)'
       \/ cache.entries \subseteq cache'.entries
    /\ UNCHANGED <<latest, retired>> /\ pending' \subseteq pending

LEMMA NotClaimed ==
    ASSUME RequestsInv, NEW p \in pending, Take(p), UNCHANGED inflight, log'[p.req].answers # <<"OK">>
    PROVE  ~ Relied(p.req)'
<1>1. p.req \notin inflight /\ pending' = {x \in pending : x.req # p.req}
  BY TakeParts
<1>q. QED
  BY <1>1 DEF Relied, Claimed

LEMMA FinishedRecords ==
    ASSUME RequestsInv, Records, NEW p \in pending, Take(p), NEW ca, NEW res, CacheInv(ca),
           res.global = p.res.global, cache.entries \subseteq ca.entries, res.computed \notin cache.entries,
           Finishing(p, ca, res)
    PROVE  \/ cache.entries \ {p.res.global} \subseteq cache'.entries /\ ~ Relied(p.req)'
           \/ cache.entries \subseteq cache'.entries
<1>1. CASE cache' = ca
  BY <1>1
<1>2. CASE UNCHANGED inflight /\ AnsweredWith(p.req, "Retry") /\ cache' = release2(ca, res)
  <2>1. cache'.entries = ca.entries \ {res.global, res.computed}
    BY <1>2, Release2Effect
  <2>2. log'[p.req].answers # <<"OK">>
    <3>1. log[p.req].answers = <<>>
      BY TakeParts
    <3>2. log'[p.req].answers = <<"Retry">> \/ log'[p.req].answers = <<>>
      BY <1>2, <3>1 DEF AnsweredWith
    <3>3. /\ \A a \in Answers : <<a>> = <<"OK">> => a = "OK"
          /\ <<>> # <<"OK">>
      OBVIOUS
    <3>q. QED
      BY <3>2, <3>3 DEF Answers
  <2>3. ~ Relied(p.req)'
    BY <1>2, <2>2, NotClaimed
  <2>q. QED
    BY <2>1, <2>3
<1>q. QED
  BY <1>1, <1>2 DEF Finishing, HandedOn

LEMMA FinishedOne ==
    ASSUME RequestsInv, NEW p \in pending, FinishedShare(p), OnlyRequest(p.req),
           log[p.req].submitted => log'[p.req].submitted,
           inflight' = inflight \/ inflight' = inflight \cup {p.req},
           \/ cache.entries \ {p.res.global} \subseteq cache'.entries /\ ~ Relied(p.req)'
           \/ cache.entries \subseteq cache'.entries
    PROVE  FinishedParts(p)
<1>1. Take(p) /\ Judged(p.owner) /\ UNCHANGED <<latest, retired>>
  BY DEF FinishedShare
<1>2. /\ p.req \in DOMAIN log /\ Owed(p.req) /\ p.owner = log[p.req].owner
      /\ pending' = {x \in pending : x.req # p.req}
  BY <1>1, TakeParts
<1>3. LogGrows
  BY <1>2, OwedGrows
<1>4. pending' \subseteq pending /\ inflight' \subseteq inflight \cup {p.req}
  BY <1>2
<1>5. OnlyRelied(p.req)
  BY <1>2, <1>4, ReliedShrinks
<1>q. QED
  BY <1>1, <1>2, <1>3, <1>4, <1>5 DEF FinishedParts

LEMMA NoComputed ==
    ASSUME Records, NEW p \in pending
    PROVE  p.res.computed = NoReservation
<1>1. p.res = [global |-> p.res.global, computed |-> NoReservation]
  BY DEF Records, HoldsOwn
<1>q. QED
  BY <1>1

LEMMA FinishedSettled ==
    ASSUME RequestsInv, Records, NEW p \in pending, FinishedShare(p)
    PROVE  FinishedParts(p)
<1>1. Take(p) /\ CacheInv(cache)
  BY DEF FinishedShare, Records
<1>2. p.req \in DOMAIN log /\ p.owner = log[p.req].owner /\ log[p.req].answers = <<>>
  BY <1>1, TakeParts
<1>3. CASE cache' = release2(cache, p.res) /\ UNCHANGED <<log, inflight>>
  <2>1. OnlyRequest(p.req)
    BY <1>2, <1>3, SameLog
  <2>2. cache.entries \ {p.res.global} \subseteq cache'.entries
    <3>1. cache'.entries = cache.entries \ {p.res.global, p.res.computed}
      BY <1>1, <1>3, Release2Effect
    <3>2. p.res.computed = NoReservation
      BY NoComputed
    <3>3. NoReservation \notin cache.entries
      BY <1>1, CacheFields DEF NoReservation, C!Reservation
    <3>q. QED
      BY <3>1, <3>2, <3>3
  <2>3. ~ Relied(p.req)'
    <3>0. <<>> # <<"OK">>
      OBVIOUS
    <3>1. log'[p.req].answers # <<"OK">>
      BY <1>2, <1>3, <3>0
    <3>q. QED
      BY <1>1, <1>3, <3>1, NotClaimed
  <2>q. QED
    BY <1>3, <2>1, <2>2, <2>3, FinishedOne
<1>4. ASSUME NEW ca, NEW res, Finishing(p, ca, res), miner[p.owner].state = "ready",
             CacheInv(ca), res.global = p.res.global,
             cache.entries \subseteq ca.entries, res.computed \notin cache.entries
      PROVE  FinishedParts(p)
  <2>1. OnlyRequest(p.req) /\ (log[p.req].submitted => log'[p.req].submitted)
    BY <1>2, <1>4, FinishingCases
  <2>2. inflight' = inflight \/ inflight' = inflight \cup {p.req}
    BY <1>4 DEF Finishing, HandedOn
  <2>3. \/ cache.entries \ {p.res.global} \subseteq cache'.entries /\ ~ Relied(p.req)'
        \/ cache.entries \subseteq cache'.entries
    BY <1>1, <1>4, FinishedRecords
  <2>q. QED
    BY <2>1, <2>2, <2>3, FinishedOne
<1>5. CASE miner[p.owner].state = "ready" /\ Finishing(p, cache, p.res)
  <2>1. p.res.computed \notin cache.entries
    <3>1. p.res.computed = NoReservation
      BY NoComputed
    <3>2. NoReservation \notin cache.entries
      BY <1>1, CacheFields DEF NoReservation, C!Reservation
    <3>q. QED
      BY <3>1, <3>2
  <2>q. QED
    BY <1>1, <1>4, <1>5, <2>1
<1>6. CASE miner[p.owner].state = "ready" /\ Finishing(p, withComputed(p).cache, withComputed(p).res)
  <2> DEFINE ca == withComputed(p).cache
             res == withComputed(p).res
  <2>1. CacheInv(ca) /\ res.global = p.res.global
    BY ComputedRecord
  <2>2. cache.entries \subseteq ca.entries /\ res.computed \notin cache.entries
    BY ComputedFresh
  <2>3. Finishing(p, ca, res)
    BY <1>6
  <2> HIDE DEF ca, res
  <2>q. QED
    BY <1>4, <1>6, <2>1, <2>2, <2>3
<1>q. QED
  BY <1>3, <1>5, <1>6 DEF FinishedShare

LEMMA RecordedComplete ==
    ASSUME RequestsInv, RequestsInv', Records, Recorded, Distinct, NEW p \in pending, FinishedShare(p)
    PROVE  Recorded'
<1>1. FinishedParts(p)
  BY FinishedSettled
<1>2. /\ p.req \in DOMAIN log /\ Owed(p.req) /\ p.owner = log[p.req].owner
      /\ miner[p.owner].state # "gone" /\ p.owner \in Owners
  BY TakeParts DEF FinishedShare
<1>3. Relied(p.req)
  BY DEF Relied, Claimed, Recorded
<1>4. p.res.global.key = keyOf(log[p.req])
  BY DEF Records, HoldsOwn
<1>5. ASSUME NEW q \in DOMAIN log', Relied(q)'
      PROVE  q \in DOMAIN log /\ Relied(q) /\ Retained(cache, cache', log[q])
  <2>1. q \in DOMAIN log /\ Relied(q)
    BY <1>1, <1>5 DEF FinishedParts, OnlyRelied
  <2>2. CASE cache.entries \subseteq cache'.entries
    BY <2>1, <2>2 DEF Retained
  <2>3. CASE cache.entries \ {p.res.global} \subseteq cache'.entries /\ ~ Relied(p.req)'
    <3>1. q # p.req
      BY <1>5, <2>3
    <3>2. keyOf(log[q]) # keyOf(log[p.req])
      BY <1>2, <1>3, <2>1, <3>1 DEF Distinct
    <3>q. QED
      BY <1>4, <2>1, <2>3, <3>2 DEF Retained
  <2>q. QED
    BY <1>1, <2>2, <2>3 DEF FinishedParts
<1>q. QED
  BY <1>1, <1>2, <1>5, RecordedFewer DEF FinishedParts, OnlyRelied

\* Judging a miner's share changes nothing that its other shares rely on.
LEMMA JudgedCovered ==
    ASSUME MinersOK, NEW o \in Owners, Judged(o), miner[o].state # "gone", NEW p \in Owners, NEW r,
           NEW c, NEW d, NEW R, Covered(c, r, miner[p], R), Retained(c, d, r)
    PROVE  Covered(d, r, miner'[p], R)
<1>1. PICK n : SameBut(miner[o], n) /\ miner' = [miner EXCEPT ![o] = n]
  BY Zenon DEF Judged
<1>2. miner'[o] = n /\ \A q \in Owners \ {o} : miner'[q] = miner[q]
  BY <1>1, BucketsTypes
<1>3. /\ miner'[p].jobs = miner[p].jobs /\ miner'[p].jobHeight = miner[p].jobHeight
      /\ miner'[p].sequence = miner[p].sequence
      /\ miner[p].state = "gone" => miner'[p].state = "gone"
  BY <1>1, <1>2 DEF SameBut
<1>q. QED
  BY <1>3, CoveredRetained

LEMMA JudgedNoJobs ==
    ASSUME MinersOK, NoJobs, NEW o \in Owners, Judged(o), miner[o].state # "gone"
    PROVE  NoJobs'
<1>1. PICK n : SameBut(miner[o], n) /\ miner' = [miner EXCEPT ![o] = n]
  BY Zenon DEF Judged
<1>2. miner'[o] = n /\ \A q \in Owners \ {o} : miner'[q] = miner[q]
  BY <1>1, BucketsTypes
<1>q. QED
  BY <1>1, <1>2 DEF NoJobs, SameBut

\* The reservation of an admitted share is the record of its job.
LEMMA AdmittedCovered ==
    ASSUME MinersOK, NEW o \in Owners, NEW t \in Tokens, NEW c, Admitted(o, t, c),
           NEW r, r.owner = o, r.token = t, r.claimed = c,
           NEW d, reservation(o, t, c).global \in d.entries, NEW R
    PROVE  Covered(d, r, miner[o], R)
<1> DEFINE j == jobOf(o, t)
           m == miner[o]
           e == reservation(o, t, c).global
<1>1. j \in findTelemetryJob(m, t) /\ MinerOK(m)
  BY AdmittedJob, BucketsTypes
<1>2. e.key = key(o, t, c) /\ e.sourceId = j.source /\ e.height = j.height
  BY DEF reservation, C!newReservation
<1>3. keyOf(r) = key(o, t, c)
  BY DEF keyOf
<1> HIDE DEF j, m, e
<1>4. PICK k \in DOMAIN m.jobs : j = m.jobs[k] /\ m.jobs[k].token = t
  BY <1>1 DEF findTelemetryJob
<1>5. t <= m.sequence
  BY <1>1, <1>4 DEF MinerOK
<1>6. ASSUME NEW i \in DOMAIN m.jobs, m.jobs[i].token = r.token
      PROVE  HasRecord(d, r, m.jobs[i])
  <2>1. i = k
    BY <1>1, <1>4, <1>6 DEF MinerOK
  <2>2. m.jobs[i] = j
    BY <1>4, <2>1
  <2>3. e \in d.entries
    BY DEF e
  <2>q. QED
    BY <1>2, <1>3, <2>2, <2>3, Zenon DEF HasRecord
<1>7. Covered(d, r, m, R)
  BY <1>5, <1>6, Zenon DEF Covered
<1>q. QED
  BY <1>7 DEF m

\* Whether a new share is relied upon, and what the cache holds of it.
LEMMA NewRelied ==
    ASSUME RequestsInv, CacheInv(cache), NEW o \in Owners, NEW t \in Tokens, NEW n, NEW c \in Results,
           NEW x, NewShare(o, t, n, c, x), NEW k, k = Len(log) + 1
    PROVE  /\ cache.entries \subseteq cache'.entries
           /\ Relied(k)' =>
                 Admitted(o, t, c) /\ reservation(o, t, c).global \in cache'.entries
<1> DEFINE ca == reserved(o, t, c)
           res == reservation(o, t, c)
<1>1. MinersOK /\ RequestsOK /\ x \in RequestType /\ log' = Append(log, x)
  BY DEF RequestsInv, NewShare, NewRequest
<1>2. log'[k] = x /\ k \notin DOMAIN log
  BY <1>1, Appended
<1>3. k \notin inflight /\ \A p \in pending : p.req # k
  BY <1>1, <1>2 DEF RequestsOK
<1>4. <<"Retry">> # <<"OK">> /\ <<"Refused">> # <<"OK">>
  OBVIOUS
<1>5. <<>> # <<"OK">>
  OBVIOUS
<1>6. ASSUME UNCHANGED pending, UNCHANGED inflight, x.answers # <<"OK">>
      PROVE  ~ Relied(k)'
  BY <1>2, <1>3, <1>6 DEF Relied, Claimed
<1>7. CASE x.answers \in {<<"Retry">>, <<"Refused">>} /\ UNCHANGED <<cache, pending, inflight, credited>>
  <2>1. x.answers # <<"OK">>
    BY <1>4, <1>7
  <2>q. QED
    BY <1>6, <1>7, <2>1
<1>8. CASE Admitted(o, t, c) /\ Reserved(k, o, t, c, ca, res, x)
  <2>1. /\ CacheInv(ca) /\ ca.entries = cache.entries \cup {res.global} /\ res.global \notin cache.entries
        /\ res.computed \notin cache.entries
    <3>1. /\ CacheInv(ca) /\ ca.entries = cache.entries \cup {res.global} /\ res.global.key = key(o, t, c)
          /\ res = [global |-> res.global, computed |-> NoReservation]
      BY <1>1, <1>8, ReservedRecord
    <3>2. \A e \in cache.entries : e.key # key(o, t, c)
      BY <1>1, <1>8, AdmittedJob, FreeKey
    <3>3. NoReservation \notin cache.entries
      BY CacheFields DEF NoReservation, C!Reservation
    <3> HIDE DEF ca, res
    <3>q. QED
      BY <3>1, <3>2, <3>3
  <2> HIDE DEF ca, res
  <2>2. CASE cache' = ca
    BY <1>8, <2>1, <2>2 DEF res
  <2>3. ASSUME NEW d, CacheInv(d), cache.entries \subseteq d.entries
        PROVE  CacheInv(release2(d, res)) /\ cache.entries \subseteq release2(d, res).entries
    <3>1. CacheInv(release2(d, res)) /\ release2(d, res).entries = d.entries \ {res.global, res.computed}
      BY <2>3, Release2Effect
    <3>q. QED
      BY <2>1, <2>3, <3>1
  <2>4. CASE x.answers = <<"Retry">> /\ cache' = release2(ca, res) /\ UNCHANGED pending /\ UNCHANGED inflight
    <3>1. x.answers # <<"OK">>
      BY <1>4, <2>4
    <3>2. ~ Relied(k)'
      BY <1>6, <2>4, <3>1
    <3>q. QED
      BY <2>1, <2>3, <2>4, <3>2
  <2>5. CASE x.unverified /\ Forwarded(k, x, release2(ca, res), res)
    <3>1. ~ Relied(k)'
      BY <1>2, <2>5 DEF Relied
    <3>2. /\ CacheInv(release2(ca, res)) /\ cache.entries \subseteq release2(ca, res).entries
      BY <2>1, <2>3
    <3>3. cache' = release2(ca, res) \/ cache' = release2(release2(ca, res), res)
      BY <2>5 DEF Forwarded
    <3>4. cache.entries \subseteq cache'.entries
      BY <2>3, <3>2, <3>3
    <3>q. QED
      BY <3>1, <3>4
  <2>q. QED
    BY <1>8, <2>2, <2>4, <2>5 DEF Reserved, Forwarded
<1>q. QED
  BY <1>7, <1>8, Zenon DEF NewShare

\* Of a new share the log keeps the older requests, which rely on what they did.
LEMMA OlderRelied ==
    ASSUME RequestsInv, NEW x \in RequestType, log' = Append(log, x), NEW k, k = Len(log) + 1,
           \A p \in pending' : p \in pending \/ p.req = k, inflight' \subseteq inflight \cup {k},
           NEW q \in DOMAIN log, Relied(q)'
    PROVE  Relied(q) /\ log'[q] = log[q]
<1>1. log'[q] = log[q] /\ q # k
  BY Appended DEF RequestsInv
<1>2. Claimed(q)' => Claimed(q)
  BY <1>1 DEF Claimed
<1>q. QED
  BY <1>1, <1>2 DEF Relied

NewLog(k, o, t, c, x) ==
    /\ RequestsOK /\ MinersOK /\ x \in RequestType /\ x.owner = o /\ x.token = t /\ x.claimed = c
    /\ log' = Append(log, x) /\ log'[k] = x /\ DOMAIN log' = DOMAIN log \cup {k}
    /\ k \notin DOMAIN log /\ LogGrows /\ Judged(o) /\ miner[o].state = "ready"
    /\ UNCHANGED <<latest, retired>>
    /\ inflight' \subseteq inflight \cup {k}
    /\ \A p \in pending' : p \in pending \/ (p.req = k /\ ~ x.unverified)

LEMMA NewShareLog ==
    ASSUME RequestsInv, NEW o, NEW t, NEW n, NEW c, NEW x, NewShare(o, t, n, c, x),
           NEW k, k = Len(log) + 1
    PROVE  NewLog(k, o, t, c, x)
<1>1. /\ RequestsOK /\ MinersOK /\ x \in RequestType /\ x.owner = o /\ x.token = t /\ x.claimed = c
      /\ log' = Append(log, x) /\ Judged(o) /\ miner[o].state = "ready" /\ UNCHANGED <<latest, retired>>
  BY DEF RequestsInv, NewShare, NewRequest
<1>2. LogGrows /\ log'[k] = x /\ DOMAIN log' = DOMAIN log \cup {k} /\ k \notin DOMAIN log
  BY <1>1, AppendGrows, Appended
<1>3. ASSUME NEW ca, NEW res, Reserved(k, o, t, c, ca, res, x)
      PROVE  /\ inflight' \subseteq inflight \cup {k}
             /\ \A p \in pending' : p \in pending \/ (p.req = k /\ ~ x.unverified)
  <2>1. inflight' \subseteq inflight \cup {k}
    <3>1. inflight' = inflight \/ inflight' = inflight \cup {k}
      BY <1>3, Zenon DEF Reserved, Forwarded
    <3>q. QED
      BY <3>1
  <2>2. \/ UNCHANGED pending
        \/ ~ x.unverified /\ \E p : pending' = pending \cup {p} /\ p.req = k
    BY <1>3, Zenon DEF Reserved, Forwarded
  <2>3. CASE UNCHANGED pending
    BY <2>1, <2>3
  <2>4. CASE ~ x.unverified /\ \E p : pending' = pending \cup {p} /\ p.req = k
    <3>1. PICK r : pending' = pending \cup {r} /\ r.req = k
      BY <2>4, Zenon
    <3>2. \A p \in pending' : p \in pending \/ p.req = k
      BY <3>1
    <3>q. QED
      BY <2>1, <2>4, <3>2, Zenon
  <2>q. QED
    BY <2>2, <2>3, <2>4, Zenon
<1>4. /\ inflight' \subseteq inflight \cup {k}
      /\ \A p \in pending' : p \in pending \/ (p.req = k /\ ~ x.unverified)
  <2>1. CASE UNCHANGED <<pending, inflight>>
    BY <2>1
  <2>2. CASE Reserved(k, o, t, c, reserved(o, t, c), reservation(o, t, c), x)
    BY <1>3, <2>2, Zenon
  <2>q. QED
    BY <2>1, <2>2, Zenon DEF NewShare
<1>q. QED
  BY <1>1, <1>2, <1>4, Zenon DEF NewLog

LEMMA RecordedSubmit ==
    ASSUME RequestsInv, RequestsInv', Records, Recorded, NEW o \in Owners, NEW t \in Tokens, NEW n,
           NEW c \in Results, NEW x, NewShare(o, t, n, c, x)
    PROVE  Recorded'
<1>k. PICK k : k = Len(log) + 1
  OBVIOUS
<1>1. /\ RequestsOK /\ MinersOK /\ x \in RequestType /\ x.owner = o /\ x.token = t /\ x.claimed = c
      /\ log' = Append(log, x) /\ log'[k] = x /\ DOMAIN log' = DOMAIN log \cup {k}
      /\ k \notin DOMAIN log /\ LogGrows /\ Judged(o) /\ miner[o].state = "ready"
      /\ UNCHANGED <<latest, retired>>
      /\ inflight' \subseteq inflight \cup {k}
      /\ \A p \in pending' : p \in pending \/ (p.req = k /\ ~ x.unverified)
  <2>1. NewLog(k, o, t, c, x)
    BY <1>k, NewShareLog
  <2>q. QED
    BY <2>1, Zenon DEF NewLog
<1>2. /\ cache.entries \subseteq cache'.entries
      /\ Relied(k)' => Admitted(o, t, c) /\ reservation(o, t, c).global \in cache'.entries
  BY <1>k, NewRelied, Zenon DEF Records
<1>3. miner[o].state # "gone"
  BY <1>1
<1>4. NoJobs'
  BY <1>1, <1>3, JudgedNoJobs DEF Recorded
<1>5. ASSUME NEW p \in pending'
      PROVE  ~ log'[p.req].unverified
  <2>1. CASE p \in pending
    <3>1. p.req \in DOMAIN log /\ ~ log[p.req].unverified
      BY <1>1, <2>1 DEF Recorded, RequestsOK
    <3>2. log'[p.req] = log[p.req]
      BY <1>1, <3>1, Appended
    <3>q. QED
      BY <3>1, <3>2
  <2>2. CASE p.req = k /\ ~ x.unverified
    BY <1>1, <2>2
  <2>q. QED
    BY <1>1, <2>1, <2>2
<1>6. ASSUME NEW q \in DOMAIN log, Relied(q)'
      PROVE  Covered(cache', log'[q], miner'[log'[q].owner], retired')
  <2>1. Relied(q) /\ log'[q] = log[q]
    BY <1>k, <1>1, <1>6, OlderRelied
  <2>2. Covered(cache, log[q], miner[log[q].owner], retired)
    BY <2>1, Zenon DEF Recorded
  <2>3. log[q].owner \in Owners
    BY <1>1, ReliedFields
  <2>4. Retained(cache, cache', log[q])
    BY <1>2 DEF Retained
  <2>5. Covered(cache', log[q], miner'[log[q].owner], retired)
    BY <1>1, <1>3, <2>2, <2>3, <2>4, JudgedCovered
  <2>q. QED
    BY <1>1, <2>1, <2>5
<1>7. ASSUME Relied(k)'
      PROVE  Covered(cache', log'[k], miner'[log'[k].owner], retired')
  <2>1. Covered(cache', x, miner[o], retired)
    BY <1>1, <1>2, <1>7, AdmittedCovered
  <2>2. Retained(cache', cache', x)
    BY DEF Retained
  <2>3. Covered(cache', x, miner'[o], retired)
    BY <1>1, <1>3, <2>1, <2>2, JudgedCovered
  <2>q. QED
    BY <1>1, <2>3
<1>8. \A q \in DOMAIN log' : Relied(q)' => Covered(cache', log'[q], miner'[log'[q].owner], retired')
  BY <1>1, <1>6, <1>7
<1>q. QED
  BY <1>4, <1>5, <1>8, Zenon DEF Recorded

\* A cache that keeps the records of the heights a miner lists, keeps those of
\* the miner's jobs.
LEMMA CoveredKept ==
    ASSUME NEW c, NEW d, CacheInv(d), CP!Keeps(c, d), NEW p \in Owners, NEW m \in MinerType,
           NEW R, NEW R2, R \subseteq R2, Referenced(d, p, m, R2),
           m.state = "gone" => m.jobs = <<>>, NEW r \in RequestType, Covered(c, r, m, R)
    PROVE  Covered(d, r, m, R2)
<1>1. ASSUME NEW s, NEW k, Uses(m, s, k, R2)
      PROVE  Stays(c, d, s, k)
  <2>1. s \in Sources /\ k \in Heights
    BY <1>1, UsesTypes
  <2>2. Lists(d, p, s, k)
    BY <1>1, UsesListed
  <2>q. QED
    BY <2>1, <2>2, ListedStays
<1>2. Carries(c, d, m, m, R, R2)
  BY <1>1, UnchangedCarried
<1>3. Succeeds(m, m)
  <2>1. m.sequence \in Nat
    BY MinerFields
  <2>q. QED
    BY <2>1 DEF Succeeds
<1>q. QED
  BY <1>2, <1>3, CoveredCarried

\* A client leaves its source, the last one with the source's buckets.
LEMMA LeftCovered ==
    ASSUME MinersOK, References, NoJobs, NEW o \in Owners, NEW s, s = miner[o].source, retire(s, o),
           NEW d, d = releaseSource(cache, s, o), NEW p \in Owners,
           NEW r \in RequestType, Covered(cache, r, miner[p], retired)
    PROVE  Covered(d, r, miner[p], retired')
<1>1. CacheInv(d) /\ Referenced(d, p, miner[p], retired')
  BY LeftReferences
<1>2. miner[p] \in MinerType /\ (miner[p].state = "gone" => miner[p].jobs = <<>>)
  BY BucketsTypes DEF NoJobs
<1>3. CP!Keeps(cache, d)
  <2>1. s \in Sources \cup {0}
    BY BucketsTypes, MinerFields
  <2>2. CASE s # 0 /\ subscribers(s) = {o}
    <3>1. d = C!removeSource(cache, s) /\ s \in Sources
      BY <2>1, <2>2 DEF releaseSource
    <3>q. QED
      BY <3>1, RemoveSourceEffect DEF References
  <2>3. CASE ~ (s # 0 /\ subscribers(s) = {o})
    <3>1. d = cache
      BY <2>3 DEF releaseSource
    <3>q. QED
      BY <3>1 DEF CP!Keeps
  <2>q. QED
    BY <2>2, <2>3
<1>4. retired \subseteq retired'
  BY DEF retire
<1>q. QED
  BY <1>1, <1>2, <1>3, <1>4, CoveredKept

\* The heights of the sources that remain are those they had.
LEMMA LeftHeights ==
    ASSUME MinersOK, HeightsOK, NEW o \in Owners, NEW s, s = miner[o].source, retire(s, o),
           NEW n, miner' = [miner EXCEPT ![o] = n], n.deferred = 0,
           n.jobs = <<>> \/ (n.jobs = miner[o].jobs /\ n.jobHeight = miner[o].jobHeight)
    PROVE  HeightsOK'
<1>1. /\ miner \in [Owners -> MinerType] /\ \A p \in Owners : MinerOK(miner[p])
      /\ latest \in [Sources -> Heights \cup {0}]
  BY BucketsTypes DEF MinersOK
<1>2. miner'[o] = n /\ \A p \in Owners \ {o} : miner'[p] = miner[p]
  BY <1>1
<1>3. retired \subseteq retired'
  BY DEF retire
<1>4. \A t \in Sources \ retired' : latest'[t] = latest[t]
  BY <1>1 DEF retire
<1>5. ASSUME NEW p \in Owners \ {o}, miner[p].deferred # 0
      PROVE  latest'[miner[p].source] = latest[miner[p].source]
  <2>1. miner[p].source # 0
    BY <1>1, <1>5 DEF MinerOK
  <2>2. miner[p].source \in Sources
    BY <1>1, <2>1, MinerFields
  <2>3. CASE s # 0 /\ subscribers(s) = {o}
    <3>1. miner[p].source # s
      BY <1>5, <2>3 DEF subscribers
    <3>q. QED
      BY <1>1, <2>2, <2>3, <3>1 DEF retire
  <2>4. CASE ~ (s # 0 /\ subscribers(s) = {o})
    BY <2>4 DEF retire
  <2>q. QED
    BY <2>3, <2>4
<1>6. ASSUME NEW p \in Owners
      PROVE  HeightOK(miner'[p], latest', retired')
  <2> DEFINE m == miner[p]
  <2>1. m \in MinerType /\ HeightOK(m, latest, retired)
    BY <1>1 DEF HeightsOK
  <2>2. \A i \in DOMAIN m.jobs : m.jobs[i].source \notin retired' =>
            /\ m.jobs[i].source \notin retired /\ latest'[m.jobs[i].source] = latest[m.jobs[i].source]
    <3> HIDE DEF m
    <3>q. QED
      BY <1>3, <1>4, <2>1, JobFields
  <2>3. \A i \in DOMAIN m.jobs : m.jobs[i].source \notin retired' =>
            m.jobHeight <= latest'[m.jobs[i].source]
    BY <2>1, <2>2, Zenon DEF HeightOK
  <2>4. CASE p = o
    <3>1. miner'[p] = n
      BY <1>2, <2>4
    <3>2. CASE n.jobs = <<>>
      BY <3>1, <3>2 DEF HeightOK
    <3>3. CASE n.jobs = m.jobs /\ n.jobHeight = m.jobHeight
      BY <2>3, <3>1, <3>3 DEF HeightOK
    <3>q. QED
      BY <2>4, <3>2, <3>3
  <2>5. CASE p # o
    <3>1. miner'[p] = m
      BY <1>2, <2>5
    <3>2. m.deferred # 0 => m.deferred = latest'[m.source]
      BY <1>5, <2>1, <2>5 DEF HeightOK
    <3>q. QED
      BY <2>3, <3>1, <3>2, Zenon DEF HeightOK
  <2>q. QED
    BY <2>4, <2>5
<1>q. QED
  BY <1>6 DEF HeightsOK, HeightOK

\* What a disconnect makes of the requests: those of its client are rejected.
DisconnectLog ==
    /\ DOMAIN log' = DOMAIN log /\ OnlyRelied(0)
    /\ \A q \in DOMAIN log : Relied(q)' => log'[q] = log[q]

LEMMA DisconnectRelied ==
    ASSUME RequestsInv, NEW o \in Owners, Disconnect(o)
    PROVE  DisconnectLog
<1> DEFINE mine == {q \in inflight : log[q].owner = o}
<1>1. /\ log' = [q \in DOMAIN log |-> IF q \in mine THEN answer(log, q, "Rejected")[q] ELSE log[q]]
      /\ inflight' = inflight \ mine /\ UNCHANGED pending
  BY DEF Disconnect
<1>2. DOMAIN log' = DOMAIN log
  BY <1>1
<1>3. ASSUME NEW q \in DOMAIN log
      PROVE  /\ log'[q].unverified = log[q].unverified
             /\ q \notin mine => log'[q] = log[q]
             /\ q \in mine => ~ Claimed(q)'
  <2>1. CASE q \in mine
    <3> DEFINE lg == answer(log, q, "Rejected")
    <3>1. Owed(q) /\ "Rejected" \in Answers
      BY <2>1 DEF Owed, Answers
    <3>2. log[q].answers = <<>>
      BY <3>1 DEF RequestsInv, Answering
    <3>3. /\ lg[q].unverified = log[q].unverified
          /\ miner[log[q].owner].state = "ready" => lg[q].answers = <<"Rejected">>
          /\ miner[log[q].owner].state # "ready" => lg = log
      BY <3>1, AnswerParts DEF RequestsInv
    <3>4. log'[q] = lg[q]
      BY <1>1, <2>1
    <3>5. \A p \in pending' : p.req # q
      BY <1>1, <2>1 DEF RequestsInv, RequestsOK
    <3>6. q \notin inflight'
      BY <1>1, <2>1
    <3>7. <<>> # <<"OK">> /\ <<"Rejected">> # <<"OK">>
      OBVIOUS
    <3> HIDE DEF lg
    <3>8. log'[q].answers # <<"OK">>
      BY <3>2, <3>3, <3>4, <3>7
    <3>9. ~ Claimed(q)'
      BY <3>5, <3>6, <3>8 DEF Claimed
    <3>q. QED
      BY <2>1, <3>3, <3>4, <3>9, Zenon
  <2>2. CASE q \notin mine
    <3>1. log'[q] = log[q]
      BY <1>1, <2>2
    <3>q. QED
      BY <2>2, <3>1
  <2>q. QED
    BY <2>1, <2>2
<1>4. ASSUME NEW q \in DOMAIN log, Relied(q)'
      PROVE  Relied(q) /\ log'[q] = log[q]
  <2>1. q \notin mine
    BY <1>3, <1>4, Zenon DEF Relied
  <2>2. log'[q] = log[q]
    BY <1>3, <2>1, Zenon
  <2>3. Claimed(q)
    BY <1>1, <1>4, <2>2 DEF Relied, Claimed
  <2>q. QED
    BY <1>3, <1>4, <2>2, <2>3, Zenon DEF Relied
<1>5. OnlyRelied(0)
  BY <1>2, <1>3, <1>4, Zenon DEF OnlyRelied
<1>q. QED
  BY <1>2, <1>4, <1>5, Zenon DEF DisconnectLog

LEMMA RecordedDisconnect ==
    ASSUME RequestsInv, BucketsInv, HeightsOK, Recorded, NEW o \in Owners, Disconnect(o)
    PROVE  HeightsOK' /\ Recorded'
<1> DEFINE s == miner[o].source
           n == [miner[o] EXCEPT !.source = 0, !.deferred = 0]
<1>1. /\ miner' = [miner EXCEPT ![o].source = 0, ![o].deferred = 0]
      /\ cache' = releaseSource(cache, s, o) /\ retire(s, o) /\ UNCHANGED pending
      /\ miner[o].state # "gone"
  BY DEF Disconnect
<1>2. MinersOK /\ RequestsOK /\ References /\ NoJobs
  BY DEF RequestsInv, BucketsInv, Recorded
<1>3. miner \in [Owners -> MinerType] /\ miner[o] \in MinerType
  BY <1>2, BucketsTypes
<1>4. miner' = [miner EXCEPT ![o] = n]
  BY <1>1, <1>3
<1>5. /\ n.deferred = 0 /\ n.jobs = miner[o].jobs /\ n.jobHeight = miner[o].jobHeight
      /\ n.sequence = miner[o].sequence /\ n.state = miner[o].state
  BY <1>3 DEF MinerType
<1> HIDE DEF n
<1>6. miner'[o] = n /\ \A p \in Owners \ {o} : miner'[p] = miner[p]
  BY <1>3, <1>4
<1>7. HeightsOK'
  BY <1>1, <1>2, <1>4, <1>5, LeftHeights
<1>8. DisconnectLog
  BY DisconnectRelied
<1>9. NoJobs'
  BY <1>1, <1>2, <1>5, <1>6 DEF NoJobs
<1>10. ASSUME NEW p \in pending'
       PROVE  ~ log'[p.req].unverified
  <2>1. p.req \in DOMAIN log /\ ~ log[p.req].unverified
    BY <1>1, <1>2, <1>10 DEF Recorded, RequestsOK
  <2>q. QED
    BY <1>8, <2>1 DEF DisconnectLog, OnlyRelied
<1>11. ASSUME NEW q \in DOMAIN log', Relied(q)'
       PROVE  Covered(cache', log'[q], miner'[log'[q].owner], retired')
  <2>1. q \in DOMAIN log /\ Relied(q) /\ log'[q] = log[q]
    BY <1>8, <1>11 DEF DisconnectLog, OnlyRelied
  <2> DEFINE p == log[q].owner
             r == log[q]
  <2>2. p \in Owners /\ r \in RequestType
    BY <1>2, <2>1, ReliedFields
  <2>3. Covered(cache, r, miner[p], retired)
    BY <2>1, Zenon DEF Recorded
  <2> HIDE DEF p, r
  <2>4. Covered(cache', r, miner[p], retired')
    BY <1>1, <1>2, <2>2, <2>3, LeftCovered
  <2>5. /\ miner'[p].jobs = miner[p].jobs /\ miner'[p].jobHeight = miner[p].jobHeight
        /\ miner'[p].sequence = miner[p].sequence
        /\ miner[p].state = "gone" => miner'[p].state = "gone"
    BY <1>5, <1>6, <2>2
  <2>6. Retained(cache', cache', r)
    BY DEF Retained
  <2>7. Covered(cache', r, miner'[p], retired')
    BY <2>4, <2>5, <2>6, CoveredRetained
  <2>q. QED
    BY <2>1, <2>7 DEF p, r
<1>q. QED
  BY <1>7, <1>9, <1>10, <1>11, Zenon DEF Recorded

\* The shares of a connection that goes away take no other records along.
Spares(c, o, d) ==
    CacheInv(d) /\ \A e \in c.entries : e.key.owner # o => e \in d.entries

LEMMA DestroyedSpares ==
    ASSUME NEW S, IsFiniteSet(S), NEW c, CacheInv(c), NEW o,
           \A p \in S : p.res.global.key.owner = o /\ p.res.computed = NoReservation
    PROVE  Spares(c, o, destroyed(c, S))
<1>1. PICK F : IsDestruction(F, SUBSET S, c) /\ destroyed(c, S) = F[S]
  BY Destruction
<1> DEFINE G == {T \in SUBSET S : Spares(c, o, F[T])}
<1>2. {} \in G
  <2>1. F[{}] = c
    BY <1>1 DEF IsDestruction
  <2> QED BY <2>1 DEF Spares
<1>3. ASSUME NEW T \in SUBSET S, T # {}, T \ {Pick(T)} \in G
      PROVE  T \in G
  <2> DEFINE b == F[T \ {Pick(T)}]
             r == Pick(T).res
  <2>1. F[T] = release2(b, r)
    BY <1>1, <1>3 DEF IsDestruction
  <2>2. Spares(c, o, b)
    BY <1>3
  <2>3. Pick(T) \in S
    BY <1>3, PickIn
  <2>4. r.global.key.owner = o /\ r.computed = NoReservation
    BY <2>3
  <2> HIDE DEF b, r
  <2>5. CacheInv(b)
    BY <2>2 DEF Spares
  <2>6. CacheInv(release2(b, r)) /\ release2(b, r).entries = b.entries \ {r.global, r.computed}
    BY <2>5, Release2Effect
  <2>7. NoReservation \notin b.entries
    BY <2>5, CacheFields DEF NoReservation, C!Reservation
  <2>8. Spares(c, o, F[T])
    BY <2>1, <2>2, <2>4, <2>6, <2>7 DEF Spares
  <2>q. QED
    BY <2>8
<1> HIDE DEF G
<1>4. \A T \in SUBSET S : T \in G
  BY <1>2, <1>3, SetInduction
<1>q. QED
  BY <1>1, <1>4 DEF G

\* Closing one connection keeps the records of the shares of another.
LEMMA ClosedCovered ==
    ASSUME 0 \notin Owners, RequestsInv, BucketsInv, Records, NoJobs, NEW o \in Owners, Close(o),
           NEW p \in Owners \ {o}, NEW r \in RequestType, r.owner = p, Covered(cache, r, miner[p], retired)
    PROVE  Covered(cache', r, miner[p], retired')
<1> DEFINE s == miner[o].source
           mine == {x \in pending : x.owner = o}
           b == releaseSource(cache, s, o)
           c == C!removeOwner(b, o)
<1>1. retire(s, o) /\ cache' = destroyed(c, mine)
  BY DEF Close
<1>2. MinersOK /\ References /\ RequestsOK
  BY DEF RequestsInv, BucketsInv
<1>3. Covered(b, r, miner[p], retired')
  BY <1>1, <1>2, LeftCovered
<1>4. CacheInv(b) /\ Referenced(b, p, miner[p], retired')
  BY <1>1, <1>2, LeftReferences
<1>5. miner[p] \in MinerType /\ (miner[p].state = "gone" => miner[p].jobs = <<>>)
  BY <1>2, BucketsTypes DEF NoJobs
<1> HIDE DEF b
<1>6. CacheInv(c) /\ CP!Keeps(b, c) /\ c.ownerHeights[p] = b.ownerHeights[p]
  BY <1>4, RemoveOwnerEffect
<1> HIDE DEF c
<1>7. Referenced(c, p, miner[p], retired')
  BY <1>4, <1>6 DEF Referenced
<1>8. Covered(c, r, miner[p], retired')
  BY <1>3, <1>5, <1>6, <1>7, CoveredKept
<1>9. ASSUME NEW x \in mine
      PROVE  x.res.global.key.owner = o /\ x.res.computed = NoReservation
  <2>1. x \in pending /\ x.owner = o /\ x.owner = log[x.req].owner
    BY <1>2, <1>9 DEF RequestsOK
  <2>2. x.res.global.key = keyOf(log[x.req])
    BY <2>1 DEF Records, HoldsOwn
  <2>q. QED
    BY <2>1, <2>2, NoComputed DEF keyOf, key
<1>10. IsFiniteSet(mine)
  BY FS_Subset DEF Records
<1> HIDE DEF mine
<1>11. Spares(c, o, cache')
  BY <1>1, <1>6, <1>9, <1>10, DestroyedSpares
<1>12. Retained(c, cache', r)
  <2>1. keyOf(r).owner # o
    BY DEF keyOf, key
  <2>q. QED
    BY <1>11, <2>1 DEF Retained, Spares
<1>q. QED
  BY <1>8, <1>12, CoveredRetained

LEMMA RecordedClose ==
    ASSUME 0 \notin Owners, RequestsInv, BucketsInv, HeightsOK, Records, Recorded,
           NEW o \in Owners, Close(o)
    PROVE  /\ HeightsOK' /\ Recorded'
           /\ \A q \in DOMAIN log : Relied(q)' => Relied(q)
<1> DEFINE gone == [NewMiner EXCEPT !.state = "gone"]
<1>1. /\ miner' = [miner EXCEPT ![o] = gone] /\ retire(miner[o].source, o)
      /\ pending' \subseteq pending /\ inflight' \subseteq inflight /\ log' = log
  BY DEF Close
<1>2. MinersOK /\ RequestsOK /\ NoJobs
  BY DEF RequestsInv, Recorded
<1>3. gone.state = "gone" /\ gone.jobs = <<>> /\ gone.deferred = 0
  BY DEF NewMiner
<1> HIDE DEF gone
<1>4. miner'[o] = gone /\ \A p \in Owners \ {o} : miner'[p] = miner[p]
  BY <1>1, <1>2, BucketsTypes
<1>5. HeightsOK'
  BY <1>1, <1>2, <1>3, LeftHeights
<1>6. NoJobs'
  BY <1>2, <1>3, <1>4 DEF NoJobs
<1>7. \A p \in pending' : ~ log'[p.req].unverified
  BY <1>1 DEF Recorded
<1>8. ASSUME NEW q \in DOMAIN log, Relied(q)'
      PROVE  Relied(q)
  BY <1>1, <1>8 DEF Relied, Claimed
<1>9. ASSUME NEW q \in DOMAIN log', Relied(q)'
      PROVE  Covered(cache', log'[q], miner'[log'[q].owner], retired')
  <2>1. q \in DOMAIN log /\ log'[q] = log[q] /\ Relied(q)
    BY <1>1, <1>8, <1>9
  <2> DEFINE p == log[q].owner
             r == log[q]
  <2>2. p \in Owners /\ r \in RequestType /\ r.owner = p
    BY <1>2, <2>1, ReliedFields
  <2>3. Covered(cache, r, miner[p], retired)
    BY <2>1, Zenon DEF Recorded
  <2> HIDE DEF p, r
  <2>4. CASE p = o
    BY <1>3, <1>4, <2>1, <2>4 DEF Covered, p, r
  <2>5. CASE p # o
    <3>1. Covered(cache', r, miner[p], retired')
      BY <1>2, <2>2, <2>3, <2>5, ClosedCovered
    <3>2. miner'[p] = miner[p]
      BY <1>4, <2>2, <2>5
    <3>q. QED
      BY <2>1, <3>1, <3>2 DEF p, r
  <2>q. QED
    BY <2>4, <2>5
<1>q. QED
  BY <1>5, <1>6, <1>7, <1>8, <1>9, Zenon DEF Recorded

\* A source that was shut down has no bucket left.
LEMMA RetiredEmpty ==
    ASSUME References, NEW s \in Sources, s \in retired, NEW h \in Heights
    PROVE  h \notin cache.buckets[s]
<1>1. CacheInv(cache) /\ cache.currentHeight[s] = 0
  BY DEF References
<1>2. CP!BucketsMatch(cache) /\ CP!CountsMatch(cache)
  BY <1>1 DEF CacheInv, CP!CacheInv, CP!Shape
<1>3. CP!OwnersOf(cache, s, h) = {}
  <2>1. \A p \in Owners : cache.ownerHeights[p].sourceId # s
    BY DEF References, Referenced
  <2>q. QED
    BY <2>1 DEF CP!OwnersOf
<1>4. cache.owners[s][h] = 0
  <2>1. cache.owners[s][h] = CP!Cardinality(CP!OwnersOf(cache, s, h))
    BY <1>2 DEF CP!CountsMatch
  <2>2. CP!Cardinality({}) = 0
    BY CacheConstants, CP!FS_EmptySet
  <2>q. QED
    BY <1>3, <2>1, <2>2
<1>5. h # 0
  BY Constants
<1>q. QED
  BY <1>1, <1>2, <1>4, <1>5 DEF CP!BucketsMatch

\* What parseRequest has found when it takes a share.
LEMMA TakenShare ==
    ASSUME NEW o, NEW t, NEW c, submitError(o, t, c, "none") = "NoError"
    PROVE  LET m == miner[o]
           IN  \E i \in DOMAIN m.jobs :
                  /\ m.jobs[i].token = t /\ m.jobs[i].live /\ ~ isStale(m.jobs[i].height, m.jobHeight)
                  /\ C!reserveResult(cache, m.jobs[i].source, m.jobs[i].height, key(o, t, c)) = "Accepted"
<1> DEFINE m == miner[o]
           jobs == findTelemetryJob(m, t)
           j == CHOOSE x \in jobs : TRUE
<1>1. /\ jobs # {} /\ ~ isStale(j.height, m.jobHeight)
      /\ C!reserveResult(cache, j.source, j.height, key(o, t, c)) = "Accepted"
  BY DEF submitError
<1>2. j \in jobs
  BY <1>1
<1>3. \E i \in DOMAIN m.jobs : j = m.jobs[i] /\ m.jobs[i].token = t /\ m.jobs[i].live
  BY <1>2 DEF findTelemetryJob
<1>q. QED
  BY <1>1, <1>3

LEMMA ReplayLemma ==
    ASSUME RequestsInv, References, Recorded, NEW q \in DOMAIN log, Relied(q),
           NEW o, o = log[q].owner, miner[o].state = "ready"
    PROVE  submitError(o, log[q].token, log[q].claimed, "none") # "NoError"
<1> SUFFICES ASSUME submitError(o, log[q].token, log[q].claimed, "none") = "NoError"
             PROVE  FALSE
  OBVIOUS
<1> DEFINE m == miner[o]
           r == log[q]
<1>1. MinersOK /\ RequestsOK /\ CacheInv(cache) /\ r \in RequestType /\ o \in Owners /\ m \in MinerType
  BY ReliedFields DEF RequestsInv, References
<1>2. Covered(cache, r, m, retired)
  BY Zenon DEF Recorded
<1>3. PICK i \in DOMAIN m.jobs :
         /\ m.jobs[i].token = r.token /\ m.jobs[i].live /\ ~ isStale(m.jobs[i].height, m.jobHeight)
         /\ C!reserveResult(cache, m.jobs[i].source, m.jobs[i].height, keyOf(r)) = "Accepted"
  BY TakenShare DEF keyOf
<1> HIDE DEF m, r
<1>4. m.jobs[i].source \in Sources /\ m.jobs[i].height \in Heights
  BY <1>1, <1>3, JobFields
<1>5. m.jobs[i].height >= m.jobHeight
  <2> DEFINE h == m.jobs[i].height
             k == m.jobHeight
  <2>1. h \in Nat /\ h # 0
    BY <1>4, Constants
  <2>2. k \in Heights \cup {0}
    BY <1>1, MinerFields
  <2>3. k \in Nat
    BY <2>2, HeightsNat
  <2>4. ~ isStale(h, k)
    BY <1>3
  <2> HIDE DEF h, k
  <2>5. h >= k
    BY <2>1, <2>3, <2>4 DEF isStale
  <2>q. QED
    BY <2>5 DEF h, k
<1>6. m.jobs[i].height \in cache.buckets[m.jobs[i].source]
  <2>1. CP!reserveResult(cache, m.jobs[i].source, m.jobs[i].height, keyOf(r)) = "Accepted"
    BY <1>3, SameReserveResult
  <2>q. QED
    BY <2>1 DEF CP!reserveResult, CP!hasHeight
<1>7. m.jobs[i].source \notin retired
  BY <1>4, <1>6, RetiredEmpty
<1>8. InUse(m, i, retired)
  BY <1>3, <1>5, <1>7, Zenon DEF InUse
<1>9. HasRecord(cache, r, m.jobs[i])
  BY <1>2, <1>3, <1>8, Zenon DEF Covered
<1>10. PICK e \in cache.entries : e.key = keyOf(r)
  BY <1>9, Zenon DEF HasRecord
<1>q. QED
  BY <1>1, <1>3, <1>10, FreeKey

LEMMA ReplayFromRecorded ==
    ASSUME RequestsInv, References, Recorded
    PROVE  ReplayRefused
  BY ReplayLemma, Zenon DEF ReplayRefused, Relied

\* No two requests that are relied upon share a key.
LEMMA DistinctFewer ==
    ASSUME Distinct, LogGrows, \A q \in DOMAIN log' : Relied(q)' => q \in DOMAIN log /\ Relied(q)
    PROVE  Distinct'
<1>1. \A q \in DOMAIN log : keyOf(log'[q]) = keyOf(log[q])
  BY DEF LogGrows, keyOf
<1>q. QED
  BY <1>1 DEF Distinct

LEMMA DistinctSubmit ==
    ASSUME RequestsInv, References, Recorded, Distinct, NEW o \in Owners, NEW t \in Tokens, NEW n,
           NEW c \in Results, NEW x, NewShare(o, t, n, c, x)
    PROVE  Distinct'
<1>k. PICK k : k = Len(log) + 1
  OBVIOUS
<1>1. NewLog(k, o, t, c, x)
  BY <1>k, NewShareLog
<1>2. \A p \in pending' : p \in pending \/ p.req = k
  BY <1>1 DEF NewLog
<1>3. \A q \in DOMAIN log : Relied(q)' => Relied(q) /\ log'[q] = log[q]
  BY <1>k, <1>1, <1>2, OlderRelied DEF NewLog
<1>4. DOMAIN log' = DOMAIN log \cup {k} /\ log'[k] = x /\ k \notin DOMAIN log
  BY <1>1 DEF NewLog
<1>5. ASSUME NEW q \in DOMAIN log, Relied(q)', Relied(k)', keyOf(log[q]) = keyOf(x)
      PROVE  FALSE
  <2>1. Admitted(o, t, c)
    BY <1>k, <1>5, NewRelied, Zenon DEF References
  <2>2. miner[o].state = "ready" /\ submitError(o, t, c, "none") = "NoError"
    BY <2>1 DEF Admitted
  <2>3. log[q].owner = o /\ log[q].token = t /\ log[q].claimed = c
    <3>1. x.owner = o /\ x.token = t /\ x.claimed = c
      BY <1>1 DEF NewLog
    <3>q. QED
      BY <1>5, <3>1 DEF keyOf, key
  <2>4. Relied(q)
    BY <1>3, <1>5
  <2>5. submitError(log[q].owner, log[q].token, log[q].claimed, "none") # "NoError"
    BY <2>2, <2>3, <2>4, ReplayLemma
  <2>q. QED
    BY <2>2, <2>3, <2>5
<1>6. ASSUME NEW q \in DOMAIN log', NEW r \in DOMAIN log', Relied(q)', Relied(r)',
             keyOf(log'[q]) = keyOf(log'[r])
      PROVE  q = r
  <2>1. CASE q \in DOMAIN log /\ r \in DOMAIN log
    BY <1>3, <1>6, <2>1 DEF Distinct
  <2>2. CASE q \in DOMAIN log /\ r = k
    BY <1>3, <1>4, <1>5, <1>6, <2>2
  <2>3. CASE q = k /\ r \in DOMAIN log
    BY <1>3, <1>4, <1>5, <1>6, <2>3
  <2>q. QED
    BY <1>4, <2>1, <2>2, <2>3
<1>q. QED
  BY <1>6 DEF Distinct

(***************************************************************************)
(* Accepted work                                                           *)
(***************************************************************************)

\* An accepted share was verified, or taken on its claim, for a request that is
\* relied upon for good.
CreditsOK ==
    \A x \in credited :
        /\ x \in Nat \X Owners \X Tokens \X Results
        /\ Quality[x[4]] = "share" =>
              /\ x[1] \in DOMAIN log /\ ~ log[x[1]].unverified /\ log[x[1]].answers = <<"OK">>
              /\ keyOf(log[x[1]]) = key(x[2], x[3], x[4])

OneCredit ==
    \A x, y \in credited : x[2] = y[2] /\ x[3] = y[3] /\ x[4] = y[4] => x = y

CreditsInv == CreditsOK /\ OneCredit

\* A share of q for nonce n of job t may be credited to owner o.
Creditable(q, o, t, n) ==
    /\ q \in Nat /\ o \in Owners /\ t \in Tokens /\ n \in Results
    /\ credited' = credited \cup {<<q, o, t, n>>}
    /\ \A y \in credited : ~ (y[2] = o /\ y[3] = t /\ y[4] = n)
    /\ Quality[n] = "share" =>
          /\ q \in DOMAIN log' /\ ~ log'[q].unverified /\ log'[q].answers = <<"OK">>
          /\ keyOf(log'[q]) = key(o, t, n)

LEMMA CreditsStep ==
    ASSUME CreditsInv, LogGrows, \A q \in DOMAIN log : log'[q].unverified = log[q].unverified,
           credited' = credited \/ \E q, o, t, n : Creditable(q, o, t, n)
    PROVE  CreditsInv'
<1>1. ASSUME NEW x \in credited
      PROVE  /\ x \in Nat \X Owners \X Tokens \X Results
             /\ Quality[x[4]] = "share" =>
                   /\ x[1] \in DOMAIN log' /\ ~ log'[x[1]].unverified /\ log'[x[1]].answers = <<"OK">>
                   /\ keyOf(log'[x[1]]) = key(x[2], x[3], x[4])
  <2>1. x \in Nat \X Owners \X Tokens \X Results
    BY DEF CreditsInv, CreditsOK
  <2>2. ASSUME Quality[x[4]] = "share"
        PROVE  /\ x[1] \in DOMAIN log' /\ ~ log'[x[1]].unverified /\ log'[x[1]].answers = <<"OK">>
               /\ keyOf(log'[x[1]]) = key(x[2], x[3], x[4])
    <3> DEFINE q == x[1]
    <3>1. q \in DOMAIN log /\ ~ log[q].unverified /\ log[q].answers = <<"OK">>
          /\ keyOf(log[q]) = key(x[2], x[3], x[4])
      BY <2>2, Zenon DEF CreditsInv, CreditsOK
    <3> HIDE DEF q
    <3>2. /\ q \in DOMAIN log' /\ log'[q].owner = log[q].owner /\ log'[q].token = log[q].token
          /\ log'[q].claimed = log[q].claimed /\ (log[q].answers # <<>> => log'[q].answers = log[q].answers)
      BY <3>1, Zenon DEF LogGrows
    <3>3. <<"OK">> # <<>>
      OBVIOUS
    <3>4. log'[q].answers = <<"OK">>
      BY <3>1, <3>2, <3>3
    <3>5. keyOf(log'[q]) = keyOf(log[q])
      BY <3>2 DEF keyOf
    <3>6. ~ log'[q].unverified
      BY <3>1
    <3>q. QED
      BY <3>1, <3>2, <3>4, <3>5, <3>6, Zenon DEF q
  <2>q. QED
    BY <2>1, <2>2
<1>2. CASE credited' = credited
  BY <1>1, <1>2, Zenon DEF CreditsInv, CreditsOK, OneCredit
<1>3. ASSUME NEW q, NEW o, NEW t, NEW n, Creditable(q, o, t, n)
      PROVE  CreditsInv'
  <2> DEFINE z == <<q, o, t, n>>
  <2>1. z \in Nat \X Owners \X Tokens \X Results /\ z[1] = q /\ z[2] = o /\ z[3] = t /\ z[4] = n
    BY <1>3 DEF Creditable
  <2> HIDE DEF z
  <2>2. credited' = credited \cup {z}
    BY <1>3 DEF Creditable, z
  <2>3. CreditsOK'
    BY <1>1, <1>3, <2>1, <2>2, Zenon DEF CreditsOK, Creditable
  <2>4. OneCredit'
    BY <1>3, <2>1, <2>2, Zenon DEF CreditsInv, OneCredit, Creditable
  <2>q. QED
    BY <2>3, <2>4 DEF CreditsInv
<1>q. QED
  BY <1>2, <1>3

LEMMA SubTuple ==
    ASSUME NEW a, NEW b, NEW c, NEW d, NEW z, z = <<a, b, c, d>>
    PROVE  \A i \in 1..3 : SubSeq(z, 2, 4)[i] = z[i + 1]
<1>1. z \in Seq({a, b, c, d}) /\ Len(z) = 4
  OBVIOUS
<1>q. QED
  BY <1>1

LEMMA OneCreditTwice ==
    ASSUME CreditsInv
    PROVE  NoWorkCreditedTwice
<1> SUFFICES ASSUME NEW x \in credited, NEW y \in credited, SubSeq(x, 2, 4) = SubSeq(y, 2, 4)
             PROVE  x = y
  BY DEF NoWorkCreditedTwice
<1>1. ASSUME NEW z \in Nat \X Owners \X Tokens \X Results
      PROVE  \A i \in 1..3 : SubSeq(z, 2, 4)[i] = z[i + 1]
  <2>1. z = <<z[1], z[2], z[3], z[4]>>
    OBVIOUS
  <2>q. QED
    BY <2>1, SubTuple
<1>2. x \in Nat \X Owners \X Tokens \X Results /\ y \in Nat \X Owners \X Tokens \X Results
  BY DEF CreditsInv, CreditsOK
<1>3. \A i \in 1..3 : x[i + 1] = y[i + 1]
  <2>1. \A i \in 1..3 : SubSeq(x, 2, 4)[i] = x[i + 1] /\ SubSeq(y, 2, 4)[i] = y[i + 1]
    BY <1>1, <1>2
  <2>q. QED
    BY <2>1
<1>4. x[2] = y[2] /\ x[3] = y[3] /\ x[4] = y[4]
  BY <1>3
<1>q. QED
  BY <1>4, Zenon DEF CreditsInv, OneCredit

LEMMA CreditsResult ==
    ASSUME RequestsInv, CreditsInv, NEW q \in inflight, NEW out, DaemonResult(q, out)
    PROVE  CreditsInv'
<1> DEFINE o == log[q].owner
           t == log[q].token
           n == log[q].nonce
<1>1. PICK v : ResultParts(q, v)
  BY ResultSettled
<1>2. LogGrows /\ \A r \in DOMAIN log : log'[r].unverified = log[r].unverified
  BY <1>1 DEF ResultParts, OnlyRelied
<1>3. CASE credited' = credited
  BY <1>2, <1>3, CreditsStep
<1>4. CASE out = "OK"
  <2>1. /\ credited' = credited \cup {<<q, o, t, n>>} /\ Quality[n] = "block"
        /\ \A x \in credited : <<x[2], x[3], x[4]>> # <<o, t, n>>
    BY <1>4 DEF DaemonResult
  <2>2. q \in Nat /\ o \in Owners /\ t \in Tokens /\ n \in Results
    BY LogFields DEF RequestsInv, RequestsOK
  <2> HIDE DEF o, t, n
  <2>3. \A y \in credited : ~ (y[2] = o /\ y[3] = t /\ y[4] = n)
    BY <2>1
  <2>4. Quality[n] # "share"
    BY <2>1
  <2>5. Creditable(q, o, t, n)
    BY <2>1, <2>2, <2>3, <2>4 DEF Creditable
  <2>q. QED
    BY <1>2, <2>5, CreditsStep
<1>5. out = "OK" \/ credited' = credited
  BY DEF DaemonResult
<1>q. QED
  BY <1>3, <1>4, <1>5

LEMMA CreditsComplete ==
    ASSUME RequestsInv, Records, Recorded, Distinct, CreditsInv, NEW p \in pending, FinishedShare(p)
    PROVE  CreditsInv'
<1> DEFINE q == p.req
           o == p.owner
           t == p.token
           n == log[q].nonce
<1>1. LogGrows /\ \A r \in DOMAIN log : log'[r].unverified = log[r].unverified
  BY FinishedSettled DEF FinishedParts, OnlyRelied
<1>2. /\ q \in DOMAIN log /\ Owed(q) /\ o = log[q].owner /\ t = log[q].token
      /\ log[q].answers = <<>>
  BY TakeParts DEF FinishedShare
<1>3. CASE credited' = credited
  BY <1>1, <1>3, CreditsStep
<1>4. CASE /\ AnsweredWith(q, "OK") /\ log[q].claimed = n /\ Quality[n] = "share"
           /\ credited' = credited \cup {<<q, o, t, n>>} /\ miner[o].state = "ready"
  <2>1. q \in Nat /\ o \in Owners /\ t \in Tokens /\ n \in Results
    BY <1>2, LogFields DEF RequestsInv
  <2>2. keyOf(log[q]) = key(o, t, n)
    BY <1>2, <1>4 DEF keyOf
  <2>3. ~ log[q].unverified
    BY DEF Recorded
  <2>4. Relied(q)
    BY <2>3 DEF Relied, Claimed
  <2>5. /\ q \in DOMAIN log' /\ log'[q].owner = log[q].owner /\ log'[q].token = log[q].token
        /\ log'[q].claimed = log[q].claimed
    BY <1>1, <1>2, Zenon DEF LogGrows
  <2>6. log'[q].answers = <<"OK">>
    BY <1>2, <1>4 DEF AnsweredWith
  <2> HIDE DEF q, o, t, n
  <2>7. ASSUME NEW y \in credited, y[2] = o, y[3] = t, y[4] = n
        PROVE  FALSE
    <3> DEFINE r == y[1]
    <3>1. /\ r \in DOMAIN log /\ ~ log[r].unverified /\ log[r].answers = <<"OK">>
          /\ keyOf(log[r]) = key(o, t, n)
      BY <1>4, <2>7, Zenon DEF CreditsInv, CreditsOK
    <3> HIDE DEF r
    <3>2. Relied(r)
      BY <3>1 DEF Relied, Claimed
    <3>3. r = q
      BY <1>2, <2>2, <2>4, <3>1, <3>2 DEF Distinct
    <3>4. <<"OK">> # <<>>
      OBVIOUS
    <3>q. QED
      BY <1>2, <3>1, <3>3, <3>4
  <2>8. ~ log'[q].unverified
    BY <1>1, <1>2, <2>3
  <2>9. keyOf(log'[q]) = key(o, t, n)
    BY <2>2, <2>5 DEF keyOf
  <2>10. Creditable(q, o, t, n)
    BY <1>4, <2>1, <2>5, <2>6, <2>7, <2>8, <2>9, Zenon DEF Creditable
  <2>q. QED
    BY <1>1, <2>10, CreditsStep
<1>5. ASSUME NEW ca, NEW res, Finishing(p, ca, res)
      PROVE  \/ credited' = credited
             \/ /\ AnsweredWith(q, "OK") /\ log[q].claimed = n /\ Quality[n] = "share"
                /\ credited' = credited \cup {<<q, o, t, n>>}
  BY <1>5 DEF Finishing
<1> HIDE DEF q, o, t, n
<1>6. \/ credited' = credited
      \/ /\ miner[o].state = "ready"
         /\ \/ credited' = credited
            \/ /\ AnsweredWith(q, "OK") /\ log[q].claimed = n /\ Quality[n] = "share"
               /\ credited' = credited \cup {<<q, o, t, n>>}
  BY <1>5, Zenon DEF FinishedShare, o
<1>q. QED
  BY <1>3, <1>4, <1>6, Zenon

LEMMA CreditsSubmit ==
    ASSUME RequestsInv, References, Recorded, CreditsInv, NEW o \in Owners, NEW t \in Tokens, NEW n,
           NEW c \in Results, NEW x, NewShare(o, t, n, c, x)
    PROVE  CreditsInv'
<1>k. PICK k : k = Len(log) + 1
  OBVIOUS
<1>1. NewLog(k, o, t, c, x)
  BY <1>k, NewShareLog
<1>2. LogGrows /\ k \in DOMAIN log' /\ log'[k] = x /\ x.owner = o /\ x.token = t /\ x.claimed = c
  BY <1>1 DEF NewLog
<1>3. \A r \in DOMAIN log : log'[r] = log[r]
  BY <1>1, Appended DEF NewLog
<1>4. \A r \in DOMAIN log : log'[r].unverified = log[r].unverified
  BY <1>3
<1>5. CASE credited' = credited
  BY <1>2, <1>4, <1>5, CreditsStep
<1>6. CASE /\ Admitted(o, t, c) /\ x.answers = <<"OK">> /\ ~ x.unverified
           /\ Quality[c] = "share" /\ credited' = credited \cup {<<k, o, t, c>>}
  <2>1. k \in Nat
    BY <1>k DEF RequestsInv, RequestsOK
  <2>2. miner[o].state = "ready" /\ submitError(o, t, c, "none") = "NoError"
    BY <1>6 DEF Admitted
  <2>3. ASSUME NEW y \in credited, y[2] = o, y[3] = t, y[4] = c
        PROVE  FALSE
    <3> DEFINE r == y[1]
    <3>1. /\ r \in DOMAIN log /\ ~ log[r].unverified /\ log[r].answers = <<"OK">>
          /\ keyOf(log[r]) = key(o, t, c)
      BY <1>6, <2>3, Zenon DEF CreditsInv, CreditsOK
    <3> HIDE DEF r
    <3>2. Relied(r)
      BY <3>1 DEF Relied, Claimed
    <3>3. log[r].owner = o /\ log[r].token = t /\ log[r].claimed = c
      BY <3>1 DEF keyOf, key
    <3>q. QED
      BY <2>2, <3>1, <3>2, <3>3, ReplayLemma
  <2>4. keyOf(log'[k]) = key(o, t, c)
    BY <1>2 DEF keyOf
  <2>5. Creditable(k, o, t, c)
    BY <1>2, <1>6, <2>1, <2>3, <2>4, Zenon DEF Creditable
  <2>q. QED
    BY <1>2, <1>4, <2>5, CreditsStep
<1>7. ASSUME NEW ca, NEW res, Reserved(k, o, t, c, ca, res, x)
      PROVE  \/ credited' = credited
             \/ /\ x.answers = <<"OK">> /\ ~ x.unverified
                /\ Quality[c] = "share" /\ credited' = credited \cup {<<k, o, t, c>>}
  BY <1>7, Zenon DEF Reserved
<1>q. QED
  BY <1>k, <1>5, <1>6, <1>7, Zenon DEF NewShare

(***************************************************************************)
(* The invariant of every step                                             *)
(***************************************************************************)

WorkInv == HeightsOK /\ Recorded /\ Distinct /\ CreditsInv

LEMMA WorkInit == Init => WorkInv
<1> SUFFICES ASSUME Init PROVE WorkInv
  OBVIOUS
<1>1. /\ miner = [o \in Owners |-> NewMiner] /\ log = <<>>
      /\ pending = {} /\ credited = {}
  BY DEF Init
<1>2. NewMiner.deferred = 0 /\ NewMiner.jobs = <<>>
  BY DEF NewMiner
<1>3. HeightsOK
  BY <1>1, <1>2 DEF HeightsOK, HeightOK
<1>4. DOMAIN log = {}
  BY <1>1
<1>5. NoJobs
  BY <1>1, <1>2 DEF NoJobs
<1>6. Recorded
  BY <1>1, <1>4, <1>5, Zenon DEF Recorded
<1>7. Distinct
  BY <1>4, Zenon DEF Distinct
<1>8. CreditsInv
  BY <1>1 DEF CreditsInv, CreditsOK, OneCredit
<1> QED BY <1>3, <1>6, <1>7, <1>8 DEF WorkInv

\* What a step that answers at most one request leaves of the log.
LEMMA OnlyReliedWork ==
    ASSUME Distinct, LogGrows, NEW q, OnlyRelied(q)
    PROVE  Distinct' /\ \A r \in DOMAIN log : log'[r].unverified = log[r].unverified
<1>1. \A r \in DOMAIN log' : Relied(r)' => r \in DOMAIN log /\ Relied(r)
  BY Zenon DEF OnlyRelied
<1>2. Distinct'
  BY <1>1, DistinctFewer
<1> QED BY <1>2, Zenon DEF OnlyRelied

LEMMA SameCredits ==
    ASSUME CreditsInv, LogGrows, \A q \in DOMAIN log : log'[q].unverified = log[q].unverified,
           credited' = credited
    PROVE  CreditsInv'
BY CreditsStep

LEMMA WorkQuiet ==
    ASSUME ~ AllowReorg, 0 \notin Owners, RequestsInv, RequestsInv', BucketsInv, BucketsInv',
           WorkInv, QuietStep
    PROVE  WorkInv'
<1>1. MinersOK /\ MinersOK' /\ HeightsOK /\ Recorded /\ Distinct /\ CreditsInv
  BY DEF RequestsInv, WorkInv
<1>2. WorkKept
  BY <1>1, QuietWork
<1>3. Recorded'
  BY <1>1, <1>2, RecordedQuiet
<1>4. UNCHANGED <<log, pending, inflight, credited>>
  BY <1>1, QuietLog
<1>5. LogGrows /\ \A q \in DOMAIN log : log'[q].unverified = log[q].unverified
  BY <1>4, SameLogGrows
<1>6. CreditsInv'
  BY <1>1, <1>4, <1>5, SameCredits
<1>7. \A q \in DOMAIN log' : Relied(q)' => q \in DOMAIN log /\ Relied(q)
  BY <1>4 DEF Relied, Claimed
<1>8. Distinct'
  BY <1>1, <1>5, <1>7, DistinctFewer
<1>9. HeightsOK'
  BY <1>2 DEF WorkKept
<1> QED BY <1>3, <1>6, <1>8, <1>9 DEF WorkInv

LEMMA WorkSubmit ==
    ASSUME RequestsInv, RequestsInv', BucketsInv, Records, WorkInv,
           NEW o \in Owners, NEW t \in Tokens, NEW n, NEW c \in Results, NEW x, NewShare(o, t, n, c, x)
    PROVE  WorkInv'
<1>1. MinersOK /\ HeightsOK /\ Recorded /\ Distinct /\ CreditsInv /\ References
  BY DEF RequestsInv, WorkInv, BucketsInv
<1>2. PICK k : k = Len(log) + 1
  OBVIOUS
<1>3. Judged(o) /\ UNCHANGED <<latest, retired>>
  BY <1>2, NewShareLog DEF NewLog
<1>4. HeightsOK'
  BY <1>1, <1>3, JudgedWork
<1> QED BY <1>1, <1>4, RecordedSubmit, DistinctSubmit, CreditsSubmit DEF WorkInv

LEMMA WorkComplete ==
    ASSUME RequestsInv, RequestsInv', BucketsInv, Records, WorkInv, NEW p \in pending, FinishedShare(p)
    PROVE  WorkInv'
<1>1. MinersOK /\ HeightsOK /\ Recorded /\ Distinct /\ CreditsInv
  BY DEF RequestsInv, WorkInv
<1>2. FinishedParts(p)
  BY FinishedSettled
<1>3. /\ Judged(p.owner) /\ LogGrows /\ OnlyRelied(p.req) /\ UNCHANGED <<latest, retired>>
      /\ p.owner = log[p.req].owner
  BY <1>2, Zenon DEF FinishedParts
<1>4. p.owner \in Owners
  BY <1>3, LogFields DEF RequestsInv, RequestsOK
<1>5. HeightsOK'
  BY <1>1, <1>3, <1>4, JudgedWork
<1>6. Distinct'
  BY <1>1, <1>3, OnlyReliedWork
<1> QED BY <1>1, <1>5, <1>6, RecordedComplete, CreditsComplete DEF WorkInv

LEMMA WorkResult ==
    ASSUME RequestsInv, RequestsInv', BucketsInv, WorkInv, NEW q \in inflight, NEW out,
           DaemonResult(q, out)
    PROVE  WorkInv'
<1>1. MinersOK /\ HeightsOK /\ Recorded /\ Distinct /\ CreditsInv
  BY DEF RequestsInv, WorkInv
<1>2. PICK v : ResultParts(q, v)
  BY ResultSettled
<1>3. Judged(log[q].owner) /\ LogGrows /\ OnlyRelied(q) /\ UNCHANGED <<latest, retired>>
  BY <1>2, Zenon DEF ResultParts
<1>4. log[q].owner \in Owners
  BY LogFields DEF RequestsInv, RequestsOK
<1>5. HeightsOK'
  BY <1>1, <1>3, <1>4, JudgedWork
<1>6. Distinct'
  BY <1>1, <1>3, OnlyReliedWork
<1> QED BY <1>1, <1>5, <1>6, RecordedResult, CreditsResult DEF WorkInv

LEMMA WorkDisconnect ==
    ASSUME RequestsInv, BucketsInv, WorkInv, NEW o \in Owners, Disconnect(o)
    PROVE  WorkInv'
<1>1. HeightsOK /\ Recorded /\ Distinct /\ CreditsInv
  BY DEF WorkInv
<1>2. LogGrows /\ OnlyRelied(0)
  BY DisconnectGrows, DisconnectRelied, Zenon DEF DisconnectLog
<1>3. Distinct' /\ \A q \in DOMAIN log : log'[q].unverified = log[q].unverified
  BY <1>1, <1>2, OnlyReliedWork
<1>4. CreditsInv'
  <2>1. credited' = credited
    BY DEF Disconnect
  <2> QED BY <1>1, <1>2, <1>3, <2>1, SameCredits
<1> QED BY <1>1, <1>3, <1>4, RecordedDisconnect DEF WorkInv

LEMMA WorkClose ==
    ASSUME 0 \notin Owners, RequestsInv, BucketsInv, Records, WorkInv, NEW o \in Owners, Close(o)
    PROVE  WorkInv'
<1>1. HeightsOK /\ Recorded /\ Distinct /\ CreditsInv
  BY DEF WorkInv
<1>2. UNCHANGED <<log, credited>>
  BY DEF Close
<1>3. LogGrows /\ \A q \in DOMAIN log : log'[q].unverified = log[q].unverified
  BY <1>2, SameLogGrows
<1>4. HeightsOK' /\ Recorded' /\ \A q \in DOMAIN log : Relied(q)' => Relied(q)
  BY <1>1, RecordedClose
<1>5. \A q \in DOMAIN log' : Relied(q)' => q \in DOMAIN log /\ Relied(q)
  BY <1>2, <1>4
<1>6. Distinct'
  BY <1>1, <1>3, <1>5, DistinctFewer
<1>7. CreditsInv'
  BY <1>1, <1>2, <1>3, SameCredits
<1> QED BY <1>4, <1>6, <1>7 DEF WorkInv

LEMMA WorkUnchanged ==
    ASSUME WorkInv, UNCHANGED vars
    PROVE  WorkInv'
<1>1. UNCHANGED <<cache, miner, latest, retired, pending, inflight, log, credited>>
  BY DEF vars
<1>2. HeightsOK'
  BY <1>1 DEF WorkInv, HeightsOK, HeightOK
<1>3. \A q : Relied(q)' <=> Relied(q)
  BY <1>1 DEF Relied, Claimed
<1>4. LogGrows /\ \A q \in DOMAIN log : log'[q].unverified = log[q].unverified
  BY <1>1, SameLogGrows
<1>5. NoJobs'
  BY <1>1 DEF WorkInv, Recorded, NoJobs
<1>6. \A q \in DOMAIN log :
         Covered(cache, log[q], miner[log[q].owner], retired)
             => Covered(cache, log[q], miner[log[q].owner], retired)'
  BY <1>1 DEF Covered, HasRecord, InUse
<1>7. \A q \in DOMAIN log' : Relied(q)' => Covered(cache, log[q], miner[log[q].owner], retired)'
  BY <1>1, <1>3, <1>6 DEF WorkInv, Recorded
<1>8. Recorded'
  BY <1>1, <1>5, <1>7 DEF WorkInv, Recorded
<1>9. Distinct'
  BY <1>1, <1>3, <1>4, DistinctFewer DEF WorkInv
<1>10. CreditsInv'
  BY <1>1, <1>4, SameCredits DEF WorkInv
<1> QED BY <1>2, <1>8, <1>9, <1>10 DEF WorkInv

LEMMA WorkNext ==
    ASSUME ~ AllowReorg, 0 \notin Owners, RequestsInv, RequestsInv', BucketsInv, BucketsInv', Records,
           WorkInv, [Next]_vars
    PROVE  WorkInv'
<1>1. CASE QuietStep
  BY <1>1, WorkQuiet
<1>2. ASSUME NEW o \in Owners, Disconnect(o) PROVE WorkInv'
  BY <1>2, WorkDisconnect
<1>3. ASSUME NEW o \in Owners, Close(o) PROVE WorkInv'
  BY <1>3, WorkClose
<1>4. ASSUME NEW o \in Owners, NEW t \in Tokens, NEW n \in Results, NEW c \in Results, Submit(o, t, n, c)
      PROVE  WorkInv'
  <2>1. PICK m \in Results : \E x : NewShare(o, t, m, c, x)
    BY <1>4, SubmitShare
  <2>2. PICK x : NewShare(o, t, m, c, x)
    BY <2>1
  <2> QED BY <2>2, WorkSubmit
<1>5. ASSUME NEW p \in pending, Complete(p) PROVE WorkInv'
  BY <1>5, CompleteShare, WorkComplete
<1>6. ASSUME NEW q \in inflight, NEW out, DaemonResult(q, out) PROVE WorkInv'
  BY <1>6, WorkResult
<1>7. CASE UNCHANGED vars
  BY <1>7, WorkUnchanged
<1> QED BY <1>1, <1>2, <1>3, <1>4, <1>5, <1>6, <1>7 DEF Next, QuietStep

\* The inductive invariant, while the height of no source falls: every
\* share that was accepted or is with the verifier or the daemon still has its record
\* in the cache as long as its job can be submitted for, no two of them have the same
\* key, and what was credited locally was answered OK.
THEOREM WorkInvariance ==
    ASSUME ~ AllowReorg, 0 \notin Owners
    PROVE  Spec => [](RequestsInv /\ BucketsInv /\ Records /\ WorkInv)
<1> DEFINE I == RequestsInv /\ BucketsInv /\ Records /\ WorkInv
<1>1. Init => I
  BY RequestsInit, BucketsInit, RecordsInit, WorkInit
<1>2. I /\ [Next]_vars => I'
  BY RequestsNext, BucketsNext, RecordsNext, WorkNext
<1> QED BY <1>1, <1>2, PTL DEF Spec

\* parseRequest against the cache: a share that was accepted, or that the verifier or
\* the daemon still has, is refused when its miner sends it again, whatever templates,
\* expiries and disconnects came between.
THEOREM ReplayRefusedTheorem ==
    ASSUME ~ AllowReorg, 0 \notin Owners
    PROVE  Spec => []ReplayRefused
<1>1. RequestsInv /\ BucketsInv /\ WorkInv => ReplayRefused
  BY ReplayFromRecorded DEF WorkInv, BucketsInv
<1> QED BY <1>1, WorkInvariance, PTL

\* completeVerification and the daemon's result: the work a job and a nonce stand for
\* is credited once.  Neither the other result claimed for it nor a retry after an
\* infrastructure failure has it accepted again.
THEOREM CreditedOnce ==
    ASSUME ~ AllowReorg, 0 \notin Owners
    PROVE  Spec => []NoWorkCreditedTwice
<1>1. WorkInv => NoWorkCreditedTwice
  BY OneCreditTwice DEF WorkInv
<1> QED BY <1>1, WorkInvariance, PTL
=============================================================================
