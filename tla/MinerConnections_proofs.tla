----------------------- MODULE MinerConnections_proofs -----------------------
(***************************************************************************)
(* Proofs about MinerConnections: every connection is served as the        *)
(* configuration says (MinersServed), and the counts of Counters, Stats,   *)
(* Miners and Workers are those of the connections there are               *)
(* (MinersAccounted), for any number of connections, configurations,       *)
(* logins and shares, in any order of their callbacks and timers.          *)
(*                                                                         *)
(* ConnInv is the inductive invariant, in four parts: what one miner is    *)
(* (MinersPart), the counters (CountsPart), the tables of Workers          *)
(* (TablePart) and what Stats and Workers add up (SumsPart).  A lemma per  *)
(* handler says what it makes of a miner and of the table; ConnectionsStep *)
(* puts them together.                                                     *)
(***************************************************************************)
EXTENDS MinerConnections, FiniteSetTheorems, WellFoundedInduction, TLAPS

(***************************************************************************)
(* Sums                                                                    *)
(*                                                                         *)
(* SumFunction adds the values of a function in the order in which CHOOSE  *)
(* takes them; these lemmas say that the order does not matter and how a   *)
(* sum changes with one value.                                             *)
(***************************************************************************)

FirstOf(T) == CHOOSE x \in T : TRUE

LEMMA TakenIn == \A T : T # {} => FirstOf(T) \in T
BY DEF FirstOf

LEMMA LeastNumber ==
    ASSUME NEW S \in SUBSET Nat, S # {}
    PROVE  \E n \in S : \A m \in S : n <= m
<1> DEFINE less == OpToRel(<, Nat)
<1>1. less = {ss \in Nat \X Nat : ss[1] < ss[2]}
  BY DEF OpToRel
<1>2. IsWellFoundedOn(less, Nat)
  BY NatLessThanWellFounded
<1> HIDE DEF less
<1>3. PICK n \in S : \A m \in S : ~ (<<m, n>> \in less)
  BY <1>2, WFMin
<1>4. ASSUME NEW m \in S PROVE n <= m
  <2>1. m \in Nat /\ n \in Nat /\ ~ (<<m, n>> \in less)
    BY <1>3
  <2>2. ~ (m < n)
    BY <1>1, <2>1
  <2> QED BY <2>1, <2>2
<1> QED BY <1>4

LEMMA SumInduction ==
    ASSUME NEW G, 0 \in G, \A n \in Nat : n \in G => n + 1 \in G
    PROVE  \A n \in Nat : n \in G
<1> SUFFICES ASSUME NEW n0 \in Nat, n0 \notin G PROVE FALSE
  OBVIOUS
<1> DEFINE bad == {n \in Nat : n \notin G}
<1>1. bad \in SUBSET Nat /\ bad # {}
  OBVIOUS
<1>2. PICK n \in bad : \A m \in bad : n <= m
  BY <1>1, LeastNumber
<1>3. n \in Nat /\ n # 0 /\ n \notin G
  BY <1>2
<1>4. n - 1 \in Nat /\ (n - 1) + 1 = n /\ ~ (n <= n - 1)
  BY <1>3
<1>5. n - 1 \notin G
  BY <1>3, <1>4
<1> QED BY <1>2, <1>4, <1>5

\* The sums of f over the sets in D.
IsSum(F, D, f) ==
    F = [T \in D |-> IF T = {} THEN 0 ELSE f[FirstOf(T)] + F[T \ {FirstOf(T)}]]

LEMMA SumExists ==
    ASSUME NEW S, IsFiniteSet(S), NEW f
    PROVE  \E F : IsSum(F, SUBSET S, f)
<1> DEFINE Sub(n) == {T \in SUBSET S : Cardinality(T) <= n}
           G == {n \in Nat : \E F : IsSum(F, Sub(n), f)}
<1>1. \A T \in SUBSET S : IsFiniteSet(T) /\ Cardinality(T) \in Nat
  BY FS_Subset, FS_CardinalityType
<1>2. \A T \in SUBSET S : T # {} => Cardinality(T) > 0
  BY <1>1, FS_EmptySet
<1>3. 0 \in G
  <2> DEFINE F0 == [T \in Sub(0) |-> 0]
  <2>1. \A T \in Sub(0) : T = {}
    BY <1>1, <1>2
  <2>2. IsSum(F0, Sub(0), f)
    BY <2>1 DEF IsSum
  <2> QED BY <2>2
<1>4. ASSUME NEW n \in Nat, n \in G PROVE n + 1 \in G
  <2>1. PICK F : IsSum(F, Sub(n), f)
    BY <1>4
  <2> DEFINE H == [T \in Sub(n + 1) |-> IF T = {} THEN 0 ELSE f[FirstOf(T)] + F[T \ {FirstOf(T)}]]
  <2>2. \A T \in Sub(n) : T \in Sub(n + 1)
    BY <1>1
  <2>3. \A T \in Sub(n + 1) : T # {} => T \ {FirstOf(T)} \in Sub(n)
    <3> SUFFICES ASSUME NEW T \in Sub(n + 1), T # {} PROVE T \ {FirstOf(T)} \in Sub(n)
      OBVIOUS
    <3>1. /\ Cardinality(T \ {FirstOf(T)}) \in Nat /\ Cardinality(T) \in Nat
          /\ Cardinality(T \ {FirstOf(T)}) = Cardinality(T) - 1 /\ Cardinality(T) <= n + 1
      <4>1. FirstOf(T) \in T
        BY TakenIn
      <4> QED BY <1>1, <4>1, FS_RemoveElement
    <3> QED BY <3>1
  <2> HIDE DEF Sub
  <2>4. \A T \in Sub(n) : H[T] = F[T]
    BY <2>1, <2>2 DEF IsSum
  <2>5. \A T \in Sub(n + 1) : T # {} => F[T \ {FirstOf(T)}] = H[T \ {FirstOf(T)}]
    BY <2>3, <2>4
  <2>6. H = [T \in Sub(n + 1) |-> IF T = {} THEN 0 ELSE f[FirstOf(T)] + H[T \ {FirstOf(T)}]]
    <3>1. \A T \in Sub(n + 1) :
             (IF T = {} THEN 0 ELSE f[FirstOf(T)] + F[T \ {FirstOf(T)}])
           = (IF T = {} THEN 0 ELSE f[FirstOf(T)] + H[T \ {FirstOf(T)}])
      <4> HIDE DEF H
      <4> QED BY <2>5
    <3> QED BY <3>1
  <2>7. IsSum(H, Sub(n + 1), f)
    BY <2>6 DEF IsSum
  <2>8. n + 1 \in Nat
    OBVIOUS
  <2> QED BY <2>7, <2>8
<1> HIDE DEF G
<1>5. Cardinality(S) \in G
  BY <1>1, <1>3, <1>4, SumInduction
<1>6. Sub(Cardinality(S)) = SUBSET S
  <2>1. \A T \in SUBSET S : Cardinality(T) <= Cardinality(S)
    BY FS_Subset
  <2> QED BY <2>1
<1> QED BY <1>5, <1>6 DEF G

LEMMA SumIs ==
    ASSUME NEW f, IsFiniteSet(DOMAIN f)
    PROVE  \E F : IsSum(F, SUBSET DOMAIN f, f) /\ SumFunction(f) = F[DOMAIN f]
<1> DEFINE F == CHOOSE iter : iter = [s \in SUBSET DOMAIN f |->
                    IF s = {} THEN 0
                    ELSE f[CHOOSE x \in s : TRUE] + iter[s \ {CHOOSE x \in s : TRUE}]]
<1>1. \E iter : iter = [s \in SUBSET DOMAIN f |->
                    IF s = {} THEN 0
                    ELSE f[CHOOSE x \in s : TRUE] + iter[s \ {CHOOSE x \in s : TRUE}]]
  <2>1. PICK iter : IsSum(iter, SUBSET DOMAIN f, f)
    BY SumExists
  <2> QED BY <2>1, Zenon DEF IsSum, FirstOf
<1>2. F = [s \in SUBSET DOMAIN f |->
                    IF s = {} THEN 0
                    ELSE f[CHOOSE x \in s : TRUE] + F[s \ {CHOOSE x \in s : TRUE}]]
  BY <1>1, Zenon
<1>3. SumFunction(f) = F[DOMAIN f]
  BY DEF SumFunction, SumFunctionOnSet, FoldFunctionOnSet, MapThenFoldSet
<1> HIDE DEF F
<1>4. IsSum(F, SUBSET DOMAIN f, f)
  BY <1>2 DEF IsSum, FirstOf
<1> QED BY <1>3, <1>4

LEMMA SumOver ==
    ASSUME NEW S, IsFiniteSet(S), NEW f, DOMAIN f = S
    PROVE  \E F : IsSum(F, SUBSET S, f) /\ SumFunction(f) = F[S]
<1>1. \E F : IsSum(F, SUBSET DOMAIN f, f) /\ SumFunction(f) = F[DOMAIN f]
  BY SumIs
<1> QED BY <1>1

\* Induction over the subsets of a finite set by their size.
LEMMA SizeInduction ==
    ASSUME NEW S, IsFiniteSet(S), NEW G,
           \A T \in SUBSET S : (\A x \in T : T \ {x} \in G) => T \in G
    PROVE  \A T \in SUBSET S : T \in G
<1> DEFINE N == {n \in Nat : \A T \in SUBSET S : Cardinality(T) = n => T \in G}
<1>1. \A T \in SUBSET S : IsFiniteSet(T) /\ Cardinality(T) \in Nat
  BY FS_Subset, FS_CardinalityType
<1>2. 0 \in N
  BY <1>1, FS_EmptySet
<1>3. ASSUME NEW n \in Nat, n \in N PROVE n + 1 \in N
  <2> SUFFICES ASSUME NEW T \in SUBSET S, Cardinality(T) = n + 1 PROVE T \in G
    OBVIOUS
  <2>1. ASSUME NEW x \in T PROVE T \ {x} \in G
    <3>1. Cardinality(T \ {x}) = Cardinality(T) - 1 /\ T \ {x} \in SUBSET S
      BY <1>1, FS_RemoveElement
    <3>2. Cardinality(T \ {x}) = n
      BY <3>1
    <3> QED BY <1>3, <3>1, <3>2
  <2> QED BY <2>1
<1> HIDE DEF N
<1>4. \A n \in Nat : n \in N
  BY <1>2, <1>3, SumInduction
<1> QED BY <1>1, <1>4 DEF N

LEMMA SumTypes ==
    ASSUME NEW S, IsFiniteSet(S), NEW f \in [S -> Nat], NEW F, IsSum(F, SUBSET S, f)
    PROVE  \A T \in SUBSET S : F[T] \in Nat
<1> DEFINE G == {T \in SUBSET S : F[T] \in Nat}
<1>1. ASSUME NEW T \in SUBSET S, \A x \in T : T \ {x} \in G PROVE T \in G
  <2>1. F[T] = IF T = {} THEN 0 ELSE f[FirstOf(T)] + F[T \ {FirstOf(T)}]
    BY DEF IsSum
  <2>2. T # {} => FirstOf(T) \in T
    BY TakenIn
  <2>3. T # {} => F[T \ {FirstOf(T)}] \in Nat /\ f[FirstOf(T)] \in Nat
    BY <1>1, <2>2
  <2> QED BY <2>1, <2>3
<1> HIDE DEF G
<1>2. \A T \in SUBSET S : T \in G
  BY <1>1, SizeInduction
<1> QED BY <1>2 DEF G

\* Any element of a set may be taken first.
TakesAny(F, S, f) == \A T \in SUBSET S : \A x \in T : F[T] = f[x] + F[T \ {x}]

LEMMA SumAny ==
    ASSUME NEW S, IsFiniteSet(S), NEW f \in [S -> Nat], NEW F, IsSum(F, SUBSET S, f)
    PROVE  TakesAny(F, S, f)
<1> DEFINE G == {T \in SUBSET S : \A x \in T : F[T] = f[x] + F[T \ {x}]}
<1>1. ASSUME NEW T \in SUBSET S, \A x \in T : T \ {x} \in G PROVE T \in G
  <2> SUFFICES ASSUME NEW x \in T PROVE F[T] = f[x] + F[T \ {x}]
    OBVIOUS
  <2>1. PICK y : y = FirstOf(T)
    OBVIOUS
  <2>2. y \in T /\ F[T] = f[y] + F[T \ {y}]
    <3>1. F[T] = IF T = {} THEN 0 ELSE f[FirstOf(T)] + F[T \ {FirstOf(T)}]
      BY DEF IsSum
    <3>2. y \in T
      BY <2>1, TakenIn
    <3> QED BY <2>1, <3>1, <3>2
  <2>3. CASE y # x
    <3>1. /\ F[T \ {y}] = f[x] + F[(T \ {y}) \ {x}]
          /\ F[T \ {x}] = f[y] + F[(T \ {x}) \ {y}]
      BY <1>1, <2>2, <2>3
    <3>2. PICK Z \in SUBSET S : Z = (T \ {y}) \ {x} /\ Z = (T \ {x}) \ {y}
      OBVIOUS
    <3>3. PICK a : a = F[T \ {y}]
      OBVIOUS
    <3>4. PICK b : b = F[T \ {x}]
      OBVIOUS
    <3>5. F[T] = f[y] + a /\ a = f[x] + F[Z] /\ b = f[y] + F[Z]
      BY <2>2, <3>1, <3>2, <3>3, <3>4
    <3>6. F[Z] \in Nat /\ f[x] \in Nat /\ f[y] \in Nat
      <4>1. \A R \in SUBSET S : F[R] \in Nat
        BY SumTypes
      <4> QED BY <2>2, <4>1
    <3>7. F[T] = f[x] + b
      BY <3>5, <3>6
    <3> QED BY <3>4, <3>7
  <2> QED BY <2>2, <2>3
<1> HIDE DEF G
<1>2. \A T \in SUBSET S : T \in G
  BY <1>1, SizeInduction
<1> QED BY <1>2 DEF G, TakesAny

\* Functions that agree on a set have one sum over it.
Agree(f, S, g, R, Q) ==
    /\ IsFiniteSet(S) /\ IsFiniteSet(R) /\ Q \subseteq S /\ Q \subseteq R
    /\ \A x \in Q : f[x] = g[x]

SameSum(F, H, Q) == F[Q] = H[Q]

LEMMA SumAgree ==
    ASSUME NEW S, NEW f, NEW F, IsSum(F, SUBSET S, f),
           NEW R, NEW g, NEW H, IsSum(H, SUBSET R, g),
           NEW Q, Agree(f, S, g, R, Q)
    PROVE  SameSum(F, H, Q)
<1>0. /\ IsFiniteSet(S) /\ Q \subseteq S /\ Q \subseteq R
      /\ \A x \in Q : f[x] = g[x]
  BY DEF Agree
<1> DEFINE G == {T \in SUBSET Q : F[T] = H[T]}
<1>1. ASSUME NEW T \in SUBSET Q, \A x \in T : T \ {x} \in G PROVE T \in G
  <2>1. /\ F[T] = IF T = {} THEN 0 ELSE f[FirstOf(T)] + F[T \ {FirstOf(T)}]
        /\ H[T] = IF T = {} THEN 0 ELSE g[FirstOf(T)] + H[T \ {FirstOf(T)}]
    BY <1>0 DEF IsSum
  <2>2. T # {} => FirstOf(T) \in T
    BY TakenIn
  <2>3. T # {} => F[T \ {FirstOf(T)}] = H[T \ {FirstOf(T)}] /\ f[FirstOf(T)] = g[FirstOf(T)]
    BY <1>0, <1>1, <2>2
  <2> QED BY <2>1, <2>3
<1> HIDE DEF G
<1>2. \A T \in SUBSET Q : T \in G
  <2>1. IsFiniteSet(Q)
    BY <1>0, FS_Subset
  <2> QED BY <1>1, <2>1, SizeInduction
<1> QED BY <1>2 DEF G, SameSum

LEMMA SumNat ==
    ASSUME NEW S, IsFiniteSet(S), NEW f \in [S -> Nat]
    PROVE  SumFunction(f) \in Nat
<1>1. PICK F : IsSum(F, SUBSET S, f) /\ SumFunction(f) = F[S]
  <2>1. DOMAIN f = S
    OBVIOUS
  <2> QED BY <2>1, SumOver
<1> QED BY <1>1, SumTypes

\* One value changes: the sum changes with it.
ChangedBy(S, f, g, w, d) ==
    /\ IsFiniteSet(S) /\ f \in [S -> Nat] /\ g \in [S -> Nat] /\ w \in S /\ d \in Nat
    /\ g[w] = f[w] + d /\ \A x \in S \ {w} : g[x] = f[x]

LEMMA SumChanged ==
    ASSUME NEW S, NEW f, NEW g, NEW w, NEW d, ChangedBy(S, f, g, w, d)
    PROVE  SumFunction(g) = SumFunction(f) + d
<1>0. /\ IsFiniteSet(S) /\ f \in [S -> Nat] /\ g \in [S -> Nat] /\ w \in S /\ d \in Nat
      /\ g[w] = f[w] + d /\ \A x \in S \ {w} : g[x] = f[x]
  BY DEF ChangedBy
<1> USE <1>0
<1>1. PICK F : IsSum(F, SUBSET S, f) /\ SumFunction(f) = F[S]
  <2>1. DOMAIN f = S
    OBVIOUS
  <2> QED BY <2>1, SumOver
<1>2. PICK H : IsSum(H, SUBSET S, g) /\ SumFunction(g) = H[S]
  <2>1. DOMAIN g = S
    OBVIOUS
  <2> QED BY <2>1, SumOver
<1>3. F[S] = f[w] + F[S \ {w}] /\ H[S] = g[w] + H[S \ {w}]
  <2>1. TakesAny(F, S, f)
    BY <1>1, SumAny
  <2>2. TakesAny(H, S, g)
    BY <1>2, SumAny
  <2> QED BY <2>1, <2>2 DEF TakesAny
<1>4. F[S \ {w}] = H[S \ {w}]
  <2>1. PICK Q : Q = S \ {w}
    OBVIOUS
  <2>2. Agree(f, S, g, S, Q)
    BY <2>1 DEF Agree
  <2>3. SameSum(F, H, Q)
    BY <1>1, <1>2, <2>2, SumAgree
  <2> QED BY <2>1, <2>3 DEF SameSum
<1>5. F[S \ {w}] \in Nat /\ f[w] \in Nat
  <2>1. \A T \in SUBSET S : F[T] \in Nat
    BY <1>1, SumTypes
  <2> QED BY <2>1
<1> QED BY <1>1, <1>2, <1>3, <1>4, <1>5

\* A value of 0 is added: the sum stays.
ExtendedBy(S, f, g, a) ==
    /\ IsFiniteSet(S) /\ f \in [S -> Nat] /\ a \notin S /\ g \in [S \cup {a} -> Nat]
    /\ g[a] = 0 /\ \A x \in S : g[x] = f[x]

LEMMA SumExtended ==
    ASSUME NEW S, NEW f, NEW g, NEW a, ExtendedBy(S, f, g, a)
    PROVE  SumFunction(g) = SumFunction(f)
<1>0. /\ IsFiniteSet(S) /\ f \in [S -> Nat] /\ a \notin S /\ g \in [S \cup {a} -> Nat]
      /\ g[a] = 0 /\ \A x \in S : g[x] = f[x]
  BY DEF ExtendedBy
<1> USE <1>0
<1>1. PICK F : IsSum(F, SUBSET S, f) /\ SumFunction(f) = F[S]
  <2>1. DOMAIN f = S
    OBVIOUS
  <2> QED BY <2>1, SumOver
<1>2. IsFiniteSet(S \cup {a})
  BY FS_AddElement
<1>3. PICK H : IsSum(H, SUBSET (S \cup {a}), g) /\ SumFunction(g) = H[S \cup {a}]
  <2>1. DOMAIN g = S \cup {a}
    OBVIOUS
  <2> QED BY <1>2, <2>1, SumOver
<1>4. (S \cup {a}) \ {a} = S
  OBVIOUS
<1>5. H[S \cup {a}] = g[a] + H[S]
  <2>1. PICK R : R = S \cup {a}
    OBVIOUS
  <2>2. g \in [R -> Nat] /\ IsSum(H, SUBSET R, g) /\ IsFiniteSet(R)
    <3>1. \A x \in R : g[x] \in Nat
      BY <2>1
    <3> QED BY <1>2, <1>3, <2>1, <3>1
  <2>3. TakesAny(H, R, g)
    BY <2>2, SumAny
  <2>4. R \in SUBSET R /\ a \in R /\ R \ {a} = S
    BY <2>1
  <2> QED BY <2>1, <2>3, <2>4 DEF TakesAny
<1>6. F[S] = H[S]
  <2>1. PICK R : R = S \cup {a}
    OBVIOUS
  <2>2. IsSum(H, SUBSET R, g)
    BY <1>3, <2>1
  <2>3. Agree(f, S, g, R, S)
    BY <1>2, <2>1 DEF Agree
  <2>4. SameSum(F, H, S)
    BY <1>1, <2>2, <2>3, SumAgree
  <2> QED BY <2>4 DEF SameSum
<1>7. F[S] \in Nat
  <2>1. \A T \in SUBSET S : F[T] \in Nat
    BY <1>1, SumTypes
  <2> QED BY <2>1
<1> QED BY <1>1, <1>3, <1>5, <1>6, <1>7

(***************************************************************************)
(* What a miner is, and what is true of it                                 *)
(***************************************************************************)

States == {"none", "WaitLogin", "WaitReady", "Ready", "Closing", "gone"}

\* Workers are named as miners name them; "none" is of one that did not log in.
Names == {r.worker : r \in MinerLogins} \cup {"none"}

MinerType ==
    [state : States, handle : {"none", "open", "shutdown", "closing"}, left : Int,
     rx : {"none", "plain", "handshake", "tls"}, strict : BOOLEAN, login : Names,
     replies : Nat, route : BOOLEAN, mapper : BOOLEAN, diff : Nat]

TickingType == [pending : Nat, data : Nat]

TotalsType ==
    [connections : Int, accepted : Nat, rejected : Nat, invalid : Nat, hashrate : TickingType]

WorkerType ==
    [name : Names, connections : Int, accepted : Nat, rejected : Nat, invalid : Nat,
     hashrate : TickingType]

ServingOK ==
    /\ {serving.tls, serving.verifier, serving.donate, serving.byWorker, serving.customStats}
         \subseteq BOOLEAN
    /\ serving.diff \in Nat
    /\ \A h \in serving.servers : h.tls \in BOOLEAN /\ (h.tls = TRUE => serving.tls = TRUE)

\* What a miner is at every moment of its life.
MinerOK(m) ==
    /\ m \in MinerType
    /\ m.state = "none" => m.mapper = FALSE /\ m.login = "none"
    /\ m.state = "WaitLogin" => m.mapper = FALSE /\ m.login = "none"
    /\ m.state = "gone" => m.mapper = FALSE
    /\ m.state # "Closing" => m.handle \in {"none", "open"}
    /\ m.state \notin {"none", "gone", "Closing"} =>
         /\ m.strict = TRUE => serving.tls = TRUE /\ m.rx # "plain"
         /\ m.login # "none" => m.rx \in {"plain", "tls"}
         /\ m.replies = IF m.state = "Ready" THEN 1 ELSE 0
         /\ m.left >= 0
         /\ serving.verifier = TRUE /\ m.mapper = TRUE /\ m.route = FALSE =>
              m.diff = serving.diff \/ (serving.diff > 0 /\ m.diff >= serving.diff)

\* A miner that Workers counts.
InWorkers(c) == c \in listed /\ miners[c].mapper = TRUE /\ miners[c].route = FALSE

\* The tables of Workers agree, and have the worker of every miner that is counted.
TableOK ==
    /\ table = [map |-> table.map, list |-> table.list, of |-> table.of]
    /\ DOMAIN table.map \subseteq Names
    /\ \A n \in DOMAIN table.map :
         table.map[n] \in DOMAIN table.list /\ table.list[table.map[n]].name = n
    /\ \A w \in DOMAIN table.list :
         table.list[w].name \in DOMAIN table.map /\ table.map[table.list[w].name] = w
    /\ DOMAIN table.of \subseteq MinerIds
    /\ \A c \in DOMAIN table.of :
         /\ table.of[c] \in DOMAIN table.list
         /\ table.list[table.of[c]].name = miners[c].login
         /\ miners[c].state \notin {"none", "WaitLogin"}
    /\ serving.byWorker = TRUE => \A c \in MinerIds : InWorkers(c) => c \in DOMAIN table.of

(***************************************************************************)
(* Miners                                                                  *)
(***************************************************************************)

MinersPart ==
    /\ ServingOK
    /\ miners \in [MinerIds -> MinerType] /\ \A c \in MinerIds : MinerOK(miners[c])
    /\ listed = {c \in MinerIds : miners[c].state \notin {"none", "gone"}}

LEMMA TimeoutsNat == {kLoginTimeout, kReadyTimeout, kSocketTimeout} \subseteq Nat
BY ConnectionsAssumption

LEMMA NoMinerFields ==
    /\ NoMiner \in MinerType /\ NoMiner.state = "none" /\ NoMiner.login = "none"
    /\ NoMiner.mapper = FALSE /\ NoMiner.rx = "none" /\ NoMiner.replies = 0
    /\ NoMiner.handle = "none"
<1>1. "none" \in Names /\ "none" \in States
  BY DEF Names, States
<1> QED BY <1>1 DEF NoMiner, MinerType

LEMMA NewMinerOK ==
    ASSUME ServingOK, NEW h \in serving.servers
    PROVE  MinerOK(newMiner(h)) /\ newMiner(h).state = "WaitLogin" /\ newMiner(h).mapper = FALSE
<1>1. PICK n : n = NoMiner
  OBVIOUS
<1>2. PICK t \in BOOLEAN : t = h.tls /\ (t = TRUE => serving.tls = TRUE)
  BY DEF ServingOK
<1>3. PICK k : k = newMiner(h)
  OBVIOUS
<1>4. k = [n EXCEPT !.state = "WaitLogin", !.handle = "open",
                    !.left = kLoginTimeout, !.strict = t]
  BY <1>1, <1>2, <1>3, Zenon DEF newMiner
<1>5. n \in MinerType /\ n.login = "none" /\ n.mapper = FALSE /\ n.rx = "none" /\ n.replies = 0
  BY <1>1, NoMinerFields
<1>6. "WaitLogin" \in States
  BY DEF States
<1>7. kLoginTimeout \in Nat
  BY TimeoutsNat
<1>8. /\ k \in MinerType /\ k.state = "WaitLogin" /\ k.login = "none" /\ k.mapper = FALSE
      /\ k.rx = "none" /\ k.replies = 0 /\ k.strict = t /\ k.left = kLoginTimeout
      /\ k.handle = "open"
  <2>1. "open" \in {"none", "open", "shutdown", "closing"} /\ kLoginTimeout \in Int
    BY <1>7
  <2>2. k \in MinerType
    BY <1>4, <1>5, <1>6, <2>1 DEF MinerType
  <2>3. k.state = "WaitLogin" /\ k.login = n.login /\ k.mapper = n.mapper /\ k.rx = n.rx
    BY <1>4, <1>5 DEF MinerType
  <2>4. k.replies = n.replies /\ k.strict = t /\ k.left = kLoginTimeout /\ k.handle = "open"
    BY <1>4, <1>5 DEF MinerType
  <2> QED BY <1>5, <2>2, <2>3, <2>4
<1>9. MinerOK(k)
  BY <1>2, <1>7, <1>8 DEF MinerOK
<1> QED BY <1>3, <1>8, <1>9

LEMMA GoneMinerOK ==
    ASSUME NEW m, m \in MinerType
    PROVE  /\ MinerOK([NoMiner EXCEPT !.state = "gone", !.login = m.login])
           /\ m.mapper = FALSE /\ m.handle \in {"none", "open"} => MinerOK([m EXCEPT !.state = "gone"])
           /\ MinerOK(NoMiner)
<1>1. PICK n : n = NoMiner
  OBVIOUS
<1>2. /\ n \in MinerType /\ n.login = "none" /\ n.mapper = FALSE /\ n.state = "none"
      /\ n.handle = "none"
  BY <1>1, NoMinerFields
<1>3. m.login \in Names /\ "gone" \in States
  BY DEF MinerType, States
<1>4. ASSUME NEW k, k = [n EXCEPT !.state = "gone", !.login = m.login] PROVE MinerOK(k)
  <2>1. k \in MinerType /\ k.state = "gone" /\ k.mapper = FALSE /\ k.handle = "none"
    BY <1>2, <1>3, <1>4 DEF MinerType
  <2> QED BY <2>1 DEF MinerOK
<1>5. ASSUME NEW k, m.mapper = FALSE, m.handle \in {"none", "open"},
             k = [m EXCEPT !.state = "gone"]
      PROVE  MinerOK(k)
  <2>1. k \in MinerType /\ k.state = "gone" /\ k.mapper = FALSE /\ k.handle \in {"none", "open"}
    BY <1>3, <1>5 DEF MinerType
  <2> QED BY <2>1 DEF MinerOK
<1>6. MinerOK(n)
  BY <1>2 DEF MinerOK
<1> QED BY <1>1, <1>4, <1>5, <1>6

LEMMA ClosedFields ==
    ASSUME NEW m \in MinerType, NEW e \in BOOLEAN, m.state # "Closing"
    PROVE  closed(m, e) =
             [state |-> "Closing", handle |-> IF e THEN "closing" ELSE "shutdown", left |-> 0,
              rx |-> "none", strict |-> FALSE, login |-> m.login, replies |-> 0,
              route |-> m.route, mapper |-> m.mapper, diff |-> 0]
BY DEF closed, NoMiner

LEMMA ClosedOK ==
    ASSUME NEW m \in MinerType, NEW e \in BOOLEAN, m.state # "Closing"
    PROVE  /\ MinerOK(closed(m, e)) /\ closed(m, e).state = "Closing"
           /\ closed(m, e).login = m.login /\ closed(m, e).mapper = m.mapper
           /\ closed(m, e).route = m.route
<1>1. closed(m, e) =
             [state |-> "Closing", handle |-> IF e THEN "closing" ELSE "shutdown", left |-> 0,
              rx |-> "none", strict |-> FALSE, login |-> m.login, replies |-> 0,
              route |-> m.route, mapper |-> m.mapper, diff |-> 0]
  BY ClosedFields
<1>2. m.login \in Names /\ m.mapper \in BOOLEAN /\ m.route \in BOOLEAN
  BY DEF MinerType
<1>3. (IF e THEN "closing" ELSE "shutdown") \in {"none", "open", "shutdown", "closing"}
  OBVIOUS
<1>4. closed(m, e) \in MinerType
  BY <1>1, <1>2, <1>3 DEF MinerType, States
<1> QED BY <1>1, <1>4 DEF MinerOK

(***************************************************************************)
(* The handlers of a miner                                                 *)
(***************************************************************************)

\* What a step makes of a miner that is alive.
Moves(m, n) ==
    /\ MinerOK(n) /\ m.state \notin {"none", "gone"} /\ n.state \notin {"none", "gone"}
    /\ n.state = "Ready" => m.state \in {"WaitReady", "Ready"}
    /\ m.state = "Ready" => n.state \in {"Ready", "Closing"}
    /\ n.state = "WaitLogin" => m.state = "WaitLogin"
    /\ m.state # "WaitLogin" => n.login = m.login

\* What Workers asks of a miner stays.
KeepsRoute(m, n) == n.mapper = m.mapper /\ n.route = m.route

LEMMA ClosedMoves ==
    ASSUME NEW m \in MinerType, NEW e \in BOOLEAN, m.state \notin {"none", "gone", "Closing"}
    PROVE  Moves(m, closed(m, e)) /\ KeepsRoute(m, closed(m, e))
BY ClosedOK DEF Moves, KeepsRoute

\* A miner that is served, with what the proxy knows of it.
LEMMA ServedOK ==
    ASSUME MinersPart, NEW c \in MinerIds, Served(c)
    PROVE  /\ miners[c] \in MinerType /\ MinerOK(miners[c])
           /\ miners[c].state \notin {"none", "gone", "Closing"}
<1>1. miners[c] \in MinerType /\ MinerOK(miners[c])
  BY DEF MinersPart
<1>2. miners[c].state \notin {"none", "gone"} /\ miners[c].state # "Closing"
  BY DEF Served, Alive
<1> QED BY <1>1, <1>2

LEMMA PlainMoves ==
    ASSUME ServingOK, NEW m, MinerOK(m), m.state \notin {"none", "gone", "Closing"},
           m.rx = "none", NEW b, ~startTLS(m, b), NEW n, n = [m EXCEPT !.rx = "plain"]
    PROVE  Moves(m, n) /\ KeepsRoute(m, n)
<1>1. m \in MinerType /\ m.strict \in BOOLEAN
  BY DEF MinerOK, MinerType
<1>2. n \in MinerType
  BY <1>1 DEF MinerType
<1>3. /\ n.state = m.state /\ n.rx = "plain" /\ n.strict = m.strict /\ n.login = m.login
      /\ n.replies = m.replies /\ n.left = m.left /\ n.mapper = m.mapper /\ n.route = m.route
      /\ n.diff = m.diff /\ n.handle = m.handle
  BY <1>1 DEF MinerType
<1>4. m.strict # TRUE
  <2>1. m.strict = TRUE => serving.tls = TRUE
    BY DEF MinerOK
  <2>2. ~(serving.tls /\ m.strict)
    BY Zenon DEF startTLS
  <2> QED BY <2>1, <2>2
<1>5. MinerOK(n)
  BY <1>2, <1>3, <1>4 DEF MinerOK
<1> QED BY <1>3, <1>5 DEF Moves, KeepsRoute

LEMMA HelloMoves ==
    ASSUME NEW m, MinerOK(m), m.state \notin {"none", "gone", "Closing"},
           m.rx = "none", NEW n, n = [m EXCEPT !.rx = "handshake"]
    PROVE  Moves(m, n) /\ KeepsRoute(m, n)
<1>1. m \in MinerType
  BY DEF MinerOK
<1>2. n \in MinerType
  BY <1>1 DEF MinerType
<1>3. /\ n.state = m.state /\ n.rx = "handshake" /\ n.strict = m.strict /\ n.login = m.login
      /\ n.replies = m.replies /\ n.left = m.left /\ n.mapper = m.mapper /\ n.route = m.route
      /\ n.diff = m.diff /\ n.handle = m.handle
  BY <1>1 DEF MinerType
<1>4. m.login = "none"
  BY DEF MinerOK
<1>5. MinerOK(n)
  BY <1>2, <1>3, <1>4 DEF MinerOK
<1> QED BY <1>3, <1>5 DEF Moves, KeepsRoute

LEMMA TlsMoves ==
    ASSUME NEW m, MinerOK(m), m.state \notin {"none", "gone", "Closing"},
           NEW n, n = [m EXCEPT !.rx = "tls"]
    PROVE  Moves(m, n) /\ KeepsRoute(m, n)
<1>1. m \in MinerType
  BY DEF MinerOK
<1>2. n \in MinerType
  BY <1>1 DEF MinerType
<1>3. /\ n.state = m.state /\ n.rx = "tls" /\ n.strict = m.strict /\ n.login = m.login
      /\ n.replies = m.replies /\ n.left = m.left /\ n.mapper = m.mapper /\ n.route = m.route
      /\ n.diff = m.diff /\ n.handle = m.handle
  BY <1>1 DEF MinerType
<1>5. MinerOK(n)
  BY <1>2, <1>3 DEF MinerOK
<1> QED BY <1>3, <1>5 DEF Moves, KeepsRoute

LEMMA HeartbeatMoves ==
    ASSUME NEW m, MinerOK(m), m.state \notin {"none", "gone", "Closing"}
    PROVE  Moves(m, heartbeat(m)) /\ KeepsRoute(m, heartbeat(m))
<1>1. PICK n : n = heartbeat(m)
  OBVIOUS
<1>2. m \in MinerType /\ kSocketTimeout \in Nat
  BY TimeoutsNat DEF MinerOK
<1>3. n = [m EXCEPT !.left = kSocketTimeout]
  BY <1>1 DEF heartbeat
<1>4. n \in MinerType
  BY <1>2, <1>3 DEF MinerType
<1>5. /\ n.state = m.state /\ n.rx = m.rx /\ n.strict = m.strict /\ n.login = m.login
      /\ n.replies = m.replies /\ n.left = kSocketTimeout /\ n.mapper = m.mapper
      /\ n.route = m.route /\ n.diff = m.diff /\ n.handle = m.handle
  BY <1>2, <1>3 DEF MinerType
<1>6. MinerOK(n)
  BY <1>2, <1>4, <1>5 DEF MinerOK
<1>7. Moves(m, n) /\ KeepsRoute(m, n)
  BY <1>5, <1>6 DEF Moves, KeepsRoute
<1> QED BY <1>1, <1>7

LEMMA SendJobMoves ==
    ASSUME NEW m, MinerOK(m), m.state \notin {"none", "gone", "Closing"}, m.mapper = TRUE
    PROVE  /\ Moves(m, sendJob(m)) /\ KeepsRoute(m, sendJob(m))
           /\ sendJob(m).state = IF m.state = "WaitReady" THEN "Ready" ELSE m.state
<1>0. m \in MinerType /\ kSocketTimeout \in Nat
  BY TimeoutsNat DEF MinerOK
<1>1. CASE m.state = "WaitReady"
  <2>1. PICK h : h = heartbeat(m)
    OBVIOUS
  <2>2. h = [m EXCEPT !.left = kSocketTimeout]
    BY <2>1 DEF heartbeat
  <2>3. PICK n : n = sendJob(m)
    OBVIOUS
  <2>4. n = [h EXCEPT !.state = "Ready", !.replies = h.replies + 1]
    BY <1>1, <2>1, <2>3 DEF sendJob
  <2>5. h \in MinerType
    BY <1>0, <2>2 DEF MinerType
  <2>6. /\ h.state = m.state /\ h.rx = m.rx /\ h.strict = m.strict /\ h.login = m.login
        /\ h.replies = m.replies /\ h.left = kSocketTimeout /\ h.mapper = m.mapper
        /\ h.route = m.route /\ h.diff = m.diff /\ h.handle = m.handle
    BY <1>0, <2>2 DEF MinerType
  <2>7. "Ready" \in States /\ h.replies + 1 \in Nat
    <3>1. h.replies \in Nat
      BY <2>5 DEF MinerType
    <3> QED BY <3>1 DEF States
  <2>8. n \in MinerType
    BY <2>4, <2>5, <2>7 DEF MinerType
  <2>9. /\ n.state = "Ready" /\ n.rx = h.rx /\ n.strict = h.strict /\ n.login = h.login
        /\ n.replies = h.replies + 1 /\ n.left = h.left /\ n.mapper = h.mapper
        /\ n.route = h.route /\ n.diff = h.diff /\ n.handle = h.handle
    BY <2>4, <2>5 DEF MinerType
  <2>10. m.replies = 0
    BY <1>1 DEF MinerOK
  <2>11. MinerOK(n)
    BY <1>0, <1>1, <2>6, <2>8, <2>9, <2>10 DEF MinerOK
  <2>12. Moves(m, n) /\ KeepsRoute(m, n) /\ n.state = "Ready"
    BY <1>1, <2>6, <2>9, <2>11 DEF Moves, KeepsRoute
  <2> QED BY <1>1, <2>3, <2>12
<1>2. CASE m.state # "WaitReady"
  <2>1. sendJob(m) = m
    BY <1>2 DEF sendJob
  <2> QED BY <1>2, <2>1 DEF Moves, KeepsRoute
<1> QED BY <1>1, <1>2

(***************************************************************************)
(* A login                                                                 *)
(***************************************************************************)

LoggedIn(m, r) ==
    [m EXCEPT !.state = "WaitReady", !.login = r.worker,
              !.left = IF serving.verifier THEN kReadyTimeout ELSE m.left]

Given(m, r) ==
    [LoggedIn(m, r) EXCEPT !.mapper = TRUE, !.route = serving.donate /\ r.url = "donate"]

Accepted(m, r) ==
    IF Given(m, r).route THEN Given(m, r) ELSE [Given(m, r) EXCEPT !.diff = customDiff(r.diff)]

\* LoginRequest, in these words.
LEMMA LoginSteps ==
    ASSUME NEW c, NEW r, LoginRequest(c, r)
    PROVE  /\ Reads(c) /\ miners[c].state = "WaitLogin"
           /\ \/ /\ MinerBecomes(c, closed(LoggedIn(miners[c], r), TRUE))
                 /\ table' = table
              \/ /\ MinerBecomes(c, Accepted(miners[c], r))
                 /\ table' = workersLogin(table, c, Accepted(miners[c], r), r.worker)
           /\ serving' = serving /\ listed' = listed /\ totals' = totals
<1>1. LoggedIn(miners[c], r) = [miners[c] EXCEPT !.state = "WaitReady", !.login = r.worker,
                                   !.left = IF serving.verifier THEN kReadyTimeout ELSE @]
  BY DEF LoggedIn
<1> QED BY <1>1, Zenon DEF LoginRequest, Given, Accepted

\* CustomDiff::login does not go below the configured difficulty with a verifier.
LEMMA DiffFloor ==
    ASSUME ServingOK, NEW d \in Nat
    PROVE  /\ customDiff(d) \in Nat
           /\ serving.verifier = TRUE =>
                customDiff(d) = serving.diff
                  \/ (serving.diff > 0 /\ customDiff(d) >= serving.diff)
<1>1. serving.verifier \in BOOLEAN /\ serving.diff \in Nat
  BY DEF ServingOK
<1>2. CASE d = 0 \/ (serving.diff = 0 \/ d < serving.diff)
  <2>1. customDiff(d) = serving.diff \/ (serving.verifier # TRUE /\ customDiff(d) = d)
    BY <1>1, <1>2 DEF customDiff
  <2> QED BY <1>1, <2>1
<1>3. CASE ~ (d = 0 \/ (serving.diff = 0 \/ d < serving.diff))
  <2>1. customDiff(d) = d
    BY <1>3 DEF customDiff
  <2> QED BY <1>1, <1>3, <2>1
<1> QED BY <1>2, <1>3

LEMMA LoggedInType ==
    ASSUME NEW m \in MinerType, NEW r \in MinerLogins, m.left >= 0, NEW n, n = LoggedIn(m, r)
    PROVE  /\ n \in MinerType /\ n.state = "WaitReady" /\ n.login = r.worker /\ n.left >= 0
           /\ n.rx = m.rx /\ n.strict = m.strict /\ n.replies = m.replies /\ n.handle = m.handle
           /\ n.mapper = m.mapper /\ n.route = m.route /\ n.diff = m.diff
<1>1. PICK l \in Int : l = (IF serving.verifier THEN kReadyTimeout ELSE m.left) /\ l >= 0
  <2>1. kReadyTimeout \in Nat /\ m.left \in Int
    BY TimeoutsNat DEF MinerType
  <2>2. (IF serving.verifier THEN kReadyTimeout ELSE m.left) = kReadyTimeout
          \/ (IF serving.verifier THEN kReadyTimeout ELSE m.left) = m.left
    OBVIOUS
  <2>3. \A l : l = kReadyTimeout \/ l = m.left => l \in Int /\ l >= 0
    BY <2>1
  <2> QED BY <2>2, <2>3
<1>2. n = [m EXCEPT !.state = "WaitReady", !.login = r.worker, !.left = l]
  BY <1>1, Zenon DEF LoggedIn
<1>3. r.worker \in Names /\ "WaitReady" \in States
  BY DEF Names, States
<1>4. n \in MinerType
  BY <1>2, <1>3 DEF MinerType
<1>5. n.state = "WaitReady" /\ n.login = r.worker /\ n.left = l
  BY <1>2 DEF MinerType
<1>6. n.rx = m.rx /\ n.strict = m.strict /\ n.replies = m.replies /\ n.handle = m.handle
  BY <1>2 DEF MinerType
<1>7. n.mapper = m.mapper /\ n.route = m.route /\ n.diff = m.diff
  BY <1>2 DEF MinerType
<1> QED BY <1>1, <1>4, <1>5, <1>6, <1>7

LEMMA AcceptedMoves ==
    ASSUME ServingOK, NEW m, MinerOK(m), m.state = "WaitLogin", m.rx \in {"plain", "tls"},
           NEW r \in MinerLogins, NEW n, n = Accepted(m, r)
    PROVE  Moves(m, n) /\ n.state = "WaitReady" /\ n.mapper = TRUE /\ n.login = r.worker
<1>0. /\ m \in MinerType /\ m.left >= 0 /\ m.replies = 0 /\ m.handle \in {"none", "open"}
      /\ (m.strict = TRUE => serving.tls = TRUE /\ m.rx # "plain")
  BY DEF MinerOK
<1>1. PICK l : l = LoggedIn(m, r)
  OBVIOUS
<1>2. /\ l \in MinerType /\ l.state = "WaitReady" /\ l.login = r.worker /\ l.left >= 0
      /\ l.rx = m.rx /\ l.strict = m.strict /\ l.replies = 0 /\ l.handle = m.handle
  BY <1>0, <1>1, LoggedInType
<1>3. PICK t \in BOOLEAN : t = (serving.donate /\ r.url = "donate")
  OBVIOUS
<1>4. PICK g : g = [l EXCEPT !.mapper = TRUE, !.route = t]
  OBVIOUS
<1>5. g = Given(m, r)
  BY <1>1, <1>3, <1>4, Zenon DEF Given
<1>6. /\ g \in MinerType /\ g.state = l.state /\ g.login = l.login /\ g.left = l.left
      /\ g.rx = l.rx /\ g.strict = l.strict /\ g.replies = l.replies /\ g.handle = l.handle
      /\ g.mapper = TRUE /\ g.route = t
  <2>1. g \in MinerType
    BY <1>2, <1>4 DEF MinerType
  <2>2. g.state = l.state /\ g.login = l.login /\ g.left = l.left
    BY <1>2, <1>4 DEF MinerType
  <2>3. g.rx = l.rx /\ g.strict = l.strict /\ g.replies = l.replies /\ g.handle = l.handle
    BY <1>2, <1>4 DEF MinerType
  <2>4. g.mapper = TRUE /\ g.route = t
    BY <1>2, <1>4 DEF MinerType
  <2> QED BY <2>1, <2>2, <2>3, <2>4
<1>7. PICK d : d = customDiff(r.diff)
  OBVIOUS
<1>8. /\ d \in Nat
      /\ serving.verifier = TRUE => d = serving.diff \/ (serving.diff > 0 /\ d >= serving.diff)
  <2>1. r.diff \in Nat
    BY ConnectionsAssumption
  <2> QED BY <1>7, <2>1, DiffFloor
<1>9. CASE t = TRUE
  <2>1. n = g
    BY <1>5, <1>6, <1>9 DEF Accepted
  <2>2. MinerOK(n)
    BY <1>0, <1>2, <1>6, <1>9, <2>1 DEF MinerOK
  <2> QED BY <1>2, <1>6, <2>1, <2>2 DEF Moves
<1>10. CASE t = FALSE
  <2>1. n = [g EXCEPT !.diff = d]
    <3>1. ~ Given(m, r).route
      BY <1>5, <1>6, <1>10
    <3> QED BY <1>5, <1>7, <3>1 DEF Accepted
  <2>2. n \in MinerType
    BY <1>6, <1>8, <2>1 DEF MinerType
  <2>3. n.state = g.state /\ n.login = g.login /\ n.left = g.left
    BY <1>6, <2>1 DEF MinerType
  <2>4. n.rx = g.rx /\ n.strict = g.strict /\ n.replies = g.replies /\ n.handle = g.handle
    BY <1>6, <2>1 DEF MinerType
  <2>5. n.mapper = TRUE /\ n.route = FALSE /\ n.diff = d
    BY <1>6, <1>10, <2>1 DEF MinerType
  <2>6. MinerOK(n)
    BY <1>0, <1>2, <1>6, <1>8, <2>2, <2>3, <2>4, <2>5 DEF MinerOK
  <2> QED BY <1>2, <1>6, <2>3, <2>5, <2>6 DEF Moves
<1> QED BY <1>9, <1>10

LEMMA RefusedMoves ==
    ASSUME NEW m, MinerOK(m), m.state = "WaitLogin", NEW r \in MinerLogins,
           NEW n, n = closed(LoggedIn(m, r), TRUE)
    PROVE  Moves(m, n) /\ KeepsRoute(m, n)
<1>0. m \in MinerType /\ m.left >= 0
  BY DEF MinerOK
<1>1. PICK l : l = LoggedIn(m, r)
  OBVIOUS
<1>2. l \in MinerType /\ l.state = "WaitReady" /\ l.mapper = m.mapper /\ l.route = m.route
  BY <1>0, <1>1, LoggedInType
<1>3. PICK e \in BOOLEAN : e = TRUE
  OBVIOUS
<1>4. n = closed(l, e)
  BY <1>1, <1>3
<1>5. MinerOK(n) /\ n.state = "Closing" /\ n.mapper = l.mapper /\ n.route = l.route
  BY <1>2, <1>4, ClosedOK
<1> QED BY <1>2, <1>5 DEF Moves, KeepsRoute

(***************************************************************************)
(* The counts of miners                                                    *)
(***************************************************************************)

ReadySet == {c \in MinerIds : miners[c].state = "Ready"}

CountsPart ==
    /\ counters \in [miners : Int, maxMiners : Int, connections : Int]
    /\ counters.miners = Cardinality(ReadySet)
    /\ counters.maxMiners >= counters.miners
    /\ counters.connections = Cardinality(listed)

LEMMA MinerSetsFinite ==
    /\ IsFiniteSet(MinerIds) /\ Cardinality(MinerIds) \in Nat
    /\ \A S : S \subseteq MinerIds => IsFiniteSet(S) /\ Cardinality(S) \in Nat
<1>1. MaxMiners \in Nat
  BY ConnectionsAssumption
<1>2. IsFiniteSet(MinerIds)
  BY <1>1, FS_Interval DEF MinerIds
<1> QED BY <1>2, FS_Subset, FS_CardinalityType

\* setState counts a miner in and out.
LEMMA SetStateCounts ==
    ASSUME NEW k \in [miners : Int, maxMiners : Int, connections : Int],
           NEW a, NEW b, b = "Ready" => a \in {"WaitReady", "Ready"},
           a = "Ready" => b \in {"Ready", "Closing"}, k.maxMiners >= k.miners,
           NEW k1, k1 = setState(k, a, b)
    PROVE  /\ k1 \in [miners : Int, maxMiners : Int, connections : Int]
           /\ k1.connections = k.connections /\ k1.maxMiners >= k1.miners
           /\ a # "Ready" /\ b = "Ready" => k1.miners = k.miners + 1
           /\ a = "Ready" /\ b # "Ready" => k1.miners = k.miners - 1
           /\ (a = "Ready" <=> b = "Ready") => k1.miners = k.miners
<1>1. CASE a = "WaitReady" /\ b = "Ready"
  <2>1. k1 = [k EXCEPT !.miners = k.miners + 1, !.maxMiners = Max({k.maxMiners, k.miners + 1})]
    BY <1>1 DEF setState, countersAdd
  <2>2. PICK x \in Int : x = Max({k.maxMiners, k.miners + 1}) /\ x >= k.miners + 1
    <3>0. PICK S : S = {k.maxMiners, k.miners + 1}
      OBVIOUS
    <3>1. k.maxMiners \in Int /\ k.miners + 1 \in Int
      OBVIOUS
    <3>2. \E x \in S : \A y \in S : x >= y
      BY <3>0, <3>1
    <3>3. PICK x : x = Max(S)
      OBVIOUS
    <3>4. x \in S /\ \A y \in S : x >= y
      BY <3>2, <3>3, Zenon DEF Max
    <3>5. x \in Int /\ x >= k.miners + 1
      BY <3>0, <3>1, <3>4
    <3>6. x = Max({k.maxMiners, k.miners + 1})
      BY <3>0, <3>3, Zenon
    <3> QED BY <3>5, <3>6, Zenon
  <2>3. k1 = [k EXCEPT !.miners = k.miners + 1, !.maxMiners = x]
    BY <2>1, <2>2
  <2>4. x >= k.miners + 1
    BY <2>2
  <2>5. k1.miners = k.miners + 1 /\ k1.maxMiners = x /\ k1.connections = k.connections
    BY <2>3
  <2>6. k1 \in [miners : Int, maxMiners : Int, connections : Int]
    <3>1. PICK y \in Int : y = k.miners + 1
      OBVIOUS
    <3>2. k1 = [k EXCEPT !.miners = y, !.maxMiners = x]
      BY <2>3, <3>1
    <3> QED BY <3>2
  <2> QED BY <1>1, <2>4, <2>5, <2>6
<1>2. CASE a = "Ready" /\ b = "Closing"
  <2>1. k1 = [k EXCEPT !.miners = k.miners - 1]
    BY <1>2 DEF setState, countersRemove
  <2> QED BY <1>2, <2>1
<1>3. CASE ~ (a = "WaitReady" /\ b = "Ready") /\ ~ (a = "Ready" /\ b = "Closing")
  <2>1. k1 = k
    BY <1>3 DEF setState
  <2> QED BY <1>3, <2>1
<1> QED BY <1>1, <1>2, <1>3

\* The set of miners that are ready, when one changes.
LEMMA ReadySetChanges ==
    ASSUME NEW k \in [MinerIds -> MinerType], NEW c \in MinerIds, NEW n \in MinerType
    PROVE  {d \in MinerIds : [k EXCEPT ![c] = n][d].state = "Ready"}
             = IF n.state = "Ready" THEN {d \in MinerIds : k[d].state = "Ready"} \cup {c}
               ELSE {d \in MinerIds : k[d].state = "Ready"} \ {c}
<1>1. PICK f : f = [k EXCEPT ![c] = n]
  OBVIOUS
<1>2. \A d \in MinerIds : f[d] = IF d = c THEN n ELSE k[d]
  BY <1>1
<1>3. {d \in MinerIds : f[d].state = "Ready"}
             = IF n.state = "Ready" THEN {d \in MinerIds : k[d].state = "Ready"} \cup {c}
               ELSE {d \in MinerIds : k[d].state = "Ready"} \ {c}
  BY <1>2
<1> QED BY <1>1, <1>3

LEMMA ReadyCounts ==
    ASSUME MinersPart, NEW c \in MinerIds, NEW n \in MinerType, miners' = [miners EXCEPT ![c] = n]
    PROVE  /\ Cardinality(ReadySet) \in Nat /\ Cardinality(ReadySet') \in Nat
           /\ miners[c].state # "Ready" /\ n.state = "Ready" =>
                Cardinality(ReadySet') = Cardinality(ReadySet) + 1
           /\ miners[c].state = "Ready" /\ n.state # "Ready" =>
                Cardinality(ReadySet') = Cardinality(ReadySet) - 1
           /\ (miners[c].state = "Ready" <=> n.state = "Ready") =>
                Cardinality(ReadySet') = Cardinality(ReadySet)
<1>1. ReadySet' = IF n.state = "Ready" THEN ReadySet \cup {c} ELSE ReadySet \ {c}
  <2>1. ReadySet' = {d \in MinerIds : [miners EXCEPT ![c] = n][d].state = "Ready"}
    BY DEF ReadySet
  <2> QED BY <2>1, ReadySetChanges, Zenon DEF ReadySet, MinersPart
<1>2. IsFiniteSet(ReadySet) /\ Cardinality(ReadySet) \in Nat
  <2>1. ReadySet \subseteq MinerIds
    BY DEF ReadySet
  <2> QED BY <2>1, MinerSetsFinite
<1>3. PICK S, N : S = ReadySet /\ N = ReadySet'
  OBVIOUS
<1>4. /\ Cardinality(S \cup {c}) = IF c \in S THEN Cardinality(S) ELSE Cardinality(S) + 1
      /\ Cardinality(S \ {c}) = IF c \in S THEN Cardinality(S) - 1 ELSE Cardinality(S)
  BY <1>2, <1>3, FS_AddElement, FS_RemoveElement
<1>5. c \in S <=> miners[c].state = "Ready"
  BY <1>3 DEF ReadySet
<1>6. Cardinality(N) \in Nat
  <2>1. ReadySet' \subseteq MinerIds
    BY DEF ReadySet
  <2> QED BY <1>3, <2>1, MinerSetsFinite
<1>7. N = IF n.state = "Ready" THEN S \cup {c} ELSE S \ {c}
  BY <1>1, <1>3
<1>8. Cardinality(S) \in Nat
  BY <1>2, <1>3
<1>9. /\ miners[c].state # "Ready" /\ n.state = "Ready" => Cardinality(N) = Cardinality(S) + 1
      /\ miners[c].state = "Ready" /\ n.state # "Ready" => Cardinality(N) = Cardinality(S) - 1
      /\ (miners[c].state = "Ready" <=> n.state = "Ready") => Cardinality(N) = Cardinality(S)
  BY <1>4, <1>5, <1>7
<1> QED BY <1>3, <1>6, <1>8, <1>9

\* A step of one miner that is alive.
LEMMA MoveKeepsMiners ==
    ASSUME MinersPart, NEW c \in MinerIds, NEW n, Moves(miners[c], n),
           miners' = [miners EXCEPT ![c] = n], listed' = listed, serving' = serving
    PROVE  MinersPart'
<1>1. MinerOK(n) /\ n \in MinerType
  BY DEF Moves, MinerOK
<1>2. miners \in [MinerIds -> MinerType] /\ ServingOK
  BY DEF MinersPart
<1>3. \A d \in MinerIds : miners'[d] = IF d = c THEN n ELSE miners[d]
  BY <1>2
<1>4. miners' \in [MinerIds -> MinerType]
  BY <1>1, <1>2
<1>5. ASSUME NEW d \in MinerIds PROVE MinerOK(miners[d])'
  <2>1. PICK k : k = miners'[d]
    OBVIOUS
  <2>2. MinerOK(k)
    BY <1>1, <1>3, <2>1 DEF MinersPart
  <2> QED BY <2>1, <2>2 DEF MinerOK
<1>6. ServingOK'
  BY <1>2 DEF ServingOK
<1>7. listed' = {d \in MinerIds : miners'[d].state \notin {"none", "gone"}}
  BY <1>3 DEF MinersPart, Moves
<1> QED BY <1>4, <1>5, <1>6, <1>7 DEF MinersPart

LEMMA MoveKeepsCounts ==
    ASSUME MinersPart, CountsPart, NEW c \in MinerIds, NEW n, Moves(miners[c], n),
           MinerBecomes(c, n), listed' = listed
    PROVE  CountsPart'
<1>1. n \in MinerType
  BY DEF Moves, MinerOK
<1>2. miners' = [miners EXCEPT ![c] = n] /\ counters' = setState(counters, miners[c].state, n.state)
  BY DEF MinerBecomes
<1>3. PICK k1 : k1 = counters'
  OBVIOUS
<1>4. PICK k : k = counters
  OBVIOUS
<1>5. PICK a, b : a = miners[c].state /\ b = n.state
  OBVIOUS
<1>6. (b = "Ready" => a \in {"WaitReady", "Ready"}) /\ (a = "Ready" => b \in {"Ready", "Closing"})
  BY <1>5 DEF Moves
<1>7. k \in [miners : Int, maxMiners : Int, connections : Int] /\ k.maxMiners >= k.miners
  BY <1>4 DEF CountsPart
<1>8. /\ k1 \in [miners : Int, maxMiners : Int, connections : Int]
      /\ k1.connections = k.connections /\ k1.maxMiners >= k1.miners
      /\ a # "Ready" /\ b = "Ready" => k1.miners = k.miners + 1
      /\ a = "Ready" /\ b # "Ready" => k1.miners = k.miners - 1
      /\ (a = "Ready" <=> b = "Ready") => k1.miners = k.miners
  BY <1>2, <1>3, <1>4, <1>5, <1>6, <1>7, SetStateCounts
<1>9. k1.miners = Cardinality(ReadySet')
  BY <1>1, <1>2, <1>4, <1>5, <1>8, ReadyCounts DEF CountsPart
<1> QED BY <1>3, <1>4, <1>8, <1>9 DEF CountsPart

(***************************************************************************)
(* Connections that begin and end                                          *)
(***************************************************************************)

\* A connection that comes into being or ends: what it is before and after.
LEMMA ReplacedKeepsMiners ==
    ASSUME MinersPart, NEW c \in MinerIds, NEW n, MinerOK(n),
           miners' = [miners EXCEPT ![c] = n], serving' = serving,
           listed' = IF n.state \in {"none", "gone"} THEN listed \ {c} ELSE listed \cup {c}
    PROVE  MinersPart'
<1>1. n \in MinerType
  BY DEF MinerOK
<1>2. miners \in [MinerIds -> MinerType] /\ ServingOK
  BY DEF MinersPart
<1>3. \A d \in MinerIds : miners'[d] = IF d = c THEN n ELSE miners[d]
  BY <1>2
<1>4. miners' \in [MinerIds -> MinerType]
  BY <1>1, <1>2
<1>5. ASSUME NEW d \in MinerIds PROVE MinerOK(miners[d])'
  <2>1. PICK k : k = miners'[d]
    OBVIOUS
  <2>2. MinerOK(k)
    BY <1>3, <2>1 DEF MinersPart
  <2> QED BY <2>1, <2>2 DEF MinerOK
<1>6. ServingOK'
  BY <1>2 DEF ServingOK
<1>7. listed' = {d \in MinerIds : miners'[d].state \notin {"none", "gone"}}
  BY <1>3 DEF MinersPart
<1> QED BY <1>4, <1>5, <1>6, <1>7 DEF MinersPart

\* The counts, when a miner that is not ready is replaced by one that is not, or
\* one that is ready by one that is.
LEMMA ReplacedKeepsCounts ==
    ASSUME MinersPart, CountsPart, NEW c \in MinerIds, NEW n \in MinerType,
           (miners[c].state = "Ready" <=> n.state = "Ready"),
           miners' = [miners EXCEPT ![c] = n],
           counters' \in [miners : Int, maxMiners : Int, connections : Int],
           counters'.miners = counters.miners, counters'.maxMiners = counters.maxMiners,
           counters'.connections = Cardinality(listed')
    PROVE  CountsPart'
<1>1. Cardinality(ReadySet') = Cardinality(ReadySet)
  BY ReadyCounts
<1> QED BY <1>1 DEF CountsPart

LEMMA ListedCounts ==
    ASSUME MinersPart, NEW c \in MinerIds
    PROVE  /\ Cardinality(listed) \in Nat
           /\ Cardinality(listed \cup {c})
                = IF c \in listed THEN Cardinality(listed) ELSE Cardinality(listed) + 1
           /\ Cardinality(listed \ {c})
                = IF c \in listed THEN Cardinality(listed) - 1 ELSE Cardinality(listed)
<1>1. listed \subseteq MinerIds
  BY DEF MinersPart
<1>2. IsFiniteSet(listed) /\ Cardinality(listed) \in Nat
  BY <1>1, MinerSetsFinite
<1> QED BY <1>2, FS_AddElement, FS_RemoveElement

LEMMA CreateSteps ==
    ASSUME MinersPart, CountsPart, NEW c \in MinerIds, NEW h \in serving.servers, Create(c, h)
    PROVE  /\ MinersPart' /\ CountsPart' /\ c \notin listed
           /\ miners' = [miners EXCEPT ![c] = newMiner(h)] /\ listed' = listed \cup {c}
           /\ Cardinality(listed') = Cardinality(listed) + 1
<1>0. /\ miners[c].state = "none" /\ miners' = [miners EXCEPT ![c] = newMiner(h)]
      /\ listed' = listed \cup {c} /\ serving' = serving
      /\ counters' = [counters EXCEPT !.connections = counters.connections + 1]
  BY DEF Create
<1>1. PICK n : n = newMiner(h)
  OBVIOUS
<1>2. MinerOK(n) /\ n.state = "WaitLogin"
  BY <1>1, NewMinerOK DEF MinersPart
<1>3. MinersPart'
  BY <1>0, <1>1, <1>2, ReplacedKeepsMiners
<1>4. c \notin listed
  BY <1>0 DEF MinersPart
<1>5. Cardinality(listed') = Cardinality(listed) + 1 /\ Cardinality(listed) \in Nat
  BY <1>0, <1>4, ListedCounts
<1>6. PICK k, k1 : k = counters /\ k1 = counters'
  OBVIOUS
<1>7. k \in [miners : Int, maxMiners : Int, connections : Int] /\ k.connections = Cardinality(listed)
  BY <1>6 DEF CountsPart
<1>8. k1 = [k EXCEPT !.connections = k.connections + 1]
  BY <1>0, <1>6
<1>9. /\ k1 \in [miners : Int, maxMiners : Int, connections : Int]
      /\ k1.miners = k.miners /\ k1.maxMiners = k.maxMiners /\ k1.connections = k.connections + 1
  BY <1>7, <1>8
<1>10. n \in MinerType
  BY <1>2 DEF MinerOK
<1>11. CountsPart'
  BY <1>0, <1>1, <1>2, <1>5, <1>6, <1>7, <1>9, <1>10, ReplacedKeepsCounts
<1> QED BY <1>0, <1>3, <1>4, <1>5, <1>11

LEMMA AcceptFailsSteps ==
    ASSUME MinersPart, CountsPart, NEW c \in MinerIds, AcceptFails(c)
    PROVE  /\ MinersPart' /\ CountsPart' /\ c \notin listed
           /\ \E n \in MinerType : miners' = [miners EXCEPT ![c] = n] /\ n.mapper = FALSE
<1>0. /\ miners[c].state = "none" /\ miners' = [miners EXCEPT ![c].state = "gone"]
      /\ listed' = listed /\ serving' = serving /\ counters' = counters
  BY DEF AcceptFails
<1>1. PICK n : n = [miners[c] EXCEPT !.state = "gone"]
  OBVIOUS
<1>2. MinerOK(miners[c]) /\ miners[c] \in MinerType
  BY DEF MinersPart
<1>3. miners[c].mapper = FALSE /\ miners[c].handle \in {"none", "open"}
  BY <1>0, <1>2 DEF MinerOK
<1>4. MinerOK(n)
  BY <1>1, <1>2, <1>3, GoneMinerOK
<1>5. n \in MinerType /\ n.state = "gone" /\ n.mapper = FALSE
  <2>1. "gone" \in States
    BY DEF States
  <2> QED BY <1>1, <1>2, <1>3, <2>1 DEF MinerType
<1>6. miners' = [miners EXCEPT ![c] = n]
  BY <1>0, <1>1
<1>7. c \notin listed
  BY <1>0 DEF MinersPart
<1>8. listed' = listed \ {c}
  BY <1>0, <1>7
<1>9. MinersPart'
  BY <1>0, <1>4, <1>5, <1>6, <1>8, ReplacedKeepsMiners
<1>10. CountsPart'
  <2>1. /\ counters' \in [miners : Int, maxMiners : Int, connections : Int]
        /\ counters'.connections = Cardinality(listed')
    BY <1>0 DEF CountsPart
  <2> QED BY <1>0, <1>5, <1>6, <2>1, ReplacedKeepsCounts
<1> QED BY <1>5, <1>6, <1>7, <1>9, <1>10

LEMMA CloseDoneSteps ==
    ASSUME MinersPart, CountsPart, NEW c \in MinerIds, CloseDone(c)
    PROVE  /\ MinersPart' /\ CountsPart' /\ c \in listed /\ listed' = listed \ {c}
           /\ Cardinality(listed') = Cardinality(listed) - 1
           /\ \E n \in MinerType : /\ miners' = [miners EXCEPT ![c] = n] /\ n.state = "gone"
                                   /\ n.mapper = FALSE /\ n.login = miners[c].login
<1>0. /\ miners[c].state \notin {"none", "gone"} /\ miners[c].handle = "closing"
      /\ miners' = [miners EXCEPT ![c] = [NoMiner EXCEPT !.state = "gone", !.login = miners[c].login]]
      /\ listed' = listed \ {c} /\ serving' = serving
      /\ counters' = [counters EXCEPT !.connections = counters.connections - 1]
  BY DEF CloseDone, Alive
<1>1. PICK n : n = [NoMiner EXCEPT !.state = "gone", !.login = miners[c].login]
  OBVIOUS
<1>2. MinerOK(miners[c]) /\ miners[c] \in MinerType
  BY DEF MinersPart
<1>3. MinerOK(n)
  BY <1>1, <1>2, GoneMinerOK
<1>4. n \in MinerType /\ n.state = "gone" /\ n.mapper = FALSE /\ n.login = miners[c].login
  <2>1. PICK m : m = NoMiner
    OBVIOUS
  <2>2. m \in MinerType /\ m.mapper = FALSE
    BY <2>1, NoMinerFields
  <2>3. "gone" \in States /\ miners[c].login \in Names
    BY <1>2 DEF States, MinerType
  <2>4. n = [m EXCEPT !.state = "gone", !.login = miners[c].login]
    BY <1>1, <2>1
  <2> QED BY <2>2, <2>3, <2>4 DEF MinerType
<1>5. miners[c].state = "Closing"
  BY <1>0, <1>2 DEF MinerOK
<1>6. MinersPart'
  BY <1>0, <1>1, <1>3, <1>4, ReplacedKeepsMiners
<1>7. c \in listed
  BY <1>0 DEF MinersPart
<1>8. Cardinality(listed') = Cardinality(listed) - 1 /\ Cardinality(listed) \in Nat
  BY <1>0, <1>7, ListedCounts
<1>9. PICK k, k1 : k = counters /\ k1 = counters'
  OBVIOUS
<1>10. k \in [miners : Int, maxMiners : Int, connections : Int] /\ k.connections = Cardinality(listed)
  BY <1>9 DEF CountsPart
<1>11. k1 = [k EXCEPT !.connections = k.connections - 1]
  BY <1>0, <1>9
<1>12. /\ k1 \in [miners : Int, maxMiners : Int, connections : Int]
       /\ k1.miners = k.miners /\ k1.maxMiners = k.maxMiners /\ k1.connections = k.connections - 1
  BY <1>10, <1>11
<1>13. CountsPart'
  BY <1>0, <1>1, <1>4, <1>5, <1>8, <1>9, <1>10, <1>12, ReplacedKeepsCounts
<1> QED BY <1>0, <1>1, <1>4, <1>6, <1>7, <1>8, <1>13

(***************************************************************************)
(* A step of one miner                                                     *)
(***************************************************************************)

\* What Workers remembers of the miners that logged in stays true of them.
NamesKept ==
    \A d \in MinerIds : miners[d].state \notin {"none", "WaitLogin"} =>
        miners'[d].login = miners[d].login /\ miners'[d].state \notin {"none", "WaitLogin"}

CountedKept == \A d \in MinerIds : InWorkers(d)' <=> InWorkers(d)

\* A step of one miner.
MoveStep(c, n) ==
    /\ MinerBecomes(c, n) /\ Moves(miners[c], n)
    /\ serving' = serving /\ listed' = listed

LEMMA MoveStepKeeps ==
    ASSUME MinersPart, CountsPart, NEW c \in MinerIds, NEW n, MoveStep(c, n)
    PROVE  /\ MinersPart' /\ CountsPart' /\ NamesKept
           /\ KeepsRoute(miners[c], n) => CountedKept
<1>0. /\ MinerBecomes(c, n) /\ Moves(miners[c], n) /\ serving' = serving /\ listed' = listed
      /\ miners' = [miners EXCEPT ![c] = n]
  BY DEF MoveStep, MinerBecomes
<1>1. MinersPart' /\ CountsPart'
  BY <1>0, MoveKeepsMiners, MoveKeepsCounts
<1>2. \A d \in MinerIds : miners'[d] = IF d = c THEN n ELSE miners[d]
  BY <1>0 DEF MinersPart
<1>3. NamesKept
  BY <1>0, <1>2 DEF NamesKept, Moves
<1>4. ASSUME KeepsRoute(miners[c], n) PROVE CountedKept
  <2>1. n.mapper = miners[c].mapper /\ n.route = miners[c].route
    BY <1>4 DEF KeepsRoute
  <2>2. \A d \in MinerIds : /\ miners'[d].mapper = miners[d].mapper
                            /\ miners'[d].route = miners[d].route
    BY <1>2, <2>1
  <2> QED BY <1>0, <2>2 DEF CountedKept, InWorkers
<1> QED BY <1>1, <1>3, <1>4

LEMMA ShutdownSteps ==
    ASSUME MinersPart, CountsPart, NEW c \in MinerIds, ShutdownDone(c)
    PROVE  \E n : MoveStep(c, n) /\ KeepsRoute(miners[c], n)
<1>0. /\ miners[c].state \notin {"none", "gone"} /\ miners[c].handle = "shutdown"
      /\ miners' = [miners EXCEPT ![c].handle = "closing"]
      /\ listed' = listed /\ serving' = serving /\ counters' = counters
  BY DEF ShutdownDone, Alive
<1>1. PICK m : m = miners[c]
  OBVIOUS
<1>2. PICK n : n = [m EXCEPT !.handle = "closing"]
  OBVIOUS
<1>3. MinerOK(m) /\ m \in MinerType
  BY <1>1 DEF MinersPart
<1>4. n \in MinerType /\ n.state = m.state /\ n.login = m.login
  BY <1>2, <1>3 DEF MinerType
<1>5. n.mapper = m.mapper /\ n.route = m.route
  BY <1>2, <1>3 DEF MinerType
<1>6. m.state = "Closing"
  BY <1>0, <1>1, <1>3 DEF MinerOK
<1>7. MinerOK(n)
  BY <1>4, <1>6 DEF MinerOK
<1>8. Moves(m, n) /\ KeepsRoute(m, n)
  BY <1>4, <1>5, <1>6, <1>7 DEF Moves, KeepsRoute
<1>9. miners' = [miners EXCEPT ![c] = n]
  BY <1>0, <1>1, <1>2
<1>10. setState(counters, miners[c].state, n.state) = counters
  BY <1>1, <1>4, <1>6 DEF setState
<1> QED BY <1>0, <1>1, <1>8, <1>9, <1>10 DEF MoveStep, MinerBecomes

LEMMA SendJobFailsSteps ==
    ASSUME MinersPart, CountsPart, NEW c \in MinerIds, SendJobFails(c)
    PROVE  MinersPart' /\ CountsPart' /\ NamesKept /\ CountedKept
<1>1. PICK m : m = miners[c]
  OBVIOUS
<1>2. PICK j : j = sendJob(m)
  OBVIOUS
<1>3. PICK e \in BOOLEAN : e = TRUE
  OBVIOUS
<1>4. PICK n : n = closed(j, e)
  OBVIOUS
<1>5. /\ Served(c) /\ m.mapper /\ miners' = [miners EXCEPT ![c] = n]
      /\ listed' = listed /\ serving' = serving
      /\ counters' = setState(setState(counters, m.state, j.state), j.state, "Closing")
  BY <1>1, <1>2, <1>3, <1>4 DEF SendJobFails
<1>6. MinerOK(m) /\ m \in MinerType /\ m.state \notin {"none", "gone", "Closing"}
  BY <1>1, <1>5, ServedOK
<1>7. m.mapper = TRUE
  BY <1>5, <1>6 DEF MinerType
<1>8. /\ Moves(m, j) /\ KeepsRoute(m, j)
      /\ j.state = IF m.state = "WaitReady" THEN "Ready" ELSE m.state
  BY <1>2, <1>6, <1>7, SendJobMoves
<1>9. j \in MinerType /\ j.state \notin {"none", "gone", "Closing"}
  BY <1>6, <1>8 DEF Moves, MinerOK
<1>10. /\ MinerOK(n) /\ n.state = "Closing" /\ n.login = j.login
       /\ n.mapper = j.mapper /\ n.route = j.route
  BY <1>4, <1>9, ClosedOK
<1>11. m.state # "WaitLogin"
  BY <1>6, <1>7 DEF MinerOK
<1>12. j.login = m.login /\ j.mapper = m.mapper /\ j.route = m.route
  BY <1>8, <1>11 DEF Moves, KeepsRoute
<1>13. Moves(m, n) /\ KeepsRoute(m, n)
  BY <1>6, <1>10, <1>12 DEF Moves, KeepsRoute
<1>14. MinersPart'
  BY <1>1, <1>5, <1>13, MoveKeepsMiners
<1>15. \A d \in MinerIds : miners'[d] = IF d = c THEN n ELSE miners[d]
  BY <1>5 DEF MinersPart
<1>16. NamesKept
  BY <1>1, <1>13, <1>15 DEF NamesKept, Moves
<1>17. CountedKept
  <2>1. \A d \in MinerIds : /\ miners'[d].mapper = miners[d].mapper
                            /\ miners'[d].route = miners[d].route
    BY <1>1, <1>13, <1>15 DEF KeepsRoute
  <2> QED BY <1>5, <2>1 DEF CountedKept, InWorkers
<1>18. CountsPart'
  <2>1. PICK k, k1, k2 : k = counters /\ k1 = setState(k, m.state, j.state)
                           /\ k2 = setState(k1, j.state, "Closing")
    OBVIOUS
  <2>2. k \in [miners : Int, maxMiners : Int, connections : Int] /\ k.maxMiners >= k.miners
    BY <2>1 DEF CountsPart
  <2>3. PICK a, b : a = m.state /\ b = j.state
    OBVIOUS
  <2>4. (b = "Ready" => a \in {"WaitReady", "Ready"}) /\ (a = "Ready" => b \in {"Ready", "Closing"})
    BY <1>8, <2>3
  <2>5. /\ k1 \in [miners : Int, maxMiners : Int, connections : Int]
        /\ k1.connections = k.connections /\ k1.maxMiners >= k1.miners
        /\ a # "Ready" /\ b = "Ready" => k1.miners = k.miners + 1
        /\ a = "Ready" /\ b # "Ready" => k1.miners = k.miners - 1
        /\ (a = "Ready" <=> b = "Ready") => k1.miners = k.miners
    BY <2>1, <2>2, <2>3, <2>4, SetStateCounts
  <2>6. PICK z : z = "Closing"
    OBVIOUS
  <2>7. z # "Ready" /\ z \in {"Ready", "Closing"}
    BY <2>6
  <2>8. k2 = setState(k1, b, z)
    BY <2>1, <2>3, <2>6
  <2>9. /\ k2 \in [miners : Int, maxMiners : Int, connections : Int]
        /\ k2.connections = k1.connections /\ k2.maxMiners >= k2.miners
        /\ b = "Ready" /\ z # "Ready" => k2.miners = k1.miners - 1
        /\ (b = "Ready" <=> z = "Ready") => k2.miners = k1.miners
    BY <2>5, <2>7, <2>8, SetStateCounts
  <2>10. n \in MinerType
    BY <1>10 DEF MinerOK
  <2>11. /\ Cardinality(ReadySet) \in Nat /\ Cardinality(ReadySet') \in Nat
         /\ miners[c].state = "Ready" /\ n.state # "Ready" =>
              Cardinality(ReadySet') = Cardinality(ReadySet) - 1
         /\ (miners[c].state = "Ready" <=> n.state = "Ready") =>
              Cardinality(ReadySet') = Cardinality(ReadySet)
    BY <1>5, <2>10, ReadyCounts
  <2>12. a = miners[c].state /\ (b = "Ready" <=> a = "Ready" \/ a = "WaitReady")
    BY <1>1, <1>8, <2>3
  <2>13. k2.miners = IF a = "Ready" THEN k.miners - 1 ELSE k.miners
    BY <2>2, <2>5, <2>7, <2>9, <2>12
  <2>14. k2.miners = Cardinality(ReadySet')
    <3>1. k.miners = Cardinality(ReadySet)
      BY <2>1 DEF CountsPart
    <3> QED BY <1>10, <2>11, <2>12, <2>13, <3>1
  <2>15. counters' = k2
    BY <1>5, <2>1
  <2>16. k2.connections = Cardinality(listed')
    BY <1>5, <2>1, <2>5, <2>9 DEF CountsPart
  <2> QED BY <2>9, <2>14, <2>15, <2>16 DEF CountsPart
<1> QED BY <1>14, <1>16, <1>17, <1>18

LEMMA CloseSteps ==
    ASSUME MinersPart, NEW c \in MinerIds, Served(c), NEW e \in BOOLEAN
    PROVE  Moves(miners[c], closed(miners[c], e)) /\ KeepsRoute(miners[c], closed(miners[c], e))
BY ServedOK, ClosedMoves

LEMMA FirstBytesSteps ==
    ASSUME MinersPart, NEW c \in MinerIds, NEW b, FirstBytes(c, b)
    PROVE  \E n : MoveStep(c, n) /\ KeepsRoute(miners[c], n)
<1>1. PICK m : m = miners[c]
  OBVIOUS
<1>2. PICK n : n = IF ~startTLS(m, b) THEN [m EXCEPT !.rx = "plain"]
                   ELSE IF b = "hello" THEN [m EXCEPT !.rx = "handshake"]
                   ELSE closed(m, TRUE)
  OBVIOUS
<1>3. /\ Served(c) /\ m.rx = "none" /\ MinerBecomes(c, n) /\ serving' = serving /\ listed' = listed
  BY <1>1, <1>2, Zenon DEF FirstBytes
<1>4. MinerOK(m) /\ m.state \notin {"none", "gone", "Closing"}
  BY <1>1, <1>3, ServedOK
<1>5. CASE ~startTLS(m, b)
  <2>1. n = [m EXCEPT !.rx = "plain"]
    BY <1>2, <1>5
  <2>2. ServingOK
    BY DEF MinersPart
  <2>3. Moves(m, n) /\ KeepsRoute(m, n)
    BY <1>3, <1>4, <1>5, <2>1, <2>2, PlainMoves
  <2> QED BY <1>1, <1>3, <2>3 DEF MoveStep
<1>6. CASE startTLS(m, b) /\ b = "hello"
  <2>1. n = [m EXCEPT !.rx = "handshake"]
    BY <1>2, <1>6
  <2>2. Moves(m, n) /\ KeepsRoute(m, n)
    BY <1>3, <1>4, <2>1, HelloMoves
  <2> QED BY <1>1, <1>3, <2>2 DEF MoveStep
<1>7. CASE startTLS(m, b) /\ b # "hello"
  <2>1. PICK e \in BOOLEAN : e = TRUE
    OBVIOUS
  <2>2. n = closed(m, e)
    BY <1>2, <1>7, <2>1
  <2>3. Moves(m, n) /\ KeepsRoute(m, n)
    BY <1>1, <1>3, <2>2, CloseSteps
  <2> QED BY <1>1, <1>3, <2>3 DEF MoveStep
<1> QED BY <1>5, <1>6, <1>7

LEMMA HandshakeSteps ==
    ASSUME MinersPart, NEW c \in MinerIds, NEW ok \in BOOLEAN, Handshake(c, ok)
    PROVE  \E n : MoveStep(c, n) /\ KeepsRoute(miners[c], n)
<1>1. PICK m : m = miners[c]
  OBVIOUS
<1>2. PICK n : n = IF ok THEN [m EXCEPT !.rx = "tls"] ELSE closed(m, TRUE)
  OBVIOUS
<1>3. Served(c) /\ MinerBecomes(c, n) /\ serving' = serving /\ listed' = listed
  BY <1>1, <1>2, Zenon DEF Handshake
<1>4. MinerOK(m) /\ m.state \notin {"none", "gone", "Closing"}
  BY <1>1, <1>3, ServedOK
<1>5. CASE ok = TRUE
  <2>1. n = [m EXCEPT !.rx = "tls"]
    BY <1>2, <1>5
  <2>2. Moves(m, n) /\ KeepsRoute(m, n)
    BY <1>4, <2>1, TlsMoves
  <2> QED BY <1>1, <1>3, <2>2 DEF MoveStep
<1>6. CASE ok = FALSE
  <2>1. PICK e \in BOOLEAN : e = TRUE
    OBVIOUS
  <2>2. n = closed(m, e)
    BY <1>2, <1>6, <2>1
  <2>3. Moves(m, n) /\ KeepsRoute(m, n)
    BY <1>1, <1>3, <2>2, CloseSteps
  <2> QED BY <1>1, <1>3, <2>3 DEF MoveStep
<1> QED BY <1>5, <1>6

LEMMA ReadEndsSteps ==
    ASSUME MinersPart, NEW c \in MinerIds, NEW eof \in BOOLEAN, ReadEnds(c, eof)
    PROVE  \E n : MoveStep(c, n) /\ KeepsRoute(miners[c], n)
<1>1. PICK e \in BOOLEAN : e = ~eof
  OBVIOUS
<1>2. PICK n : n = closed(miners[c], e)
  OBVIOUS
<1>3. Served(c) /\ MinerBecomes(c, n) /\ serving' = serving /\ listed' = listed
  BY <1>1, <1>2 DEF ReadEnds
<1>4. Moves(miners[c], n) /\ KeepsRoute(miners[c], n)
  BY <1>2, <1>3, CloseSteps
<1> QED BY <1>3, <1>4 DEF MoveStep

LEMMA BadRequestSteps ==
    ASSUME MinersPart, NEW c \in MinerIds, BadRequest(c)
    PROVE  \E n : MoveStep(c, n) /\ KeepsRoute(miners[c], n)
<1>1. PICK e \in BOOLEAN : e = TRUE
  OBVIOUS
<1>2. PICK n : n = closed(miners[c], e)
  OBVIOUS
<1>3. Served(c) /\ MinerBecomes(c, n) /\ serving' = serving /\ listed' = listed
  BY <1>1, <1>2 DEF BadRequest, Reads
<1>4. Moves(miners[c], n) /\ KeepsRoute(miners[c], n)
  BY <1>2, <1>3, CloseSteps
<1> QED BY <1>3, <1>4 DEF MoveStep

LEMMA ReadyRequestSteps ==
    ASSUME MinersPart, NEW c \in MinerIds, NEW refused, ReadyRequest(c, refused)
    PROVE  \E n : MoveStep(c, n) /\ KeepsRoute(miners[c], n)
<1>1. PICK n : n = heartbeat(miners[c])
  OBVIOUS
<1>2. Served(c) /\ MinerBecomes(c, n) /\ serving' = serving /\ listed' = listed
  BY <1>1 DEF ReadyRequest, Reads
<1>3. Moves(miners[c], n) /\ KeepsRoute(miners[c], n)
  BY <1>1, <1>2, ServedOK, HeartbeatMoves
<1> QED BY <1>2, <1>3 DEF MoveStep

LEMMA SendJobSteps ==
    ASSUME MinersPart, NEW c \in MinerIds, SendJob(c)
    PROVE  \E n : MoveStep(c, n) /\ KeepsRoute(miners[c], n)
<1>1. PICK n : n = sendJob(miners[c])
  OBVIOUS
<1>2. /\ Served(c) /\ miners[c].mapper /\ MinerBecomes(c, n) /\ serving' = serving
      /\ listed' = listed
  BY <1>1 DEF SendJob
<1>3. MinerOK(miners[c]) /\ miners[c] \in MinerType /\ miners[c].state \notin {"none", "gone", "Closing"}
  BY <1>2, ServedOK
<1>4. miners[c].mapper = TRUE
  BY <1>2, <1>3 DEF MinerType
<1>5. Moves(miners[c], n) /\ KeepsRoute(miners[c], n)
  BY <1>1, <1>3, <1>4, SendJobMoves
<1> QED BY <1>2, <1>5 DEF MoveStep

\* A login: the miner is closed and stays unknown to Workers, or has a mapper now.
LEMMA LoginRequestSteps ==
    ASSUME MinersPart, NEW c \in MinerIds, NEW r \in MinerLogins, LoginRequest(c, r)
    PROVE  /\ miners[c].state = "WaitLogin" /\ miners[c].mapper = FALSE
           /\ \E n : /\ MoveStep(c, n)
                     /\ \/ KeepsRoute(miners[c], n) /\ table' = table
                        \/ /\ n.state = "WaitReady" /\ n.mapper = TRUE /\ n.login = r.worker
                           /\ table' = workersLogin(table, c, n, r.worker)
<1>1. PICK m : m = miners[c]
  OBVIOUS
<1>2. /\ Served(c) /\ m.rx \in {"plain", "tls"} /\ m.state = "WaitLogin"
      /\ \/ /\ MinerBecomes(c, closed(LoggedIn(m, r), TRUE))
            /\ table' = table
         \/ /\ MinerBecomes(c, Accepted(m, r))
            /\ table' = workersLogin(table, c, Accepted(m, r), r.worker)
      /\ serving' = serving /\ listed' = listed
  BY <1>1, LoginSteps DEF Reads
<1>3. MinerOK(m) /\ ServingOK
  BY <1>1 DEF MinersPart
<1>4. m.mapper = FALSE
  BY <1>2, <1>3 DEF MinerOK
<1>5. CASE MinerBecomes(c, closed(LoggedIn(m, r), TRUE)) /\ table' = table
  <2>1. PICK n : n = closed(LoggedIn(m, r), TRUE)
    OBVIOUS
  <2>2. Moves(m, n) /\ KeepsRoute(m, n)
    BY <1>2, <1>3, <2>1, RefusedMoves
  <2>3. MoveStep(c, n)
    BY <1>1, <1>2, <1>5, <2>1, <2>2 DEF MoveStep
  <2> QED BY <1>1, <1>2, <1>4, <1>5, <2>2, <2>3
<1>6. CASE MinerBecomes(c, Accepted(m, r)) /\ table' = workersLogin(table, c, Accepted(m, r), r.worker)
  <2>1. PICK n : n = Accepted(m, r)
    OBVIOUS
  <2>2. Moves(m, n) /\ n.state = "WaitReady" /\ n.mapper = TRUE /\ n.login = r.worker
    BY <1>2, <1>3, <2>1, AcceptedMoves
  <2>3. MoveStep(c, n)
    BY <1>1, <1>2, <1>6, <2>1, <2>2 DEF MoveStep
  <2> QED BY <1>1, <1>2, <1>4, <1>6, <2>1, <2>2, <2>3
<1> QED BY <1>2, <1>5, <1>6

(***************************************************************************)
(* Miners::tick                                                            *)
(***************************************************************************)

Aged(m) == [m EXCEPT !.left = m.left - 1]

LEMMA AgedMoves ==
    ASSUME NEW m, MinerOK(m), m.state \notin {"none", "gone", "Closing"}, NEW n, n = Aged(m),
           ~expires(n)
    PROVE  Moves(m, n) /\ KeepsRoute(m, n) /\ n.state = m.state
<1>1. m \in MinerType
  BY DEF MinerOK
<1>2. PICK l : l = m.left - 1
  OBVIOUS
<1>3. n = [m EXCEPT !.left = l] /\ l \in Int
  BY <1>1, <1>2 DEF Aged, MinerType
<1>4. n \in MinerType
  BY <1>1, <1>3 DEF MinerType
<1>5. /\ n.state = m.state /\ n.rx = m.rx /\ n.strict = m.strict /\ n.login = m.login
      /\ n.replies = m.replies /\ n.left = l /\ n.mapper = m.mapper
      /\ n.route = m.route /\ n.diff = m.diff /\ n.handle = m.handle
  BY <1>1, <1>3 DEF MinerType
<1>6. n.left >= 0
  BY <1>3, <1>5 DEF expires
<1>7. MinerOK(n)
  BY <1>4, <1>5, <1>6 DEF MinerOK
<1> QED BY <1>5, <1>7 DEF Moves, KeepsRoute

LEMMA MinersTickSteps ==
    ASSUME MinersPart, CountsPart, MinersTick
    PROVE  MinersPart' /\ CountsPart' /\ NamesKept /\ CountedKept
<1> DEFINE over == {c \in listed : Served(c) /\ expires(Aged(miners[c]))}
           gone == {c \in over : miners[c].state = "Ready"}
<1>1. /\ miners' = [c \in MinerIds |-> IF c \in over THEN closed(miners[c], TRUE)
                                      ELSE IF Served(c) THEN Aged(miners[c]) ELSE miners[c]]
      /\ counters' = [counters EXCEPT !.miners = counters.miners - Cardinality(gone)]
      /\ serving' = serving /\ listed' = listed
  BY DEF MinersTick, Aged
<1>2. ASSUME NEW d \in MinerIds
      PROVE  \/ miners'[d] = miners[d] /\ d \notin over
             \/ /\ Moves(miners[d], miners'[d]) /\ KeepsRoute(miners[d], miners'[d])
                /\ miners'[d].state = IF d \in over THEN "Closing" ELSE miners[d].state
  <2>1. PICK m, n : m = miners[d] /\ n = miners'[d]
    OBVIOUS
  <2>2. CASE d \in over
    <3>1. PICK e \in BOOLEAN : e = TRUE
      OBVIOUS
    <3>2. n = closed(m, e)
      BY <1>1, <2>1, <2>2, <3>1
    <3>3. Served(d)
      BY <2>2
    <3>4. m \in MinerType /\ m.state \notin {"none", "gone", "Closing"}
      BY <2>1, <3>3, ServedOK
    <3>5. Moves(m, n) /\ KeepsRoute(m, n) /\ n.state = "Closing"
      BY <3>2, <3>4, ClosedMoves, ClosedOK
    <3> QED BY <2>1, <2>2, <3>5
  <2>3. CASE d \notin over /\ Served(d)
    <3>1. n = Aged(m)
      BY <1>1, <2>1, <2>3
    <3>2. MinerOK(m) /\ m.state \notin {"none", "gone", "Closing"}
      BY <2>1, <2>3, ServedOK
    <3>3. d \in listed
      BY <2>1, <3>2 DEF MinersPart
    <3>4. ~expires(n)
      BY <2>1, <2>3, <3>1, <3>3
    <3>5. Moves(m, n) /\ KeepsRoute(m, n) /\ n.state = m.state
      BY <3>1, <3>2, <3>4, AgedMoves
    <3> QED BY <2>1, <2>3, <3>5
  <2>4. CASE d \notin over /\ ~Served(d)
    <3>1. n = m
      BY <1>1, <2>1, <2>4
    <3> QED BY <2>1, <2>4, <3>1
  <2> QED BY <2>2, <2>3, <2>4
<1>3. over \subseteq MinerIds
  BY DEF MinersPart
<1> HIDE DEF over
<1>4. MinersPart'
  <2>1. \A d \in MinerIds : MinerOK(miners'[d])
    BY <1>2 DEF Moves, MinersPart
  <2>2. miners' \in [MinerIds -> MinerType]
    <3>1. \A d \in MinerIds : miners'[d] \in MinerType
      BY <2>1 DEF MinerOK
    <3>2. PICK f : f = miners'
      OBVIOUS
    <3>3. f = [d \in MinerIds |-> f[d]]
      BY <1>1, <3>2
    <3> QED BY <3>1, <3>2, <3>3
  <2>3. ASSUME NEW d \in MinerIds PROVE MinerOK(miners[d])'
    <3>1. PICK k : k = miners'[d]
      OBVIOUS
    <3>2. MinerOK(k)
      BY <2>1, <3>1
    <3> QED BY <1>1, <3>1, <3>2 DEF MinerOK
  <2>4. ServingOK'
    BY <1>1 DEF ServingOK, MinersPart
  <2>5. \A d \in MinerIds : miners'[d].state \in {"none", "gone"} <=> miners[d].state \in {"none", "gone"}
    BY <1>2 DEF Moves
  <2>6. listed' = {d \in MinerIds : miners'[d].state \notin {"none", "gone"}}
    BY <1>1, <2>5 DEF MinersPart
  <2> QED BY <2>2, <2>3, <2>4, <2>6 DEF MinersPart
<1>5. NamesKept
  BY <1>2 DEF NamesKept, Moves
<1>6. CountedKept
  <2>1. \A d \in MinerIds : /\ miners'[d].mapper = miners[d].mapper
                            /\ miners'[d].route = miners[d].route
    BY <1>2 DEF KeepsRoute
  <2> QED BY <1>1, <2>1 DEF CountedKept, InWorkers
<1>7. ReadySet' = ReadySet \ gone /\ gone \subseteq ReadySet
  <2>1. \A d \in MinerIds :
          miners'[d].state = "Ready" <=> miners[d].state = "Ready" /\ d \notin over
    BY <1>2
  <2> QED BY <1>3, <2>1 DEF ReadySet
<1>8. IsFiniteSet(ReadySet) /\ Cardinality(ReadySet) \in Nat
  <2>1. ReadySet \subseteq MinerIds
    BY DEF ReadySet
  <2> QED BY <2>1, MinerSetsFinite
<1>9. Cardinality(ReadySet') = Cardinality(ReadySet) - Cardinality(gone)
  <2>1. PICK S, T, N : S = ReadySet /\ T = gone /\ N = ReadySet'
    OBVIOUS
  <2>2. N = S \ T /\ S \cap T = T /\ IsFiniteSet(S)
    BY <1>7, <1>8, <2>1
  <2>3. Cardinality(S \ T) = Cardinality(S) - Cardinality(S \cap T)
    BY <2>2, FS_Difference
  <2> QED BY <2>1, <2>2, <2>3
<1>10. Cardinality(gone) \in Nat
  <2>1. gone \subseteq MinerIds
    BY <1>3
  <2> QED BY <2>1, MinerSetsFinite
<1> HIDE DEF gone
<1>11. CountsPart'
  <2>1. PICK k, k1, x : k = counters /\ k1 = counters' /\ x = Cardinality(gone)
    OBVIOUS
  <2>2. k \in [miners : Int, maxMiners : Int, connections : Int] /\ k.maxMiners >= k.miners
    BY <2>1 DEF CountsPart
  <2>3. k1 = [k EXCEPT !.miners = k.miners - x] /\ x \in Nat
    BY <1>1, <1>10, <2>1
  <2>4. PICK y \in Int : y = k.miners - x
    BY <2>2, <2>3
  <2>5. k1 = [k EXCEPT !.miners = y]
    BY <2>3, <2>4
  <2>6. /\ k1 \in [miners : Int, maxMiners : Int, connections : Int]
        /\ k1.miners = y /\ k1.maxMiners = k.maxMiners /\ k1.connections = k.connections
    BY <2>2, <2>5
  <2>7. k.miners = Cardinality(ReadySet) /\ k.connections = Cardinality(listed)
    BY <2>1 DEF CountsPart
  <2>8. k1.miners = Cardinality(ReadySet') /\ k1.maxMiners >= k1.miners
    BY <1>9, <2>1, <2>2, <2>3, <2>4, <2>6, <2>7
  <2> QED BY <1>1, <2>1, <2>6, <2>7, <2>8 DEF CountsPart
<1> QED BY <1>4, <1>5, <1>6, <1>11

(***************************************************************************)
(* The tables of Workers                                                   *)
(***************************************************************************)

\* The open connections that count for a name.
Holders(name) == {c \in MinerIds : InWorkers(c) /\ miners[c].login = name}

TablePart ==
    /\ table.list \in Seq(WorkerType) /\ TableOK
    /\ serving.byWorker = TRUE =>
         \A w \in DOMAIN table.list :
            table.list[w].connections = Cardinality(Holders(table.list[w].name))

\* Nothing changes of what the tables say of miners.
SameWorkers(k, l) ==
    /\ DOMAIN l = DOMAIN k
    /\ \A w \in DOMAIN k : l[w].name = k[w].name /\ l[w].connections = k[w].connections

LEMMA CountedLoggedIn ==
    ASSUME MinersPart, NEW d \in MinerIds, InWorkers(d)
    PROVE  miners[d].state \notin {"none", "WaitLogin", "gone"}
<1>1. MinerOK(miners[d]) /\ miners[d].mapper = TRUE
  BY DEF MinersPart, InWorkers
<1> QED BY <1>1 DEF MinerOK

LEMMA SameHolders ==
    ASSUME MinersPart, NamesKept, CountedKept, NEW name
    PROVE  Holders(name)' = Holders(name)
<1>1. \A d \in MinerIds : InWorkers(d) => miners'[d].login = miners[d].login
  BY CountedLoggedIn DEF NamesKept
<1> QED BY <1>1 DEF Holders, CountedKept

\* TableOK, when no worker changes its name.
LEMMA TableOKKept ==
    ASSUME TableOK, NamesKept, \A d \in MinerIds : InWorkers(d)' => InWorkers(d), serving' = serving,
           table' = [map |-> table.map, list |-> table'.list, of |-> table.of],
           DOMAIN table'.list = DOMAIN table.list,
           \A w \in DOMAIN table.list : table'.list[w].name = table.list[w].name
    PROVE  TableOK'
<1>1. PICK t, t1 : t = table /\ t1 = table'
  OBVIOUS
<1>2. t1.map = t.map /\ t1.of = t.of /\ t1 = [map |-> t1.map, list |-> t1.list, of |-> t1.of]
  BY <1>1
<1>3. /\ DOMAIN t1.list = DOMAIN t.list
      /\ \A w \in DOMAIN t.list : t1.list[w].name = t.list[w].name
  BY <1>1
<1>4. /\ t = [map |-> t.map, list |-> t.list, of |-> t.of]
      /\ DOMAIN t.map \subseteq Names
      /\ \A n \in DOMAIN t.map :
           t.map[n] \in DOMAIN t.list /\ t.list[t.map[n]].name = n
      /\ \A w \in DOMAIN t.list :
           t.list[w].name \in DOMAIN t.map /\ t.map[t.list[w].name] = w
      /\ DOMAIN t.of \subseteq MinerIds
      /\ \A c \in DOMAIN t.of :
           /\ t.of[c] \in DOMAIN t.list
           /\ t.list[t.of[c]].name = miners[c].login
           /\ miners[c].state \notin {"none", "WaitLogin"}
      /\ serving.byWorker = TRUE => \A c \in MinerIds : InWorkers(c) => c \in DOMAIN t.of
  BY <1>1 DEF TableOK
<1>5. \A c \in DOMAIN t.of : /\ miners'[c].login = miners[c].login
                             /\ miners'[c].state \notin {"none", "WaitLogin"}
  BY <1>4 DEF NamesKept
<1>6. serving'.byWorker = TRUE => \A c \in MinerIds : InWorkers(c)' => c \in DOMAIN t1.of
  BY <1>2, <1>4
<1>7. \A n \in DOMAIN t1.map :
           t1.map[n] \in DOMAIN t1.list /\ t1.list[t1.map[n]].name = n
  BY <1>2, <1>3, <1>4
<1>8. \A w \in DOMAIN t1.list :
           t1.list[w].name \in DOMAIN t1.map /\ t1.map[t1.list[w].name] = w
  BY <1>2, <1>3, <1>4
<1>9. \A c \in DOMAIN t1.of :
           /\ t1.of[c] \in DOMAIN t1.list
           /\ t1.list[t1.of[c]].name = miners'[c].login
           /\ miners'[c].state \notin {"none", "WaitLogin"}
  BY <1>2, <1>3, <1>4, <1>5
<1>10. DOMAIN t1.map \subseteq Names /\ DOMAIN t1.of \subseteq MinerIds
  BY <1>2, <1>4
<1> QED BY <1>1, <1>2, <1>6, <1>7, <1>8, <1>9, <1>10 DEF TableOK

LEMMA TableKept ==
    ASSUME MinersPart, TablePart, NamesKept, CountedKept, serving' = serving,
           table' = [map |-> table.map, list |-> table'.list, of |-> table.of],
           table'.list \in Seq(WorkerType), SameWorkers(table.list, table'.list)
    PROVE  TablePart'
<1>1. PICK t, t1 : t = table /\ t1 = table'
  OBVIOUS
<1>2. /\ DOMAIN t1.list = DOMAIN t.list
      /\ \A w \in DOMAIN t.list : /\ t1.list[w].name = t.list[w].name
                                  /\ t1.list[w].connections = t.list[w].connections
  BY <1>1 DEF SameWorkers
<1>3. TableOK'
  <2>1. TableOK /\ \A d \in MinerIds : InWorkers(d)' => InWorkers(d)
    BY DEF TablePart, CountedKept
  <2> QED BY <1>1, <1>2, <2>1, TableOKKept
<1>4. serving'.byWorker = TRUE =>
        \A w \in DOMAIN t1.list :
           t1.list[w].connections = Cardinality(Holders(t1.list[w].name)')
  <2> SUFFICES ASSUME serving.byWorker = TRUE, NEW w \in DOMAIN t.list
               PROVE  t1.list[w].connections = Cardinality(Holders(t1.list[w].name)')
    BY <1>2
  <2>1. PICK name : name = t.list[w].name /\ name = t1.list[w].name
    BY <1>2
  <2>2. Holders(name)' = Holders(name)
    BY SameHolders
  <2>3. t.list[w].connections = Cardinality(Holders(name))
    BY <1>1, <2>1 DEF TablePart
  <2>4. t1.list[w].connections = Cardinality(Holders(name)')
    BY <1>2, <2>2, <2>3
  <2> QED BY <2>1, <2>4
<1> QED BY <1>1, <1>3, <1>4 DEF TablePart

(***************************************************************************)
(* Updates of one worker                                                   *)
(***************************************************************************)

\* One worker changes to n.
Updated(t1, w, n) ==
    /\ w \in DOMAIN table.list /\ n \in WorkerType /\ n.name = table.list[w].name
    /\ t1 = [map |-> table.map, list |-> [table.list EXCEPT ![w] = n], of |-> table.of]

LEMMA ListUpdate ==
    ASSUME NEW l \in Seq(WorkerType), NEW w \in DOMAIN l, NEW n \in WorkerType,
           NEW k, k = [l EXCEPT ![w] = n]
    PROVE  /\ k \in Seq(WorkerType) /\ DOMAIN k = DOMAIN l
           /\ \A i \in DOMAIN l : k[i] = IF i = w THEN n ELSE l[i]
OBVIOUS

\* The index that Workers finds for a miner is of a worker.
LEMMA IndexFound ==
    ASSUME MinersPart, TablePart, NEW c \in MinerIds \cup {0}, NEW i, i = indexByMiner(table, c)
    PROVE  /\ i = 0 \/ (i \in DOMAIN table.list /\ table.list[i] \in WorkerType /\ i # 0
                          /\ c \in DOMAIN table.of /\ i = table.of[c])
           /\ c \in MinerIds /\ c \in DOMAIN table.of /\ miners[c].mapper = TRUE => i = table.of[c]
<1>1. table.list \in Seq(WorkerType)
  BY DEF TablePart
<1>2. \A d \in DOMAIN table.of : table.of[d] \in DOMAIN table.list
  BY DEF TablePart, TableOK
<1>3. \A w \in DOMAIN table.list : table.list[w] \in WorkerType /\ w # 0
  BY <1>1
<1>4. i = 0 \/ (c \in DOMAIN table.of /\ i = table.of[c])
  BY DEF indexByMiner
<1>5. ASSUME c \in MinerIds, c \in DOMAIN table.of, miners[c].mapper = TRUE
      PROVE  i = table.of[c]
  <2>1. c # 0
    BY <1>5 DEF MinerIds
  <2> QED BY <1>5, <2>1 DEF indexByMiner
<1> QED BY <1>2, <1>3, <1>4, <1>5

LEMMA TableFields ==
    ASSUME TablePart
    PROVE  table = [map |-> table.map, list |-> table.list, of |-> table.of]
BY DEF TablePart, TableOK

LEMMA TableWith ==
    ASSUME TablePart, NEW i, NEW n, NEW t1, t1 = [table EXCEPT !.list[i] = n]
    PROVE  t1 = [map |-> table.map, list |-> [table.list EXCEPT ![i] = n], of |-> table.of]
<1>1. PICK a, b, d : a = table.map /\ b = table.list /\ d = table.of
  OBVIOUS
<1>2. table = [map |-> a, list |-> b, of |-> d]
  BY <1>1, TableFields
<1>3. t1 = [map |-> a, list |-> [b EXCEPT ![i] = n], of |-> d]
  BY <1>2
<1> QED BY <1>1, <1>3

\* The worker of a miner whose share was refused becomes n.
RejectedBy(t1, w, n) ==
    /\ Updated(t1, w, n) /\ n.connections = table.list[w].connections
    /\ n.invalid = table.list[w].invalid + 1 /\ n.hashrate = table.list[w].hashrate

LEMMA RejectTable ==
    ASSUME MinersPart, TablePart, NEW c \in MinerIds, NEW t1, t1 = workersReject(table, c)
    PROVE  t1 = table \/ \E w, n : RejectedBy(t1, w, n)
<1>1. PICK i : i = indexByMiner(table, c)
  OBVIOUS
<1>2. t1 = table \/ (i # 0 /\ t1 = [table EXCEPT !.list[i] =
                           [table.list[i] EXCEPT !.invalid = table.list[i].invalid + 1]])
  BY <1>1 DEF workersReject, workersUpdate
<1>3. CASE i # 0 /\ t1 = [table EXCEPT !.list[i] =
                           [table.list[i] EXCEPT !.invalid = table.list[i].invalid + 1]]
  <2>1. i \in DOMAIN table.list /\ table.list[i] \in WorkerType
    BY <1>1, <1>3, IndexFound
  <2>2. PICK m : m = table.list[i]
    OBVIOUS
  <2>3. PICK x \in Nat : x = m.invalid + 1
    BY <2>1, <2>2 DEF WorkerType
  <2>4. PICK n : n = [m EXCEPT !.invalid = x]
    OBVIOUS
  <2>5. /\ n \in WorkerType /\ n.name = m.name /\ n.connections = m.connections
        /\ n.invalid = x /\ n.hashrate = m.hashrate
    BY <2>1, <2>2, <2>4 DEF WorkerType
  <2>6. t1 = [table EXCEPT !.list[i] = n]
    BY <1>3, <2>2, <2>3, <2>4
  <2>7. t1 = [map |-> table.map, list |-> [table.list EXCEPT ![i] = n], of |-> table.of]
    BY <2>6, TableWith
  <2>8. Updated(t1, i, n)
    BY <2>1, <2>2, <2>5, <2>7 DEF Updated
  <2>9. RejectedBy(t1, i, n)
    BY <2>2, <2>3, <2>5, <2>8 DEF RejectedBy
  <2> QED BY <2>9
<1> QED BY <1>2, <1>3

\* The worker of a miner that is gone becomes n.
RemovedFrom(c, t1, n) ==
    /\ serving.byWorker = TRUE /\ InWorkers(c) /\ c \in DOMAIN table.of
    /\ Updated(t1, table.of[c], n)
    /\ n.connections = table.list[table.of[c]].connections - 1
    /\ n.invalid = table.list[table.of[c]].invalid
    /\ n.hashrate = table.list[table.of[c]].hashrate

LEMMA RemoveTable ==
    ASSUME MinersPart, TablePart, NEW c \in MinerIds, c \in listed,
           NEW t1, t1 = workersRemove(table, c)
    PROVE  \/ t1 = table /\ (serving.byWorker = TRUE => ~InWorkers(c))
           \/ \E n : RemovedFrom(c, t1, n)
<1>1. PICK i : i = indexByMiner(table, c)
  OBVIOUS
<1>2. miners[c].mapper \in BOOLEAN /\ miners[c].route \in BOOLEAN /\ serving.byWorker \in BOOLEAN
  <2>1. miners[c] \in MinerType /\ ServingOK
    BY DEF MinersPart
  <2> QED BY <2>1 DEF MinerType, ServingOK
<1>3. CASE serving.byWorker = TRUE /\ miners[c].route = FALSE /\ miners[c].mapper = TRUE
  <2>1. InWorkers(c)
    BY <1>3 DEF InWorkers
  <2>2. c \in DOMAIN table.of
    BY <1>3, <2>1 DEF TablePart, TableOK
  <2>3. i = table.of[c] /\ i \in DOMAIN table.list /\ table.list[i] \in WorkerType /\ i # 0
    <3>1. table.of[c] \in DOMAIN table.list
      BY <2>2 DEF TablePart, TableOK
    <3>2. table.list \in Seq(WorkerType)
      BY DEF TablePart
    <3>3. table.of[c] # 0
      BY <3>1, <3>2
    <3>4. i = table.of[c]
      BY <1>1, <1>3, <2>2, IndexFound
    <3> QED BY <3>1, <3>2, <3>3, <3>4
  <2>4. t1 = [table EXCEPT !.list[i] =
                   [table.list[i] EXCEPT !.connections = table.list[i].connections - 1]]
    <3>1. countedByWorker(miners[c])
      BY <1>3 DEF countedByWorker
    <3> QED BY <1>1, <2>3, <3>1 DEF workersRemove, workersUpdate
  <2>5. PICK m : m = table.list[i]
    OBVIOUS
  <2>6. PICK x \in Int : x = m.connections - 1
    BY <2>3, <2>5 DEF WorkerType
  <2>7. PICK n : n = [m EXCEPT !.connections = x]
    OBVIOUS
  <2>8. /\ n \in WorkerType /\ n.name = m.name /\ n.connections = x
        /\ n.invalid = m.invalid /\ n.hashrate = m.hashrate
    BY <2>3, <2>5, <2>7 DEF WorkerType
  <2>9. t1 = [table EXCEPT !.list[i] = n]
    BY <2>4, <2>5, <2>6, <2>7
  <2>10. t1 = [map |-> table.map, list |-> [table.list EXCEPT ![i] = n], of |-> table.of]
    BY <2>9, TableWith
  <2>11. Updated(t1, i, n)
    BY <2>3, <2>5, <2>8, <2>10 DEF Updated
  <2>12. RemovedFrom(c, t1, n)
    BY <1>3, <2>1, <2>2, <2>3, <2>5, <2>6, <2>8, <2>11 DEF RemovedFrom
  <2> QED BY <2>12
<1>4. CASE ~ (serving.byWorker = TRUE /\ miners[c].route = FALSE /\ miners[c].mapper = TRUE)
  <2>1. serving.byWorker = TRUE => ~InWorkers(c)
    BY <1>4 DEF InWorkers
  <2>2. t1 = table
    <3>1. CASE serving.byWorker # TRUE \/ miners[c].route # FALSE
      <4>1. ~countedByWorker(miners[c])
        BY <1>2, <3>1 DEF countedByWorker
      <4> QED BY <4>1 DEF workersRemove
    <3>2. CASE miners[c].mapper = FALSE
      <4>1. i = 0
        BY <1>1, <3>2 DEF indexByMiner
      <4> QED BY <1>1, <4>1 DEF workersRemove, workersUpdate
    <3> QED BY <1>2, <1>4, <3>1, <3>2
  <2> QED BY <2>1, <2>2
<1> QED BY <1>3, <1>4

LEMMA UpdatedFields ==
    ASSUME TablePart, NEW t1, NEW w, NEW n, Updated(t1, w, n)
    PROVE  /\ t1 = [map |-> table.map, list |-> t1.list, of |-> table.of]
           /\ t1.list \in Seq(WorkerType) /\ DOMAIN t1.list = DOMAIN table.list
           /\ \A i \in DOMAIN table.list : t1.list[i] = IF i = w THEN n ELSE table.list[i]
           /\ \A i \in DOMAIN table.list : t1.list[i].name = table.list[i].name
<1>1. PICK l : l = [table.list EXCEPT ![w] = n]
  OBVIOUS
<1>2. /\ w \in DOMAIN table.list /\ n \in WorkerType /\ n.name = table.list[w].name
      /\ t1 = [map |-> table.map, list |-> l, of |-> table.of]
  BY <1>1 DEF Updated
<1>3. table.list \in Seq(WorkerType)
  BY DEF TablePart
<1>4. /\ l \in Seq(WorkerType) /\ DOMAIN l = DOMAIN table.list
      /\ \A i \in DOMAIN table.list : l[i] = IF i = w THEN n ELSE table.list[i]
  BY <1>1, <1>2, <1>3, ListUpdate
<1>5. t1.list = l
  BY <1>2
<1> QED BY <1>2, <1>4, <1>5

LEMMA UpdatedKeeps ==
    ASSUME MinersPart, TablePart, NamesKept, CountedKept, serving' = serving,
           NEW w, NEW n, Updated(table', w, n), n.connections = table.list[w].connections
    PROVE  TablePart'
<1>1. PICK t1 : t1 = table'
  OBVIOUS
<1>2. Updated(t1, w, n)
  BY <1>1
<1>3. /\ t1 = [map |-> table.map, list |-> t1.list, of |-> table.of]
      /\ t1.list \in Seq(WorkerType) /\ DOMAIN t1.list = DOMAIN table.list
      /\ \A i \in DOMAIN table.list : t1.list[i] = IF i = w THEN n ELSE table.list[i]
      /\ \A i \in DOMAIN table.list : t1.list[i].name = table.list[i].name
  BY <1>2, UpdatedFields
<1>4. SameWorkers(table.list, t1.list)
  BY <1>3 DEF SameWorkers
<1> QED BY <1>1, <1>3, <1>4, TableKept

LEMMA SameTableKeeps ==
    ASSUME MinersPart, TablePart, NamesKept, CountedKept, serving' = serving, table' = table
    PROVE  TablePart'
<1>1. PICK t1 : t1 = table
  OBVIOUS
<1>2. t1 = [map |-> t1.map, list |-> t1.list, of |-> t1.of] /\ t1.list \in Seq(WorkerType)
  BY <1>1 DEF TablePart, TableOK
<1>3. SameWorkers(t1.list, t1.list)
  BY DEF SameWorkers
<1> QED BY <1>1, <1>2, <1>3, TableKept

LEMMA HoldersFinite ==
    ASSUME NEW name
    PROVE  IsFiniteSet(Holders(name)) /\ Cardinality(Holders(name)) \in Nat
<1>1. Holders(name) \subseteq MinerIds
  BY DEF Holders
<1> QED BY <1>1, MinerSetsFinite

\* The workers and their names are one to one.
LEMMA NamesDiffer ==
    ASSUME TablePart, NEW v \in DOMAIN table.list, NEW w \in DOMAIN table.list, v # w
    PROVE  table.list[v].name # table.list[w].name
BY DEF TablePart, TableOK

\* A miner that Workers counted is gone.
LEMMA RemoveKeeps ==
    ASSUME MinersPart, TablePart, NamesKept, serving' = serving, NEW c \in MinerIds,
           InWorkers(c), c \in DOMAIN table.of, \A d \in MinerIds : InWorkers(d)' <=> InWorkers(d) /\ d # c,
           NEW n, Updated(table', table.of[c], n),
           n.connections = table.list[table.of[c]].connections - 1
    PROVE  TablePart'
<1>1. PICK t, t1, w : t = table /\ t1 = table' /\ w = table.of[c]
  OBVIOUS
<1>2. Updated(t1, w, n) /\ n.connections = t.list[w].connections - 1
  BY <1>1
<1>3. /\ t1 = [map |-> t.map, list |-> t1.list, of |-> t.of]
      /\ t1.list \in Seq(WorkerType) /\ DOMAIN t1.list = DOMAIN t.list
      /\ \A i \in DOMAIN t.list : t1.list[i] = IF i = w THEN n ELSE t.list[i]
      /\ \A i \in DOMAIN t.list : t1.list[i].name = t.list[i].name
  BY <1>1, <1>2, UpdatedFields
<1>4. TableOK'
  <2>1. TableOK /\ \A d \in MinerIds : InWorkers(d)' => InWorkers(d)
    BY DEF TablePart
  <2> QED BY <1>1, <1>3, <2>1, TableOKKept
<1>5. w \in DOMAIN t.list /\ t.list[w].name = miners[c].login
  BY <1>1 DEF TablePart, TableOK
<1>6. ASSUME NEW name
      PROVE  Holders(name)' = IF name = miners[c].login THEN Holders(name) \ {c} ELSE Holders(name)
  <2>1. \A d \in MinerIds : InWorkers(d) => miners'[d].login = miners[d].login
    BY CountedLoggedIn DEF NamesKept
  <2> QED BY <2>1 DEF Holders
<1>7. serving'.byWorker = TRUE =>
        \A v \in DOMAIN t1.list :
           t1.list[v].connections = Cardinality(Holders(t1.list[v].name)')
  <2> SUFFICES ASSUME serving.byWorker = TRUE, NEW v \in DOMAIN t.list
               PROVE  t1.list[v].connections = Cardinality(Holders(t1.list[v].name)')
    BY <1>3
  <2>1. PICK name : name = t.list[v].name /\ name = t1.list[v].name
    BY <1>3
  <2>2. t.list[v].connections = Cardinality(Holders(name))
    BY <1>1, <2>1 DEF TablePart
  <2>3. CASE v = w
    <3>1. Holders(name)' = Holders(name) \ {c} /\ c \in Holders(name)
      BY <1>5, <1>6, <2>1, <2>3 DEF Holders
    <3>2. PICK S : S = Holders(name)
      OBVIOUS
    <3>3. Cardinality(S \ {c}) = Cardinality(S) - 1
      BY <3>1, <3>2, HoldersFinite, FS_RemoveElement
    <3>4. t1.list[v].connections = t.list[v].connections - 1
      BY <1>2, <1>3, <2>3
    <3>5. t1.list[v].connections = Cardinality(Holders(name)')
      BY <2>2, <3>1, <3>2, <3>3, <3>4
    <3> QED BY <2>1, <3>5
  <2>4. CASE v # w
    <3>1. name # miners[c].login
      BY <1>1, <1>5, <2>1, <2>4, NamesDiffer
    <3>2. Holders(name)' = Holders(name)
      BY <1>6, <3>1
    <3>3. t1.list[v].connections = Cardinality(Holders(name)')
      BY <1>3, <2>2, <2>4, <3>2
    <3> QED BY <2>1, <3>3
  <2> QED BY <2>3, <2>4
<1> QED BY <1>1, <1>3, <1>4, <1>7 DEF TablePart

(***************************************************************************)
(* A login, in the tables of Workers                                       *)
(***************************************************************************)

\* What a map is after an assignment.
IsSet(f, x, y, g) ==
    /\ DOMAIN g = {x} \cup DOMAIN f /\ g[x] = y
    /\ \A z \in DOMAIN f : z # x => g[z] = f[z]

LEMMA MapSetIs ==
    ASSUME NEW f, NEW x, NEW y
    PROVE  IsSet(f, x, y, mapSet(f, x, y))
BY DEF mapSet, IsSet

\* A miner logs in whom Workers has to count.
CountedLogin(c, name) ==
    /\ serving.byWorker = TRUE /\ serving' = serving /\ name \in Names
    /\ ~InWorkers(c) /\ \A d \in MinerIds : InWorkers(d)' <=> InWorkers(d) \/ d = c
    /\ miners'[c].login = name /\ miners'[c].state \notin {"none", "WaitLogin"}
    /\ \A d \in MinerIds : d # c => miners'[d] = miners[d]

LEMMA LoginHolders ==
    ASSUME NEW c \in MinerIds, NEW name, CountedLogin(c, name), NEW other
    PROVE  Holders(other)' = IF other = name THEN Holders(other) \cup {c} ELSE Holders(other)
<1>1. \A d \in MinerIds : d # c => miners'[d].login = miners[d].login
  BY DEF CountedLogin
<1>2. \A d \in MinerIds : InWorkers(d)' <=> InWorkers(d) \/ d = c
  BY DEF CountedLogin
<1>3. miners'[c].login = name /\ ~InWorkers(c)
  BY DEF CountedLogin
<1> QED BY <1>1, <1>2, <1>3 DEF Holders

\* TableOK, with one more worker or none.
LEMMA LoginTableOK ==
    ASSUME TablePart, NEW c \in MinerIds, NEW name, CountedLogin(c, name),
           NEW w, NEW t1, t1 = table', t1 = [map |-> t1.map, list |-> t1.list, of |-> t1.of],
           t1.of = mapSet(table.of, c, w), w \in DOMAIN t1.list, t1.list[w].name = name,
           DOMAIN t1.list = DOMAIN table.list \cup {w},
           \A v \in DOMAIN table.list : t1.list[v].name = table.list[v].name,
           \/ w \in DOMAIN table.list /\ t1.map = table.map
           \/ w \notin DOMAIN table.list /\ name \notin DOMAIN table.map
                /\ t1.map = mapSet(table.map, name, w)
    PROVE  TableOK'
<1>1. PICK t : t = table
  OBVIOUS
<1>2. /\ DOMAIN t.map \subseteq Names
      /\ \A n \in DOMAIN t.map :
           t.map[n] \in DOMAIN t.list /\ t.list[t.map[n]].name = n
      /\ \A v \in DOMAIN t.list :
           t.list[v].name \in DOMAIN t.map /\ t.map[t.list[v].name] = v
      /\ DOMAIN t.of \subseteq MinerIds
      /\ \A d \in DOMAIN t.of :
           /\ t.of[d] \in DOMAIN t.list
           /\ t.list[t.of[d]].name = miners[d].login
           /\ miners[d].state \notin {"none", "WaitLogin"}
      /\ serving.byWorker = TRUE => \A d \in MinerIds : InWorkers(d) => d \in DOMAIN t.of
  BY <1>1 DEF TablePart, TableOK
<1>3. /\ DOMAIN t1.of = {c} \cup DOMAIN t.of /\ t1.of[c] = w
      /\ \A z \in DOMAIN t.of : z # c => t1.of[z] = t.of[z]
  <2>1. IsSet(t.of, c, w, mapSet(t.of, c, w))
    BY MapSetIs
  <2>2. IsSet(t.of, c, w, t1.of)
    BY <1>1, <2>1
  <2> QED BY <2>2 DEF IsSet
<1>4. /\ serving.byWorker = TRUE /\ serving' = serving /\ name \in Names
      /\ \A d \in MinerIds : InWorkers(d)' <=> InWorkers(d) \/ d = c
      /\ miners'[c].login = name /\ miners'[c].state \notin {"none", "WaitLogin"}
      /\ \A d \in MinerIds : d # c => miners'[d] = miners[d]
  BY DEF CountedLogin
<1>5. /\ DOMAIN t1.list = DOMAIN t.list \cup {w} /\ w \in DOMAIN t1.list /\ t1.list[w].name = name
      /\ \A v \in DOMAIN t.list : t1.list[v].name = t.list[v].name
  BY <1>1
<1>6. /\ DOMAIN t1.map \subseteq Names
      /\ \A n \in DOMAIN t1.map :
           t1.map[n] \in DOMAIN t1.list /\ t1.list[t1.map[n]].name = n
      /\ \A v \in DOMAIN t1.list :
           t1.list[v].name \in DOMAIN t1.map /\ t1.map[t1.list[v].name] = v
  <2>1. CASE w \in DOMAIN t.list /\ t1.map = t.map
    <3>1. DOMAIN t1.list = DOMAIN t.list
      BY <1>5, <2>1
    <3> QED BY <1>2, <1>5, <2>1, <3>1
  <2>2. CASE w \notin DOMAIN t.list /\ name \notin DOMAIN t.map /\ t1.map = mapSet(t.map, name, w)
    <3>1. /\ DOMAIN t1.map = {name} \cup DOMAIN t.map /\ t1.map[name] = w
          /\ \A z \in DOMAIN t.map : z # name => t1.map[z] = t.map[z]
      <4>1. IsSet(t.map, name, w, mapSet(t.map, name, w))
        BY MapSetIs
      <4>2. IsSet(t.map, name, w, t1.map)
        BY <2>2, <4>1
      <4> QED BY <4>2 DEF IsSet
    <3>2. DOMAIN t1.map \subseteq Names
      BY <1>2, <1>4, <3>1
    <3>3. ASSUME NEW n \in DOMAIN t1.map
          PROVE  t1.map[n] \in DOMAIN t1.list /\ t1.list[t1.map[n]].name = n
      <4>1. CASE n = name
        BY <1>5, <3>1, <4>1
      <4>2. CASE n # name
        <5>1. n \in DOMAIN t.map /\ t1.map[n] = t.map[n]
          BY <3>1, <4>2
        <5>2. t.map[n] \in DOMAIN t.list /\ t.list[t.map[n]].name = n
          BY <1>2, <5>1
        <5> QED BY <1>5, <5>1, <5>2
      <4> QED BY <4>1, <4>2
    <3>4. ASSUME NEW v \in DOMAIN t1.list
          PROVE  t1.list[v].name \in DOMAIN t1.map /\ t1.map[t1.list[v].name] = v
      <4>1. CASE v = w
        BY <1>5, <3>1, <4>1
      <4>2. CASE v # w
        <5>1. v \in DOMAIN t.list /\ t1.list[v].name = t.list[v].name
          BY <1>5, <4>2
        <5>2. t.list[v].name \in DOMAIN t.map /\ t.map[t.list[v].name] = v
          BY <1>2, <5>1
        <5>3. t.list[v].name # name
          BY <2>2, <5>2
        <5> QED BY <3>1, <5>1, <5>2, <5>3
      <4> QED BY <4>1, <4>2
    <3> QED BY <3>2, <3>3, <3>4
  <2> QED BY <1>1, <2>1, <2>2
<1>7. ASSUME NEW d \in DOMAIN t1.of
      PROVE  /\ t1.of[d] \in DOMAIN t1.list
             /\ t1.list[t1.of[d]].name = miners'[d].login
             /\ miners'[d].state \notin {"none", "WaitLogin"}
  <2>1. CASE d = c
    BY <1>3, <1>4, <1>5, <2>1
  <2>2. CASE d # c
    <3>1. d \in DOMAIN t.of /\ t1.of[d] = t.of[d]
      BY <1>3, <2>2
    <3>2. miners'[d] = miners[d]
      BY <1>2, <1>4, <2>2, <3>1
    <3> QED BY <1>2, <1>5, <3>1, <3>2
  <2> QED BY <2>1, <2>2
<1>8. serving'.byWorker = TRUE => \A d \in MinerIds : InWorkers(d)' => d \in DOMAIN t1.of
  BY <1>2, <1>3, <1>4
<1>9. DOMAIN t1.of \subseteq MinerIds
  BY <1>2, <1>3
<1> QED BY <1>6, <1>7, <1>8, <1>9 DEF TableOK

LEMMA AddKnown ==
    ASSUME MinersPart, TablePart, NEW c \in MinerIds, NEW name, CountedLogin(c, name),
           name \in DOMAIN table.map, table' = workersAdd(table, c, name)
    PROVE  /\ TablePart'
           /\ \E w, n : /\ n.invalid = table.list[w].invalid
                        /\ n.hashrate = table.list[w].hashrate
                        /\ table'.list = [table.list EXCEPT ![w] = n]
                        /\ w \in DOMAIN table.list /\ n \in WorkerType
<1>1. PICK t, t1, w : t = table /\ t1 = table' /\ w = table.map[name]
  OBVIOUS
<1>2. w \in DOMAIN t.list /\ t.list[w].name = name /\ t.list \in Seq(WorkerType)
  BY <1>1 DEF TablePart, TableOK
<1>3. PICK m : m = t.list[w]
  OBVIOUS
<1>4. m \in WorkerType
  BY <1>2, <1>3
<1>5. PICK x \in Int : x = m.connections + 1
  BY <1>4 DEF WorkerType
<1>6. PICK n : n = [m EXCEPT !.connections = x]
  OBVIOUS
<1>7. /\ n \in WorkerType /\ n.name = m.name /\ n.connections = x
      /\ n.invalid = m.invalid /\ n.hashrate = m.hashrate
  BY <1>4, <1>6 DEF WorkerType
<1>8. t1 = [t EXCEPT !.of = mapSet(t.of, c, w), !.list[w] = n]
  BY <1>1, <1>3, <1>5, <1>6 DEF workersAdd
<1>9. PICK a, b, d, o : a = t.map /\ b = t.list /\ d = t.of /\ o = mapSet(t.of, c, w)
  OBVIOUS
<1>10. t = [map |-> a, list |-> b, of |-> d]
  BY <1>1, <1>9, TableFields
<1>11. t1 = [map |-> a, list |-> [b EXCEPT ![w] = n], of |-> o]
  BY <1>8, <1>9, <1>10
<1>12. PICK l : l = [t.list EXCEPT ![w] = n]
  OBVIOUS
<1>13. /\ l \in Seq(WorkerType) /\ DOMAIN l = DOMAIN t.list
       /\ \A i \in DOMAIN t.list : l[i] = IF i = w THEN n ELSE t.list[i]
  BY <1>2, <1>7, <1>12, ListUpdate
<1>14. t1.map = t.map /\ t1.list = l /\ t1.of = mapSet(t.of, c, w)
       /\ t1 = [map |-> t1.map, list |-> t1.list, of |-> t1.of]
  BY <1>9, <1>11, <1>12
<1>15. /\ w \in DOMAIN t1.list /\ t1.list[w].name = name
       /\ DOMAIN t1.list = DOMAIN t.list \cup {w}
       /\ \A v \in DOMAIN t.list : t1.list[v].name = t.list[v].name
  BY <1>2, <1>3, <1>7, <1>13, <1>14
<1>16. TableOK'
  BY <1>1, <1>2, <1>14, <1>15, LoginTableOK
<1>17. ASSUME serving'.byWorker = TRUE, NEW v \in DOMAIN t1.list
       PROVE  t1.list[v].connections = Cardinality(Holders(t1.list[v].name)')
  <2>0. v \in DOMAIN t.list /\ serving.byWorker = TRUE
    BY <1>13, <1>14 DEF CountedLogin
  <2>1. PICK other : other = t.list[v].name /\ other = t1.list[v].name
    BY <1>15, <2>0
  <2>2. t.list[v].connections = Cardinality(Holders(other))
    BY <1>1, <2>0, <2>1 DEF TablePart
  <2>3. CASE v = w
    <3>1. other = name
      BY <1>2, <2>1, <2>3
    <3>2. Holders(other)' = Holders(other) \cup {c}
      BY <3>1, LoginHolders
    <3>3. c \notin Holders(other)
      BY DEF CountedLogin, Holders
    <3>4. PICK S : S = Holders(other)
      OBVIOUS
    <3>5. Cardinality(S \cup {c}) = Cardinality(S) + 1
      BY <3>3, <3>4, HoldersFinite, FS_AddElement
    <3>6. t1.list[v].connections = t.list[v].connections + 1
      BY <1>3, <1>5, <1>7, <1>13, <1>14, <2>0, <2>3
    <3>7. t1.list[v].connections = Cardinality(Holders(other)')
      BY <2>2, <3>2, <3>4, <3>5, <3>6
    <3> QED BY <2>1, <3>7
  <2>4. CASE v # w
    <3>1. other # name
      BY <1>1, <1>2, <2>0, <2>1, <2>4, NamesDiffer
    <3>2. Holders(other)' = Holders(other)
      BY <3>1, LoginHolders
    <3>3. t1.list[v].connections = Cardinality(Holders(other)')
      BY <1>13, <1>14, <2>0, <2>2, <2>4, <3>2
    <3> QED BY <2>1, <3>3
  <2> QED BY <2>3, <2>4
<1>18. TablePart'
  BY <1>1, <1>13, <1>14, <1>16, <1>17 DEF TablePart
<1> QED BY <1>1, <1>2, <1>3, <1>7, <1>12, <1>14, <1>18

LEMMA NewWorkerIs ==
    ASSUME NEW name \in Names
    PROVE  /\ NewWorker(name) \in WorkerType /\ NewWorker(name).name = name
           /\ NewWorker(name).connections = 1 /\ NewWorker(name).invalid = 0
           /\ NewWorker(name).hashrate = [pending |-> 0, data |-> 0]
BY DEF NewWorker, WorkerType, TickingType, NewTicking

LEMMA AddNew ==
    ASSUME MinersPart, TablePart, NEW c \in MinerIds, NEW name, CountedLogin(c, name),
           name \notin DOMAIN table.map, table' = workersAdd(table, c, name)
    PROVE  TablePart' /\ table'.list = Append(table.list, NewWorker(name))
<1>1. PICK t, t1, w, n, l : /\ t = table /\ t1 = table' /\ w = Len(t.list) + 1
                            /\ n = NewWorker(name) /\ l = Append(t.list, n)
  OBVIOUS
<1>2. t1 = [map |-> mapSet(t.map, name, w), list |-> l, of |-> mapSet(t.of, c, w)]
  BY <1>1 DEF workersAdd, addNewWorker
<1>3. t.list \in Seq(WorkerType)
  BY <1>1 DEF TablePart
<1>4. n \in WorkerType /\ n.name = name /\ n.connections = 1
  <2>1. name \in Names
    BY DEF CountedLogin
  <2> QED BY <1>1, <2>1, NewWorkerIs
<1>5. /\ l \in Seq(WorkerType) /\ DOMAIN l = DOMAIN t.list \cup {w} /\ w \notin DOMAIN t.list
      /\ l[w] = n /\ \A v \in DOMAIN t.list : l[v] = t.list[v]
  BY <1>1, <1>3, <1>4
<1>6. PICK a, o : a = mapSet(t.map, name, w) /\ o = mapSet(t.of, c, w)
  OBVIOUS
<1>7. t1 = [map |-> a, list |-> l, of |-> o]
  BY <1>2, <1>6
<1>8. t1 = [map |-> t1.map, list |-> t1.list, of |-> t1.of] /\ t1.map = a /\ t1.list = l /\ t1.of = o
  BY <1>7
<1>9. /\ w \in DOMAIN t1.list /\ t1.list[w].name = name
      /\ DOMAIN t1.list = DOMAIN t.list \cup {w}
      /\ \A v \in DOMAIN t.list : t1.list[v].name = t.list[v].name
  BY <1>4, <1>5, <1>8
<1>10. TableOK'
  <2>1. t1.map = mapSet(t.map, name, w) /\ t1.of = mapSet(t.of, c, w)
    BY <1>6, <1>8
  <2>2. t1 = [map |-> t1.map, list |-> t1.list, of |-> t1.of]
    BY <1>8
  <2> QED BY <1>1, <1>5, <1>9, <2>1, <2>2, LoginTableOK
<1>11. Holders(name) = {}
  <2> SUFFICES ASSUME NEW d \in MinerIds, InWorkers(d), miners[d].login = name PROVE FALSE
    BY DEF Holders
  <2>1. d \in DOMAIN t.of
    BY <1>1 DEF TablePart, TableOK, CountedLogin
  <2>2. t.of[d] \in DOMAIN t.list /\ t.list[t.of[d]].name = name
    BY <1>1, <2>1 DEF TablePart, TableOK
  <2>3. name \in DOMAIN t.map
    BY <1>1, <2>2 DEF TablePart, TableOK
  <2> QED BY <1>1, <2>3
<1>12. ASSUME serving'.byWorker = TRUE, NEW v \in DOMAIN t1.list
       PROVE  t1.list[v].connections = Cardinality(Holders(t1.list[v].name)')
  <2>1. serving.byWorker = TRUE
    BY <1>12 DEF CountedLogin
  <2>2. CASE v = w
    <3>1. Holders(name)' = Holders(name) \cup {c}
      BY LoginHolders
    <3>2. PICK S : S = Holders(name)
      OBVIOUS
    <3>3. Cardinality(S) = 0 /\ IsFiniteSet(S) /\ c \notin S
      BY <1>11, <3>2, FS_EmptySet
    <3>4. Cardinality(S \cup {c}) = 1
      <4>1. Cardinality(S \cup {c}) = IF c \in S THEN Cardinality(S) ELSE Cardinality(S) + 1
        BY <3>3, FS_AddElement
      <4> QED BY <3>3, <4>1
    <3>5. t1.list[v].connections = Cardinality(Holders(name)')
      <4>1. t1.list[v] = n
        BY <1>5, <1>8, <2>2
      <4>2. Holders(name)' = S \cup {c}
        BY <3>1, <3>2
      <4> QED BY <1>4, <3>4, <4>1, <4>2
    <3>6. t1.list[v].name = name
      BY <1>9, <2>2
    <3> QED BY <3>5, <3>6
  <2>3. CASE v # w
    <3>1. v \in DOMAIN t.list /\ t1.list[v] = t.list[v]
      BY <1>5, <1>8, <2>3
    <3>2. PICK other : other = t.list[v].name /\ other = t1.list[v].name
      BY <3>1
    <3>3. t.list[v].connections = Cardinality(Holders(other))
      BY <1>1, <2>1, <3>1, <3>2 DEF TablePart
    <3>4. other # name
      BY <1>1, <3>1, <3>2 DEF TablePart, TableOK
    <3>5. Holders(other)' = Holders(other)
      BY <3>4, LoginHolders
    <3>6. t1.list[v].connections = Cardinality(Holders(other)')
      BY <3>1, <3>3, <3>5
    <3> QED BY <3>2, <3>6
  <2> QED BY <2>2, <2>3
<1>13. TablePart'
  BY <1>1, <1>5, <1>8, <1>10, <1>12 DEF TablePart
<1> QED BY <1>1, <1>8, <1>13

\* What a login makes of a list of workers: nothing that adds up changes.
LoginChanges(l, k) ==
    \/ k = l
    \/ \E w, n : /\ n.invalid = l[w].invalid /\ n.hashrate = l[w].hashrate
                 /\ k = [l EXCEPT ![w] = n] /\ w \in DOMAIN l /\ n \in WorkerType
    \/ \E name \in Names : k = Append(l, NewWorker(name))

\* What a login makes of the tables.
LEMMA LoginTable ==
    ASSUME MinersPart, CountsPart, TablePart, NEW c \in MinerIds, NEW r \in MinerLogins,
           LoginRequest(c, r)
    PROVE  /\ MinersPart' /\ CountsPart' /\ TablePart'
           /\ LoginChanges(table.list, table'.list)
<1>1. /\ miners[c].state = "WaitLogin" /\ miners[c].mapper = FALSE
      /\ \E n : /\ MoveStep(c, n)
                /\ \/ KeepsRoute(miners[c], n) /\ table' = table
                   \/ /\ n.state = "WaitReady" /\ n.mapper = TRUE /\ n.login = r.worker
                      /\ table' = workersLogin(table, c, n, r.worker)
  BY LoginRequestSteps
<1>2. PICK n : /\ MoveStep(c, n)
               /\ \/ KeepsRoute(miners[c], n) /\ table' = table
                  \/ /\ n.state = "WaitReady" /\ n.mapper = TRUE /\ n.login = r.worker
                     /\ table' = workersLogin(table, c, n, r.worker)
  BY <1>1
<1>3. MinersPart' /\ CountsPart' /\ NamesKept /\ (KeepsRoute(miners[c], n) => CountedKept)
  BY <1>2, MoveStepKeeps
<1>4. /\ serving' = serving /\ listed' = listed /\ n \in MinerType
      /\ \A d \in MinerIds : miners'[d] = IF d = c THEN n ELSE miners[d]
  BY <1>2 DEF MoveStep, MinerBecomes, MinersPart, Moves, MinerOK
<1>5. CASE KeepsRoute(miners[c], n) /\ table' = table
  BY <1>3, <1>4, <1>5, SameTableKeeps DEF LoginChanges
<1>6. CASE /\ n.state = "WaitReady" /\ n.mapper = TRUE /\ n.login = r.worker
           /\ table' = workersLogin(table, c, n, r.worker)
  <2>1. ~InWorkers(c)
    BY <1>1 DEF InWorkers
  <2>2. c \in listed
    BY <1>1 DEF MinersPart
  <2>3. n.route \in BOOLEAN /\ serving.byWorker \in BOOLEAN
    BY <1>4 DEF MinerType, MinersPart, ServingOK
  <2>4. CASE serving.byWorker = TRUE /\ n.route = FALSE
    <3>1. table' = workersAdd(table, c, r.worker)
      <4>1. countedByWorker(n)
        BY <2>4 DEF countedByWorker
      <4> QED BY <1>6, <4>1 DEF workersLogin
    <3>2. PICK name \in Names : name = r.worker
      BY DEF Names
    <3>3. \A d \in MinerIds : InWorkers(d)' <=> InWorkers(d) \/ d = c
      <4>1. ASSUME NEW d \in MinerIds PROVE InWorkers(d)' <=> InWorkers(d) \/ d = c
        <5>1. CASE d = c
          BY <1>4, <1>6, <2>2, <2>4, <5>1 DEF InWorkers
        <5>2. CASE d # c
          BY <1>4, <5>2 DEF InWorkers
        <5> QED BY <5>1, <5>2
      <4> QED BY <4>1
    <3>4. CountedLogin(c, name)
      BY <1>4, <1>6, <2>1, <2>4, <3>2, <3>3 DEF CountedLogin
    <3>5. table' = workersAdd(table, c, name)
      BY <3>1, <3>2
    <3> QED BY <1>3, <3>4, <3>5, AddKnown, AddNew DEF LoginChanges
  <2>5. CASE serving.byWorker = FALSE \/ n.route = TRUE
    <3>1. table' = table
      <4>1. ~countedByWorker(n)
        BY <2>5 DEF countedByWorker
      <4> QED BY <1>6, <4>1 DEF workersLogin
    <3>2. CASE n.route = TRUE
      <4>1. CountedKept
        <5>1. ASSUME NEW d \in MinerIds PROVE InWorkers(d)' <=> InWorkers(d)
          <6>1. CASE d = c
            BY <1>4, <2>1, <3>2, <6>1 DEF InWorkers
          <6>2. CASE d # c
            BY <1>4, <6>2 DEF InWorkers
          <6> QED BY <6>1, <6>2
        <5> QED BY <5>1 DEF CountedKept
      <4> QED BY <1>3, <1>4, <3>1, <4>1, SameTableKeeps DEF LoginChanges
    <3>3. CASE serving.byWorker = FALSE
      <4>1. TableOK'
        <5>1. TableOK
          BY DEF TablePart
        <5>2. PICK t : t = table /\ t = table'
          BY <3>1
        <5>3. /\ t = [map |-> t.map, list |-> t.list, of |-> t.of]
              /\ DOMAIN t.map \subseteq Names
              /\ \A x \in DOMAIN t.map :
                   t.map[x] \in DOMAIN t.list /\ t.list[t.map[x]].name = x
              /\ \A w \in DOMAIN t.list :
                   t.list[w].name \in DOMAIN t.map /\ t.map[t.list[w].name] = w
              /\ DOMAIN t.of \subseteq MinerIds
              /\ \A d \in DOMAIN t.of :
                   /\ t.of[d] \in DOMAIN t.list
                   /\ t.list[t.of[d]].name = miners[d].login
                   /\ miners[d].state \notin {"none", "WaitLogin"}
          BY <5>1, <5>2 DEF TableOK
        <5>4. \A d \in DOMAIN t.of : /\ miners'[d].login = miners[d].login
                                     /\ miners'[d].state \notin {"none", "WaitLogin"}
          BY <1>3, <5>3 DEF NamesKept
        <5>5. serving'.byWorker # TRUE
          BY <1>4, <3>3
        <5>6. \A d \in DOMAIN t.of :
                   /\ t.of[d] \in DOMAIN t.list
                   /\ t.list[t.of[d]].name = miners'[d].login
                   /\ miners'[d].state \notin {"none", "WaitLogin"}
          BY <5>3, <5>4
        <5> QED BY <5>2, <5>3, <5>5, <5>6 DEF TableOK
      <4>2. table'.list \in Seq(WorkerType) /\ serving'.byWorker # TRUE
        BY <1>4, <3>1, <3>3 DEF TablePart
      <4>3. TablePart'
        BY <4>1, <4>2 DEF TablePart
      <4> QED BY <1>3, <3>1, <4>3 DEF LoginChanges
    <3> QED BY <2>5, <3>2, <3>3
  <2> QED BY <2>3, <2>4, <2>5
<1> QED BY <1>2, <1>5, <1>6

(***************************************************************************)
(* What Workers and Stats add up                                           *)
(***************************************************************************)

Hashes(l) == [i \in DOMAIN l |-> l[i].hashrate.pending + l[i].hashrate.data]

Invalids(l) == [i \in DOMAIN l |-> l[i].invalid]

HashSum(l) == SumFunction(Hashes(l))
InvalidSum(l) == SumFunction(Invalids(l))

LEMMA SumsTyped ==
    ASSUME NEW l \in Seq(WorkerType)
    PROVE  /\ Hashes(l) \in [DOMAIN l -> Nat] /\ Invalids(l) \in [DOMAIN l -> Nat]
           /\ IsFiniteSet(DOMAIN l) /\ HashSum(l) \in Nat /\ InvalidSum(l) \in Nat
<1>1. IsFiniteSet(DOMAIN l)
  <2>1. DOMAIN l = 1..Len(l) /\ Len(l) \in Int
    OBVIOUS
  <2> QED BY <2>1, FS_Interval
<1>2. \A i \in DOMAIN l : l[i].hashrate.pending + l[i].hashrate.data \in Nat /\ l[i].invalid \in Nat
  <2> TAKE i \in DOMAIN l
  <2>1. PICK n, h : n = l[i] /\ h = n.hashrate
    OBVIOUS
  <2>2. n \in WorkerType
    BY <2>1
  <2>3. h \in TickingType /\ n.invalid \in Nat
    BY <2>1, <2>2 DEF WorkerType
  <2>4. h.pending \in Nat /\ h.data \in Nat
    BY <2>3 DEF TickingType
  <2>5. h.pending + h.data \in Nat
    BY <2>4
  <2> QED BY <2>1, <2>3, <2>5
<1>3. Hashes(l) \in [DOMAIN l -> Nat] /\ Invalids(l) \in [DOMAIN l -> Nat]
  BY <1>2 DEF Hashes, Invalids
<1>4. HashSum(l) \in Nat /\ InvalidSum(l) \in Nat
  <2>1. PICK S, f, g : S = DOMAIN l /\ f = Hashes(l) /\ g = Invalids(l)
    OBVIOUS
  <2>2. IsFiniteSet(S) /\ f \in [S -> Nat] /\ g \in [S -> Nat]
    BY <1>1, <1>3, <2>1
  <2>3. SumFunction(f) \in Nat /\ SumFunction(g) \in Nat
    BY <2>2, SumNat
  <2> QED BY <2>1, <2>3 DEF HashSum, InvalidSum
<1> QED BY <1>1, <1>3, <1>4

\* One worker of the list l becomes n, which makes it k: its sums grow by d and e.
Grows(l, k, w, n, d, e) ==
    /\ l \in Seq(WorkerType) /\ k = [l EXCEPT ![w] = n] /\ w \in DOMAIN l
    /\ n \in WorkerType /\ d \in Nat /\ e \in Nat
    /\ n.hashrate.pending + n.hashrate.data
         = (l[w].hashrate.pending + l[w].hashrate.data) + d
    /\ n.invalid = l[w].invalid + e

SumsGrown(l, k, d, e) == HashSum(k) = HashSum(l) + d /\ InvalidSum(k) = InvalidSum(l) + e

LEMMA SumsUpdated ==
    ASSUME NEW l, NEW k, NEW w, NEW n, NEW d, NEW e, Grows(l, k, w, n, d, e)
    PROVE  SumsGrown(l, k, d, e)
<1>0. /\ l \in Seq(WorkerType) /\ k = [l EXCEPT ![w] = n] /\ w \in DOMAIN l
      /\ n \in WorkerType /\ d \in Nat /\ e \in Nat
      /\ n.hashrate.pending + n.hashrate.data
           = (l[w].hashrate.pending + l[w].hashrate.data) + d
      /\ n.invalid = l[w].invalid + e
  BY DEF Grows
<1> USE <1>0
<1>1. /\ k \in Seq(WorkerType) /\ DOMAIN k = DOMAIN l
      /\ \A i \in DOMAIN l : k[i] = IF i = w THEN n ELSE l[i]
  BY ListUpdate
<1>2. PICK S : S = DOMAIN l
  OBVIOUS
<1>3. PICK f, g, a, b : f = Hashes(l) /\ g = Hashes(k) /\ a = Invalids(l) /\ b = Invalids(k)
  OBVIOUS
<1>4. /\ f \in [S -> Nat] /\ g \in [S -> Nat] /\ a \in [S -> Nat] /\ b \in [S -> Nat]
      /\ IsFiniteSet(S) /\ w \in S
  BY <1>1, <1>2, <1>3, SumsTyped
<1>5. g[w] = f[w] + d /\ b[w] = a[w] + e
  <2>1. f[w] = l[w].hashrate.pending + l[w].hashrate.data
    BY <1>3 DEF Hashes
  <2>2. g[w] = n.hashrate.pending + n.hashrate.data
    BY <1>1, <1>3 DEF Hashes
  <2>3. a[w] = l[w].invalid /\ b[w] = n.invalid
    BY <1>1, <1>3 DEF Invalids
  <2> QED BY <2>1, <2>2, <2>3
<1>6. \A x \in S \ {w} : g[x] = f[x] /\ b[x] = a[x]
  BY <1>1, <1>2, <1>3 DEF Hashes, Invalids
<1>7. SumFunction(g) = SumFunction(f) + d
  <2>1. ChangedBy(S, f, g, w, d)
    BY <1>4, <1>5, <1>6 DEF ChangedBy
  <2> QED BY <2>1, SumChanged
<1>8. SumFunction(b) = SumFunction(a) + e
  <2>1. ChangedBy(S, a, b, w, e)
    BY <1>4, <1>5, <1>6 DEF ChangedBy
  <2> QED BY <2>1, SumChanged
<1> QED BY <1>3, <1>7, <1>8 DEF HashSum, InvalidSum, SumsGrown

LEMMA SumsAppended ==
    ASSUME NEW l \in Seq(WorkerType), NEW name \in Names,
           NEW k, k = Append(l, NewWorker(name))
    PROVE  HashSum(k) = HashSum(l) /\ InvalidSum(k) = InvalidSum(l)
<1>1. PICK n, w : n = NewWorker(name) /\ w = Len(l) + 1
  OBVIOUS
<1>2. n \in WorkerType /\ n.invalid = 0 /\ n.hashrate = [pending |-> 0, data |-> 0]
  BY <1>1, NewWorkerIs
<1>3. /\ k \in Seq(WorkerType) /\ DOMAIN k = DOMAIN l \cup {w} /\ w \notin DOMAIN l
      /\ k[w] = n /\ \A v \in DOMAIN l : k[v] = l[v]
  BY <1>1, <1>2
<1>4. PICK S : S = DOMAIN l
  OBVIOUS
<1>5. PICK f, g, a, b : f = Hashes(l) /\ g = Hashes(k) /\ a = Invalids(l) /\ b = Invalids(k)
  OBVIOUS
<1>6. /\ f \in [S -> Nat] /\ a \in [S -> Nat] /\ IsFiniteSet(S) /\ w \notin S
  BY <1>3, <1>4, <1>5, SumsTyped
<1>7. g \in [S \cup {w} -> Nat] /\ b \in [S \cup {w} -> Nat]
  <2>1. Hashes(k) \in [DOMAIN k -> Nat] /\ Invalids(k) \in [DOMAIN k -> Nat]
    BY <1>3, SumsTyped
  <2>2. DOMAIN k = S \cup {w}
    BY <1>3, <1>4
  <2> QED BY <1>5, <2>1, <2>2
<1>8. g[w] = 0 /\ b[w] = 0
  <2>1. k[w].hashrate.pending = 0 /\ k[w].hashrate.data = 0 /\ k[w].invalid = 0
    BY <1>2, <1>3
  <2>2. w \in DOMAIN k
    BY <1>3
  <2> QED BY <1>5, <2>1, <2>2 DEF Hashes, Invalids
<1>9. \A x \in S : g[x] = f[x] /\ b[x] = a[x]
  BY <1>3, <1>4, <1>5 DEF Hashes, Invalids
<1>10. SumFunction(g) = SumFunction(f)
  <2>1. ExtendedBy(S, f, g, w)
    BY <1>6, <1>7, <1>8, <1>9 DEF ExtendedBy
  <2> QED BY <2>1, SumExtended
<1>11. SumFunction(b) = SumFunction(a)
  <2>1. ExtendedBy(S, a, b, w)
    BY <1>6, <1>7, <1>8, <1>9 DEF ExtendedBy
  <2> QED BY <2>1, SumExtended
<1> QED BY <1>5, <1>10, <1>11 DEF HashSum, InvalidSum

SameSums(k, l) == HashSum(k) = HashSum(l) /\ InvalidSum(k) = InvalidSum(l)

SumsPart ==
    /\ totals \in TotalsType /\ totals.connections = Cardinality(listed)
    /\ HashSum(table.list) <= totals.hashrate.pending + totals.hashrate.data
    /\ InvalidSum(table.list) <= totals.invalid

\* WorkersAddUp, in these words.
LEMMA AddsUp ==
    ASSUME TableOK, SumsPart
    PROVE  WorkersAddUp
<1>1. \A c \in DOMAIN table.of : table.list[table.of[c]].name = miners[c].login
  BY DEF TableOK
<1>2. SumFunction([i \in DOMAIN table.list |-> table.list[i].hashrate.pending + table.list[i].hashrate.data])
        <= totals.hashrate.pending + totals.hashrate.data
  BY DEF SumsPart, HashSum, Hashes
<1>3. SumFunction([i \in DOMAIN table.list |-> table.list[i].invalid]) <= totals.invalid
  BY DEF SumsPart, InvalidSum, Invalids
<1> QED BY <1>1, <1>2, <1>3, Zenon DEF WorkersAddUp

LEMMA TotalsNat ==
    ASSUME SumsPart, TablePart
    PROVE  /\ totals.hashrate.pending \in Nat /\ totals.hashrate.data \in Nat
           /\ totals.invalid \in Nat /\ totals.connections \in Int
           /\ HashSum(table.list) \in Nat /\ InvalidSum(table.list) \in Nat
<1>1. table.list \in Seq(WorkerType)
  BY DEF TablePart
<1>2. HashSum(table.list) \in Nat /\ InvalidSum(table.list) \in Nat
  BY <1>1, SumsTyped
<1>3. totals \in TotalsType
  BY DEF SumsPart
<1> QED BY <1>2, <1>3 DEF TotalsType, TickingType

(***************************************************************************)
(* The invariant, and the steps that keep it                               *)
(***************************************************************************)

ConnInv == MinersPart /\ CountsPart /\ TablePart /\ SumsPart

\* Totals and tables that add up to the same.
LEMMA SumsKept ==
    ASSUME SumsPart, TablePart, totals' \in TotalsType,
           totals'.connections = Cardinality(listed'),
           totals'.hashrate = totals.hashrate, totals'.invalid = totals.invalid,
           SameSums(table'.list, table.list)
    PROVE  SumsPart'
<1>1. PICK l, k, t, s : l = table.list /\ k = table'.list /\ t = totals /\ s = totals'
  OBVIOUS
<1>2. HashSum(l) <= t.hashrate.pending + t.hashrate.data /\ InvalidSum(l) <= t.invalid
  BY <1>1 DEF SumsPart
<1>3. HashSum(k) <= s.hashrate.pending + s.hashrate.data /\ InvalidSum(k) <= s.invalid
  BY <1>1, <1>2 DEF SameSums
<1> QED BY <1>1, <1>3 DEF SumsPart, HashSum, InvalidSum, Hashes, Invalids

\* One worker grows by d and e, and the totals by no less.
GrowsBy(w, n, d, e) ==
    /\ w \in DOMAIN table.list /\ n \in WorkerType /\ d \in Nat /\ e \in Nat
    /\ table'.list = [table.list EXCEPT ![w] = n]
    /\ n.hashrate.pending + n.hashrate.data
         = (table.list[w].hashrate.pending + table.list[w].hashrate.data) + d
    /\ n.invalid = table.list[w].invalid + e
    /\ totals' \in TotalsType /\ totals'.connections = Cardinality(listed')
    /\ totals'.hashrate.pending + totals'.hashrate.data
         = (totals.hashrate.pending + totals.hashrate.data) + d
    /\ totals'.invalid = totals.invalid + e

LEMMA SumsGrow ==
    ASSUME SumsPart, TablePart, NEW w, NEW n, NEW d, NEW e, GrowsBy(w, n, d, e)
    PROVE  SumsPart'
<1> USE DEF GrowsBy
<1>1. PICK l, k, t, s : l = table.list /\ k = table'.list /\ t = totals /\ s = totals'
  OBVIOUS
<1>2. HashSum(l) <= t.hashrate.pending + t.hashrate.data /\ InvalidSum(l) <= t.invalid
  BY <1>1 DEF SumsPart
<1>3. l \in Seq(WorkerType)
  BY <1>1 DEF TablePart
<1>4. HashSum(k) = HashSum(l) + d /\ InvalidSum(k) = InvalidSum(l) + e
  <2>1. w \in DOMAIN l /\ n \in WorkerType /\ k = [l EXCEPT ![w] = n]
    BY <1>1
  <2>2. /\ n.hashrate.pending + n.hashrate.data
             = (l[w].hashrate.pending + l[w].hashrate.data) + d
        /\ n.invalid = l[w].invalid + e
    BY <1>1
  <2>3. Grows(l, k, w, n, d, e)
    BY <1>3, <2>1, <2>2 DEF Grows
  <2> QED BY <2>3, SumsUpdated DEF SumsGrown
<1>5. HashSum(l) \in Nat /\ InvalidSum(l) \in Nat
  BY <1>3, SumsTyped
<1>6. t.hashrate.pending \in Nat /\ t.hashrate.data \in Nat /\ t.invalid \in Nat
  BY <1>1, TotalsNat
<1>7. /\ s.hashrate.pending + s.hashrate.data = (t.hashrate.pending + t.hashrate.data) + d
      /\ s.invalid = t.invalid + e
  BY <1>1
<1>8. HashSum(k) <= s.hashrate.pending + s.hashrate.data /\ InvalidSum(k) <= s.invalid
  BY <1>2, <1>4, <1>5, <1>6, <1>7
<1> QED BY <1>1, <1>8 DEF SumsPart, HashSum, InvalidSum, Hashes, Invalids

LEMMA TotalsConnections ==
    ASSUME SumsPart, NEW x \in Int, totals' = [totals EXCEPT !.connections = x]
    PROVE  /\ totals' \in TotalsType /\ totals'.connections = x
           /\ totals'.hashrate = totals.hashrate /\ totals'.invalid = totals.invalid
<1>1. PICK t, s : t = totals /\ s = totals'
  OBVIOUS
<1>2. t \in TotalsType /\ s = [t EXCEPT !.connections = x]
  BY <1>1 DEF SumsPart
<1>3. /\ s \in TotalsType /\ s.connections = x /\ s.hashrate = t.hashrate /\ s.invalid = t.invalid
  BY <1>2 DEF TotalsType
<1> QED BY <1>1, <1>3

LEMMA NothingAdded ==
    ASSUME SumsPart, TablePart, totals' = totals, listed' = listed, table' = table
    PROVE  SumsPart'
BY SumsKept DEF SumsPart, SameSums

\* A step that changes neither Stats nor Workers.
LEMMA QuietSteps ==
    ASSUME ConnInv, NEW c \in MinerIds, NEW n, MoveStep(c, n), KeepsRoute(miners[c], n),
           totals' = totals, table' = table
    PROVE  ConnInv'
<1>1. MinersPart /\ CountsPart /\ TablePart /\ SumsPart
  BY DEF ConnInv
<1>2. MinersPart' /\ CountsPart' /\ NamesKept /\ CountedKept
  BY <1>1, MoveStepKeeps
<1>3. serving' = serving /\ listed' = listed
  BY DEF MoveStep
<1>4. TablePart'
  BY <1>1, <1>2, <1>3, SameTableKeeps
<1>5. SumsPart'
  BY <1>1, <1>3, NothingAdded
<1> QED BY <1>2, <1>4, <1>5 DEF ConnInv

LEMMA CreateKeeps ==
    ASSUME ConnInv, NEW c \in MinerIds, NEW h \in serving.servers, Create(c, h)
    PROVE  ConnInv'
<1>1. MinersPart /\ CountsPart /\ TablePart /\ SumsPart
  BY DEF ConnInv
<1>2. /\ MinersPart' /\ CountsPart' /\ c \notin listed
      /\ miners' = [miners EXCEPT ![c] = newMiner(h)] /\ listed' = listed \cup {c}
      /\ Cardinality(listed') = Cardinality(listed) + 1
  BY <1>1, CreateSteps
<1>3. /\ miners[c].state = "none" /\ serving' = serving /\ table' = table
      /\ totals' = [totals EXCEPT !.connections = totals.connections + 1]
  BY DEF Create
<1>4. newMiner(h).mapper = FALSE
  BY <1>1, NewMinerOK DEF MinersPart
<1>5. \A d \in MinerIds : miners'[d] = IF d = c THEN newMiner(h) ELSE miners[d]
  BY <1>1, <1>2 DEF MinersPart
<1>6. NamesKept
  BY <1>3, <1>5 DEF NamesKept
<1>7. CountedKept
  <2>1. ~InWorkers(c)
    BY <1>2 DEF InWorkers
  <2>2. ASSUME NEW d \in MinerIds PROVE InWorkers(d)' <=> InWorkers(d)
    <3>1. CASE d = c
      BY <1>4, <1>5, <2>1, <3>1 DEF InWorkers
    <3>2. CASE d # c
      BY <1>2, <1>5, <3>2 DEF InWorkers
    <3> QED BY <3>1, <3>2
  <2> QED BY <2>2 DEF CountedKept
<1>8. TablePart'
  BY <1>1, <1>3, <1>6, <1>7, SameTableKeeps
<1>9. SumsPart'
  <2>1. PICK x \in Int : x = totals.connections + 1
    BY <1>1, TotalsNat
  <2>2. /\ totals' \in TotalsType /\ totals'.connections = x
        /\ totals'.hashrate = totals.hashrate /\ totals'.invalid = totals.invalid
    BY <1>1, <1>3, <2>1, TotalsConnections
  <2>3. totals'.connections = Cardinality(listed')
    BY <1>1, <1>2, <2>1, <2>2 DEF SumsPart
  <2> QED BY <1>1, <1>3, <2>2, <2>3, SumsKept DEF SameSums
<1> QED BY <1>2, <1>8, <1>9 DEF ConnInv

LEMMA AcceptFailsKeeps ==
    ASSUME ConnInv, NEW c \in MinerIds, AcceptFails(c)
    PROVE  ConnInv'
<1>1. MinersPart /\ CountsPart /\ TablePart /\ SumsPart
  BY DEF ConnInv
<1>2. /\ MinersPart' /\ CountsPart' /\ c \notin listed
      /\ \E n \in MinerType : miners' = [miners EXCEPT ![c] = n] /\ n.mapper = FALSE
  BY <1>1, AcceptFailsSteps
<1>3. PICK n \in MinerType : miners' = [miners EXCEPT ![c] = n] /\ n.mapper = FALSE
  BY <1>2
<1>4. /\ miners[c].state = "none" /\ serving' = serving /\ table' = table
      /\ totals' = totals /\ listed' = listed
  BY DEF AcceptFails
<1>5. \A d \in MinerIds : miners'[d] = IF d = c THEN n ELSE miners[d]
  BY <1>1, <1>3 DEF MinersPart
<1>6. NamesKept
  BY <1>4, <1>5 DEF NamesKept
<1>7. CountedKept
  <2>1. ~InWorkers(c)
    BY <1>2 DEF InWorkers
  <2>2. ASSUME NEW d \in MinerIds PROVE InWorkers(d)' <=> InWorkers(d)
    <3>1. CASE d = c
      BY <1>3, <1>5, <2>1, <3>1 DEF InWorkers
    <3>2. CASE d # c
      BY <1>4, <1>5, <3>2 DEF InWorkers
    <3> QED BY <3>1, <3>2
  <2> QED BY <2>2 DEF CountedKept
<1>8. TablePart'
  BY <1>1, <1>4, <1>6, <1>7, SameTableKeeps
<1>9. SumsPart'
  BY <1>1, <1>4, NothingAdded
<1> QED BY <1>2, <1>8, <1>9 DEF ConnInv

LEMMA CloseDoneKeeps ==
    ASSUME ConnInv, NEW c \in MinerIds, CloseDone(c)
    PROVE  ConnInv'
<1>1. MinersPart /\ CountsPart /\ TablePart /\ SumsPart
  BY DEF ConnInv
<1>2. /\ MinersPart' /\ CountsPart' /\ c \in listed /\ listed' = listed \ {c}
      /\ Cardinality(listed') = Cardinality(listed) - 1
      /\ \E n \in MinerType : /\ miners' = [miners EXCEPT ![c] = n] /\ n.state = "gone"
                              /\ n.mapper = FALSE /\ n.login = miners[c].login
  BY <1>1, CloseDoneSteps
<1>3. PICK m \in MinerType : /\ miners' = [miners EXCEPT ![c] = m] /\ m.state = "gone"
                             /\ m.mapper = FALSE /\ m.login = miners[c].login
  BY <1>2
<1>4. /\ serving' = serving /\ table' = workersRemove(table, c)
      /\ totals' = [totals EXCEPT !.connections = totals.connections - 1]
  BY DEF CloseDone
<1>5. \A d \in MinerIds : miners'[d] = IF d = c THEN m ELSE miners[d]
  BY <1>1, <1>3 DEF MinersPart
<1>6. NamesKept
  BY <1>3, <1>5 DEF NamesKept
<1>7. \A d \in MinerIds : InWorkers(d)' <=> InWorkers(d) /\ d # c
  <2>1. ASSUME NEW d \in MinerIds PROVE InWorkers(d)' <=> InWorkers(d) /\ d # c
    <3>1. CASE d = c
      BY <1>2, <3>1 DEF InWorkers
    <3>2. CASE d # c
      BY <1>2, <1>5, <3>2 DEF InWorkers
    <3> QED BY <3>1, <3>2
  <2> QED BY <2>1
<1>8. PICK x \in Int : x = totals.connections - 1
  BY <1>1, TotalsNat
<1>9. /\ totals' \in TotalsType /\ totals'.connections = Cardinality(listed')
      /\ totals'.hashrate = totals.hashrate /\ totals'.invalid = totals.invalid
  <2>1. /\ totals' \in TotalsType /\ totals'.connections = x
        /\ totals'.hashrate = totals.hashrate /\ totals'.invalid = totals.invalid
    BY <1>1, <1>4, <1>8, TotalsConnections
  <2>2. totals'.connections = Cardinality(listed')
    BY <1>1, <1>2, <1>8, <2>1 DEF SumsPart
  <2> QED BY <2>1, <2>2
<1>10. PICK t1 : t1 = table'
  OBVIOUS
<1>11. \/ t1 = table /\ (serving.byWorker = TRUE => ~InWorkers(c))
       \/ \E n : RemovedFrom(c, t1, n)
  BY <1>1, <1>2, <1>4, <1>10, RemoveTable
<1>12. CASE t1 = table /\ (serving.byWorker = TRUE => ~InWorkers(c))
  <2>1. SumsPart'
    BY <1>1, <1>9, <1>10, <1>12, SumsKept DEF SameSums
  <2>2. TablePart'
    <3>1. CASE ~InWorkers(c)
      <4>1. CountedKept
        BY <1>7, <3>1 DEF CountedKept
      <4> QED BY <1>1, <1>4, <1>6, <1>10, <1>12, <4>1, SameTableKeeps
    <3>2. CASE serving.byWorker # TRUE
      <4>1. TableOK /\ table = [map |-> table.map, list |-> table.list, of |-> table.of]
            /\ table.list \in Seq(WorkerType)
        BY <1>1 DEF TablePart, TableOK
      <4>2. table' = [map |-> table.map, list |-> table'.list, of |-> table.of]
        BY <1>10, <1>12, <4>1
      <4>3. TableOK'
        BY <1>4, <1>6, <1>7, <1>10, <1>12, <4>1, <4>2, TableOKKept
      <4>4. table'.list \in Seq(WorkerType) /\ serving'.byWorker # TRUE
        BY <1>4, <1>10, <1>12, <3>2, <4>1
      <4> QED BY <4>3, <4>4 DEF TablePart
    <3> QED BY <1>12, <3>1, <3>2
  <2> QED BY <1>2, <2>1, <2>2 DEF ConnInv
<1>13. CASE \E n : RemovedFrom(c, t1, n)
  <2>0. PICK n : RemovedFrom(c, t1, n)
    BY <1>13
  <2>1. /\ serving.byWorker = TRUE /\ InWorkers(c) /\ c \in DOMAIN table.of
        /\ Updated(t1, table.of[c], n)
        /\ n.connections = table.list[table.of[c]].connections - 1
        /\ n.invalid = table.list[table.of[c]].invalid
        /\ n.hashrate = table.list[table.of[c]].hashrate
    BY <2>0 DEF RemovedFrom
  <2>2. PICK w : w = table.of[c]
    OBVIOUS
  <2>3. Updated(table', table.of[c], n)
    BY <1>10, <2>1
  <2>4. TablePart'
    BY <1>1, <1>4, <1>6, <1>7, <2>1, <2>3, RemoveKeeps
  <2>5. /\ w \in DOMAIN table.list /\ n \in WorkerType
        /\ table'.list = [table.list EXCEPT ![w] = n]
    BY <1>10, <2>1, <2>2 DEF Updated
  <2>6. /\ n.invalid = table.list[w].invalid /\ n.hashrate = table.list[w].hashrate
    BY <2>1, <2>2
  <2>7. SumsPart'
    <3>1. PICK l, k : l = table.list /\ k = table'.list
      OBVIOUS
    <3>2. l \in Seq(WorkerType) /\ w \in DOMAIN l /\ k = [l EXCEPT ![w] = n]
      BY <1>1, <2>5, <3>1 DEF TablePart
    <3>3. l[w] \in WorkerType
      BY <3>2
    <3>4. PICK z \in Nat : z = 0
      OBVIOUS
    <3>5. /\ n.hashrate.pending + n.hashrate.data
               = (l[w].hashrate.pending + l[w].hashrate.data) + z
          /\ n.invalid = l[w].invalid + z
      <4>1. PICK y, g : y = l[w] /\ g = y.hashrate
        OBVIOUS
      <4>2. g \in TickingType /\ y.invalid \in Nat
        BY <3>3, <4>1 DEF WorkerType
      <4>3. g.pending \in Nat /\ g.data \in Nat
        BY <4>2 DEF TickingType
      <4>4. n.invalid = y.invalid /\ n.hashrate = g
        BY <2>6, <3>1, <4>1
      <4>5. y.invalid = y.invalid + z /\ g.pending + g.data = (g.pending + g.data) + z
        BY <3>4, <4>2, <4>3
      <4> QED BY <4>1, <4>4, <4>5
    <3>6. HashSum(k) = HashSum(l) + z /\ InvalidSum(k) = InvalidSum(l) + z
      <4>1. Grows(l, k, w, n, z, z)
        BY <2>5, <3>2, <3>5 DEF Grows
      <4> QED BY <4>1, SumsUpdated DEF SumsGrown
    <3>7. HashSum(k) = HashSum(l) /\ InvalidSum(k) = InvalidSum(l)
      BY <3>2, <3>4, <3>6, SumsTyped
    <3>8. SameSums(table'.list, table.list)
      BY <3>1, <3>7 DEF SameSums
    <3> QED BY <1>1, <1>9, <3>8, SumsKept
  <2> QED BY <1>2, <2>4, <2>7 DEF ConnInv
<1> QED BY <1>11, <1>12, <1>13

\* One worker changes, and what it adds up stays.
LEMMA UnchangedSums ==
    ASSUME NEW l \in Seq(WorkerType), NEW w \in DOMAIN l, NEW n \in WorkerType,
           n.invalid = l[w].invalid, n.hashrate = l[w].hashrate,
           NEW k, k = [l EXCEPT ![w] = n]
    PROVE  SameSums(k, l)
<1>1. l[w] \in WorkerType
  OBVIOUS
<1>2. PICK z \in Nat : z = 0
  OBVIOUS
<1>3. PICK y, g : y = l[w] /\ g = y.hashrate
  OBVIOUS
<1>4. g \in TickingType /\ y.invalid \in Nat
  BY <1>1, <1>3 DEF WorkerType
<1>5. g.pending \in Nat /\ g.data \in Nat
  BY <1>4 DEF TickingType
<1>6. n.invalid = y.invalid /\ n.hashrate = g
  BY <1>3
<1>7. y.invalid = y.invalid + z /\ g.pending + g.data = (g.pending + g.data) + z
  BY <1>2, <1>4, <1>5
<1>8. /\ n.hashrate.pending + n.hashrate.data
           = (l[w].hashrate.pending + l[w].hashrate.data) + z
      /\ n.invalid = l[w].invalid + z
  BY <1>3, <1>6, <1>7
<1>9. Grows(l, k, w, n, z, z)
  BY <1>8 DEF Grows
<1>10. HashSum(k) = HashSum(l) + z /\ InvalidSum(k) = InvalidSum(l) + z
  BY <1>9, SumsUpdated DEF SumsGrown
<1> QED BY <1>2, <1>10, SumsTyped DEF SameSums

LEMMA LoginSums ==
    ASSUME NEW l \in Seq(WorkerType), NEW k, LoginChanges(l, k)
    PROVE  SameSums(k, l)
<1>1. CASE k = l
  BY <1>1 DEF SameSums
<1>2. ASSUME NEW w, NEW n, n.invalid = l[w].invalid, n.hashrate = l[w].hashrate,
             k = [l EXCEPT ![w] = n], w \in DOMAIN l, n \in WorkerType
      PROVE  SameSums(k, l)
  BY <1>2, UnchangedSums
<1>3. ASSUME NEW name \in Names, k = Append(l, NewWorker(name))
      PROVE  SameSums(k, l)
  BY <1>3, SumsAppended DEF SameSums
<1> QED BY <1>1, <1>2, <1>3 DEF LoginChanges

LEMMA LoginKeeps ==
    ASSUME ConnInv, NEW c \in MinerIds, NEW r \in MinerLogins, LoginRequest(c, r)
    PROVE  ConnInv'
<1>1. MinersPart /\ CountsPart /\ TablePart /\ SumsPart
  BY DEF ConnInv
<1>2. MinersPart' /\ CountsPart' /\ TablePart' /\ LoginChanges(table.list, table'.list)
  BY <1>1, LoginTable
<1>3. totals' = totals /\ listed' = listed
  BY LoginSteps
<1>4. SameSums(table'.list, table.list)
  <2>1. PICK l, k : l = table.list /\ k = table'.list
    OBVIOUS
  <2>2. l \in Seq(WorkerType) /\ LoginChanges(l, k)
    BY <1>1, <1>2, <2>1 DEF TablePart
  <2> QED BY <2>1, <2>2, LoginSums
<1>5. totals' \in TotalsType /\ totals'.connections = Cardinality(listed')
  BY <1>1, <1>3 DEF SumsPart
<1>6. SumsPart'
  BY <1>1, <1>3, <1>4, <1>5, SumsKept
<1> QED BY <1>2, <1>6 DEF ConnInv

\* A step that changes miners only, in a way that Workers does not notice.
LEMMA SilentSteps ==
    ASSUME ConnInv, MinersPart', CountsPart', NamesKept, CountedKept,
           serving' = serving, listed' = listed, totals' = totals, table' = table
    PROVE  ConnInv'
<1>1. MinersPart /\ CountsPart /\ TablePart /\ SumsPart
  BY DEF ConnInv
<1>2. TablePart'
  BY <1>1, SameTableKeeps
<1>3. SumsPart'
  BY <1>1, NothingAdded
<1> QED BY <1>2, <1>3 DEF ConnInv

LEMMA SendJobFailsKeeps ==
    ASSUME ConnInv, NEW c \in MinerIds, SendJobFails(c)
    PROVE  ConnInv'
<1>1. MinersPart /\ CountsPart
  BY DEF ConnInv
<1>2. MinersPart' /\ CountsPart' /\ NamesKept /\ CountedKept
  BY <1>1, SendJobFailsSteps
<1>3. serving' = serving /\ listed' = listed /\ totals' = totals /\ table' = table
  BY DEF SendJobFails
<1> QED BY <1>2, <1>3, SilentSteps

LEMMA MinersTickKeeps ==
    ASSUME ConnInv, MinersTick
    PROVE  ConnInv'
<1>1. MinersPart /\ CountsPart
  BY DEF ConnInv
<1>2. MinersPart' /\ CountsPart' /\ NamesKept /\ CountedKept
  BY <1>1, MinersTickSteps
<1>3. serving' = serving /\ listed' = listed /\ totals' = totals /\ table' = table
  BY DEF MinersTick
<1> QED BY <1>2, <1>3, SilentSteps

LEMMA ReadyRequestKeeps ==
    ASSUME ConnInv, NEW c \in MinerIds, NEW refused \in BOOLEAN, ReadyRequest(c, refused)
    PROVE  ConnInv'
<1>1. MinersPart /\ CountsPart /\ TablePart /\ SumsPart
  BY DEF ConnInv
<1>2. PICK n : MoveStep(c, n) /\ KeepsRoute(miners[c], n)
  BY <1>1, ReadyRequestSteps
<1>3. CASE refused = FALSE
  <2>1. totals' = totals /\ table' = table
    BY <1>3 DEF ReadyRequest
  <2> QED BY <1>2, <2>1, QuietSteps
<1>4. CASE refused = TRUE
  <2>1. /\ totals' = [totals EXCEPT !.invalid = totals.invalid + 1]
        /\ table' = workersReject(table, c)
    BY <1>4 DEF ReadyRequest
  <2>2. MinersPart' /\ CountsPart' /\ NamesKept /\ CountedKept
    BY <1>1, <1>2, MoveStepKeeps
  <2>3. serving' = serving /\ listed' = listed
    BY <1>2 DEF MoveStep
  <2>4. /\ totals' \in TotalsType /\ totals'.connections = Cardinality(listed')
        /\ totals'.hashrate = totals.hashrate /\ totals'.invalid = totals.invalid + 1
    <3>1. PICK t, s : t = totals /\ s = totals'
      OBVIOUS
    <3>2. t \in TotalsType /\ t.connections = Cardinality(listed)
      BY <1>1, <3>1 DEF SumsPart
    <3>3. PICK x \in Nat : x = t.invalid + 1
      BY <3>2 DEF TotalsType
    <3>4. s = [t EXCEPT !.invalid = x]
      BY <2>1, <3>1, <3>3
    <3>5. /\ s \in TotalsType /\ s.connections = t.connections /\ s.hashrate = t.hashrate
          /\ s.invalid = x
      BY <3>2, <3>4 DEF TotalsType
    <3> QED BY <2>3, <3>1, <3>2, <3>3, <3>5
  <2>5. PICK t1 : t1 = table'
    OBVIOUS
  <2>6. \/ t1 = table
        \/ \E w, m : RejectedBy(t1, w, m)
    BY <1>1, <2>1, <2>5, RejectTable
  <2>7. CASE t1 = table
    <3>1. TablePart'
      BY <1>1, <2>2, <2>3, <2>5, <2>7, SameTableKeeps
    <3>2. SumsPart'
      <4>1. PICK l, t, s : l = table.list /\ t = totals /\ s = totals'
        OBVIOUS
      <4>2. HashSum(l) <= t.hashrate.pending + t.hashrate.data /\ InvalidSum(l) <= t.invalid
        BY <1>1, <4>1 DEF SumsPart
      <4>3. InvalidSum(l) \in Nat /\ t.invalid \in Nat
        BY <1>1, <4>1, TotalsNat
      <4>4. s.hashrate = t.hashrate /\ s.invalid = t.invalid + 1
        BY <2>4, <4>1
      <4>5. HashSum(l) <= s.hashrate.pending + s.hashrate.data /\ InvalidSum(l) <= s.invalid
        BY <4>2, <4>3, <4>4
      <4>6. table'.list = l
        BY <2>5, <2>7, <4>1
      <4> QED BY <2>4, <4>1, <4>5, <4>6 DEF SumsPart, HashSum, InvalidSum, Hashes, Invalids
    <3> QED BY <2>2, <3>1, <3>2 DEF ConnInv
  <2>8. ASSUME NEW w, NEW m, RejectedBy(t1, w, m) PROVE ConnInv'
    <3>1. /\ Updated(table', w, m) /\ m.connections = table.list[w].connections
          /\ m.invalid = table.list[w].invalid + 1 /\ m.hashrate = table.list[w].hashrate
      BY <2>5, <2>8 DEF RejectedBy
    <3>2. TablePart'
      BY <1>1, <2>2, <2>3, <3>1, UpdatedKeeps
    <3>3. SumsPart'
      <4>1. PICK d, e \in Nat : d = 0 /\ e = 1
        OBVIOUS
      <4>2. /\ w \in DOMAIN table.list /\ m \in WorkerType
            /\ table'.list = [table.list EXCEPT ![w] = m]
        BY <3>1 DEF Updated
      <4>3. m.hashrate.pending + m.hashrate.data
               = (table.list[w].hashrate.pending + table.list[w].hashrate.data) + d
        <5>1. PICK g : g = m.hashrate
          OBVIOUS
        <5>2. g \in TickingType
          BY <4>2, <5>1 DEF WorkerType
        <5>3. g.pending \in Nat /\ g.data \in Nat
          BY <5>2 DEF TickingType
        <5>4. table.list[w].hashrate = g
          BY <3>1, <5>1
        <5>5. g.pending + g.data = (g.pending + g.data) + d
          BY <4>1, <5>3
        <5> QED BY <5>1, <5>4, <5>5
      <4>4. totals'.hashrate.pending + totals'.hashrate.data
               = (totals.hashrate.pending + totals.hashrate.data) + d
        <5>1. PICK g : g = totals.hashrate
          OBVIOUS
        <5>2. g.pending \in Nat /\ g.data \in Nat
          BY <1>1, <5>1, TotalsNat
        <5>3. g.pending + g.data = (g.pending + g.data) + d
          BY <4>1, <5>2
        <5>4. totals'.hashrate = g
          BY <2>4, <5>1
        <5> QED BY <5>1, <5>3, <5>4
      <4>5. m.invalid = table.list[w].invalid + e /\ totals'.invalid = totals.invalid + e
        BY <2>4, <3>1, <4>1
      <4>6. GrowsBy(w, m, d, e)
        BY <2>4, <4>2, <4>3, <4>4, <4>5 DEF GrowsBy
      <4> QED BY <1>1, <4>6, SumsGrow
    <3> QED BY <2>2, <3>2, <3>3 DEF ConnInv
  <2> QED BY <2>6, <2>7, <2>8
<1> QED BY <1>3, <1>4

(***************************************************************************)
(* The outcome of a share                                                  *)
(***************************************************************************)

\* Whether a share counts at all: one between the custom and the network
\* difficulty does so with custom-diff-stats only.
Counts(r) == ~(r.custom /\ ~serving.customStats)

\* A worker that had a share accepted, or refused by the pool, becomes n.
ResultOf(t1, w, n, d) ==
    /\ Updated(t1, w, n) /\ n.connections = table.list[w].connections
    /\ n.invalid = table.list[w].invalid
    /\ n.hashrate.pending = table.list[w].hashrate.pending + d
    /\ n.hashrate.data = table.list[w].hashrate.data

LEMMA ResultTable ==
    ASSUME MinersPart, TablePart, NEW c \in MinerIds \cup {0}, NEW r,
           NEW t1, t1 = workersResult(table, c, r)
    PROVE  \/ t1 = table
           \/ r.outcome = "accepted" /\ Counts(r) /\ \E w, n : ResultOf(t1, w, n, 1)
           \/ \E w, n : ResultOf(t1, w, n, 0)
<1>1. PICK i : i = indexByMiner(table, c)
  OBVIOUS
<1>2. CASE ~serving.byWorker \/ ~Counts(r) \/ r.outcome = "ambiguous" \/ i = 0
  <2>1. t1 = table
    BY <1>1, <1>2, Zenon DEF workersResult, workersUpdate, Counts
  <2> QED BY <2>1
<1>3. CASE ~ (~serving.byWorker \/ ~Counts(r) \/ r.outcome = "ambiguous") /\ i # 0
  <2>1. i \in DOMAIN table.list /\ table.list[i] \in WorkerType
    BY <1>1, <1>3, IndexFound
  <2>2. PICK m, h : m = table.list[i] /\ h = m.hashrate
    OBVIOUS
  <2>3. m \in WorkerType /\ h \in TickingType
    BY <2>1, <2>2 DEF WorkerType
  <2>4. h.pending \in Nat /\ h.data \in Nat /\ m.accepted \in Nat /\ m.rejected \in Nat
    BY <2>3 DEF TickingType, WorkerType
  <2>5. CASE r.outcome = "accepted"
    <3>1. t1 = [table EXCEPT !.list[i] =
                   [m EXCEPT !.accepted = m.accepted + 1, !.hashrate = tickingAdd(h, 1)]]
      BY <1>1, <1>3, <2>2, <2>5 DEF workersResult, workersUpdate, Counts
    <3>2. PICK x, y \in Nat : x = m.accepted + 1 /\ y = h.pending + 1
      BY <2>4
    <3>3. PICK g : g = tickingAdd(h, 1)
      OBVIOUS
    <3>4. g = [h EXCEPT !.pending = y]
      BY <3>2, <3>3 DEF tickingAdd
    <3>5. g \in TickingType /\ g.pending = y /\ g.data = h.data
      BY <2>3, <3>4 DEF TickingType
    <3>6. PICK n : n = [m EXCEPT !.accepted = x, !.hashrate = g]
      OBVIOUS
    <3>7. /\ n \in WorkerType /\ n.name = m.name /\ n.connections = m.connections
          /\ n.invalid = m.invalid /\ n.hashrate = g
      BY <2>3, <3>5, <3>6 DEF WorkerType
    <3>8. t1 = [table EXCEPT !.list[i] = n]
      BY <3>1, <3>2, <3>3, <3>6
    <3>9. t1 = [map |-> table.map, list |-> [table.list EXCEPT ![i] = n], of |-> table.of]
      BY <3>8, TableWith
    <3>10. Updated(t1, i, n)
      BY <2>1, <2>2, <3>7, <3>9 DEF Updated
    <3>11. ResultOf(t1, i, n, 1)
      BY <2>2, <3>2, <3>5, <3>7, <3>10 DEF ResultOf
    <3> QED BY <1>3, <2>5, <3>11
  <2>6. CASE r.outcome # "accepted"
    <3>1. t1 = [table EXCEPT !.list[i] = [m EXCEPT !.rejected = m.rejected + 1]]
      BY <1>1, <1>3, <2>2, <2>6 DEF workersResult, workersUpdate, Counts
    <3>2. PICK x \in Nat : x = m.rejected + 1
      BY <2>4
    <3>3. PICK n : n = [m EXCEPT !.rejected = x]
      OBVIOUS
    <3>4. /\ n \in WorkerType /\ n.name = m.name /\ n.connections = m.connections
          /\ n.invalid = m.invalid /\ n.hashrate = h
      BY <2>2, <2>3, <3>3 DEF WorkerType
    <3>5. t1 = [table EXCEPT !.list[i] = n]
      BY <3>1, <3>2, <3>3
    <3>6. t1 = [map |-> table.map, list |-> [table.list EXCEPT ![i] = n], of |-> table.of]
      BY <3>5, TableWith
    <3>7. Updated(t1, i, n)
      BY <2>1, <2>2, <3>4, <3>6 DEF Updated
    <3>8. h.pending = h.pending + 0
      BY <2>4
    <3>9. ResultOf(t1, i, n, 0)
      BY <2>2, <3>4, <3>7, <3>8 DEF ResultOf
    <3> QED BY <3>9
  <2> QED BY <2>5, <2>6
<1> QED BY <1>2, <1>3

\* Stats counts at least what Workers counts of a share.
LEMMA ResultTotals ==
    ASSUME NEW t \in TotalsType, NEW r, NEW s, s = statsResult(t, r)
    PROVE  /\ s \in TotalsType /\ s.connections = t.connections /\ s.invalid = t.invalid
           /\ s.hashrate.data = t.hashrate.data
           /\ s.hashrate.pending = t.hashrate.pending \/ s.hashrate.pending = t.hashrate.pending + 1
           /\ r.outcome = "accepted" /\ Counts(r) => s.hashrate.pending = t.hashrate.pending + 1
<1>1. PICK h : h = t.hashrate
  OBVIOUS
<1>2. h \in TickingType /\ t.accepted \in Nat /\ t.rejected \in Nat
  BY <1>1 DEF TotalsType
<1>3. h.pending \in Nat /\ h.data \in Nat
  BY <1>2 DEF TickingType
<1>4. CASE r.outcome = "accepted" /\ Counts(r)
  <2>1. PICK x \in Nat : x = IF r.custom THEN t.accepted ELSE t.accepted + 1
    <3>1. t.accepted + 1 \in Nat
      BY <1>2
    <3>2. (IF r.custom THEN t.accepted ELSE t.accepted + 1) \in {t.accepted, t.accepted + 1}
      OBVIOUS
    <3> QED BY <1>2, <3>1, <3>2
  <2>2. PICK y \in Nat : y = h.pending + 1
    BY <1>3
  <2>3. PICK g : g = tickingAdd(h, 1)
    OBVIOUS
  <2>4. g = [h EXCEPT !.pending = y]
    BY <2>2, <2>3 DEF tickingAdd
  <2>5. g \in TickingType /\ g.pending = y /\ g.data = h.data
    BY <1>2, <2>4 DEF TickingType
  <2>6. s = [t EXCEPT !.hashrate = tickingAdd(t.hashrate, 1),
                      !.accepted = IF r.custom THEN t.accepted ELSE t.accepted + 1]
    BY <1>4, Zenon DEF statsResult, Counts
  <2>7. s = [t EXCEPT !.hashrate = g, !.accepted = x]
    BY <1>1, <2>1, <2>3, <2>6
  <2>8. /\ s \in TotalsType /\ s.connections = t.connections /\ s.invalid = t.invalid
        /\ s.hashrate = g
    BY <2>5, <2>7 DEF TotalsType
  <2> QED BY <1>1, <2>2, <2>5, <2>8
<1>5. CASE ~ (r.outcome = "accepted" /\ Counts(r))
  <2>1. PICK x \in Nat : x = t.rejected + 1
    BY <1>2
  <2>2. s = t \/ s = [t EXCEPT !.rejected = t.rejected + 1]
    BY <1>5, Zenon DEF statsResult, Counts
  <2>3. s = t \/ s = [t EXCEPT !.rejected = x]
    BY <2>1, <2>2
  <2>4. /\ s \in TotalsType /\ s.connections = t.connections /\ s.invalid = t.invalid
        /\ s.hashrate = t.hashrate
    BY <2>3 DEF TotalsType
  <2> QED BY <1>5, <2>4
<1> QED BY <1>4, <1>5

LEMMA MinersUnchanged ==
    ASSUME MinersPart, CountsPart, UNCHANGED <<serving, miners, listed, counters>>
    PROVE  MinersPart' /\ CountsPart' /\ NamesKept /\ CountedKept
<1>1. /\ serving' = serving /\ miners' = miners /\ listed' = listed /\ counters' = counters
  OBVIOUS
<1>2. ServingOK' /\ \A c \in MinerIds : MinerOK(miners[c])'
  <2>1. ServingOK'
    BY <1>1 DEF MinersPart, ServingOK
  <2>2. ASSUME NEW c \in MinerIds PROVE MinerOK(miners[c])'
    <3>1. MinerOK(miners[c])
      BY DEF MinersPart
    <3> QED BY <1>1, <3>1 DEF MinerOK
  <2> QED BY <2>1, <2>2
<1>3. MinersPart'
  BY <1>1, <1>2 DEF MinersPart
<1>4. CountsPart'
  BY <1>1 DEF CountsPart, ReadySet
<1>5. NamesKept
  BY <1>1 DEF NamesKept
<1>6. CountedKept
  BY <1>1 DEF CountedKept, InWorkers
<1> QED BY <1>3, <1>4, <1>5, <1>6

\* One worker grows by d hashes, and the totals by no less.
Reaches(w, n, d) ==
    /\ w \in DOMAIN table.list /\ n \in WorkerType /\ d \in Nat
    /\ table'.list = [table.list EXCEPT ![w] = n]
    /\ n.hashrate.pending + n.hashrate.data
         = (table.list[w].hashrate.pending + table.list[w].hashrate.data) + d
    /\ n.invalid = table.list[w].invalid
    /\ totals' \in TotalsType /\ totals'.connections = Cardinality(listed')
    /\ totals'.hashrate.pending + totals'.hashrate.data
         >= (totals.hashrate.pending + totals.hashrate.data) + d
    /\ totals'.invalid = totals.invalid

LEMMA SumsReach ==
    ASSUME SumsPart, TablePart, NEW w, NEW n, NEW d, Reaches(w, n, d)
    PROVE  SumsPart'
<1> USE DEF Reaches
<1>1. PICK l, k, t, s : l = table.list /\ k = table'.list /\ t = totals /\ s = totals'
  OBVIOUS
<1>2. HashSum(l) <= t.hashrate.pending + t.hashrate.data /\ InvalidSum(l) <= t.invalid
  BY <1>1 DEF SumsPart
<1>3. l \in Seq(WorkerType)
  BY <1>1 DEF TablePart
<1>4. PICK e \in Nat : e = 0
  OBVIOUS
<1>5. HashSum(k) = HashSum(l) + d /\ InvalidSum(k) = InvalidSum(l) + e
  <2>1. w \in DOMAIN l /\ n \in WorkerType /\ k = [l EXCEPT ![w] = n]
    BY <1>1
  <2>2. /\ n.hashrate.pending + n.hashrate.data
             = (l[w].hashrate.pending + l[w].hashrate.data) + d
        /\ n.invalid = l[w].invalid
    BY <1>1
  <2>3. l[w].invalid = l[w].invalid + e
    <3>1. PICK y : y = l[w]
      OBVIOUS
    <3>2. y \in WorkerType
      BY <1>3, <2>1, <3>1
    <3>3. y.invalid \in Nat
      BY <3>2 DEF WorkerType
    <3> QED BY <1>4, <3>1, <3>3
  <2>4. Grows(l, k, w, n, d, e)
    BY <1>3, <2>1, <2>2, <2>3 DEF Grows
  <2> QED BY <2>4, SumsUpdated DEF SumsGrown
<1>6. HashSum(l) \in Nat /\ InvalidSum(l) \in Nat
  BY <1>3, SumsTyped
<1>7. t.hashrate.pending \in Nat /\ t.hashrate.data \in Nat /\ t.invalid \in Nat
  BY <1>1, TotalsNat
<1>8. /\ s.hashrate.pending + s.hashrate.data >= (t.hashrate.pending + t.hashrate.data) + d
      /\ s.invalid = t.invalid
  BY <1>1
<1>9. s.hashrate.pending \in Nat /\ s.hashrate.data \in Nat
  <2>1. PICK g : g = s.hashrate
    OBVIOUS
  <2>2. s \in TotalsType
    BY <1>1
  <2>3. g \in TickingType
    BY <2>1, <2>2 DEF TotalsType
  <2> QED BY <2>1, <2>3 DEF TickingType
<1>10. HashSum(k) <= s.hashrate.pending + s.hashrate.data /\ InvalidSum(k) <= s.invalid
  <2>1. PICK a, b, x, y, z, v \in Nat :
           /\ a = HashSum(k) /\ b = HashSum(l) /\ x = t.hashrate.pending /\ y = t.hashrate.data
           /\ z = s.hashrate.pending /\ v = s.hashrate.data
    <3>1. HashSum(k) \in Nat
      BY <1>5, <1>6
    <3> QED BY <1>6, <1>7, <1>9, <3>1
  <2>2. a = b + d /\ b <= x + y /\ z + v >= (x + y) + d
    BY <1>2, <1>5, <1>8, <2>1
  <2>3. a <= z + v
    BY <2>1, <2>2
  <2>4. InvalidSum(k) = InvalidSum(l)
    BY <1>4, <1>5, <1>6
  <2> QED BY <1>2, <1>8, <2>1, <2>3, <2>4
<1> QED BY <1>1, <1>10 DEF SumsPart, HashSum, InvalidSum, Hashes, Invalids

LEMMA ShareResultKeeps ==
    ASSUME ConnInv, NEW c \in MinerIds \cup {0}, NEW r, ShareResult(c, r)
    PROVE  ConnInv'
<1>1. MinersPart /\ CountsPart /\ TablePart /\ SumsPart
  BY DEF ConnInv
<1>2. /\ UNCHANGED <<serving, miners, listed, counters>>
      /\ totals' = statsResult(totals, r) /\ table' = workersResult(table, c, r)
  BY DEF ShareResult
<1>3. MinersPart' /\ CountsPart' /\ NamesKept /\ CountedKept
  BY <1>1, <1>2, MinersUnchanged
<1>4. serving' = serving /\ listed' = listed
  BY <1>2
<1>5. PICK t, s, t1 : t = totals /\ s = totals' /\ t1 = table'
  OBVIOUS
<1>6. t \in TotalsType /\ t.connections = Cardinality(listed)
  BY <1>1, <1>5 DEF SumsPart
<1>7. /\ s \in TotalsType /\ s.connections = t.connections /\ s.invalid = t.invalid
      /\ s.hashrate.data = t.hashrate.data
      /\ s.hashrate.pending = t.hashrate.pending \/ s.hashrate.pending = t.hashrate.pending + 1
      /\ r.outcome = "accepted" /\ Counts(r) => s.hashrate.pending = t.hashrate.pending + 1
  BY <1>2, <1>5, <1>6, ResultTotals
<1>8. \/ t1 = table
      \/ r.outcome = "accepted" /\ Counts(r) /\ \E w, n : ResultOf(t1, w, n, 1)
      \/ \E w, n : ResultOf(t1, w, n, 0)
  BY <1>1, <1>2, <1>5, ResultTable
<1>9. t.hashrate.pending \in Nat /\ t.hashrate.data \in Nat
  BY <1>1, <1>5, TotalsNat
<1>10. CASE t1 = table
  <2>1. TablePart'
    BY <1>1, <1>3, <1>4, <1>5, <1>10, SameTableKeeps
  <2>2. SumsPart'
    <3>1. PICK l : l = table.list
      OBVIOUS
    <3>2. HashSum(l) <= t.hashrate.pending + t.hashrate.data /\ InvalidSum(l) <= t.invalid
      BY <1>1, <1>5, <3>1 DEF SumsPart
    <3>3. HashSum(l) \in Nat
      BY <1>1, <3>1, TotalsNat
    <3>4. HashSum(l) <= s.hashrate.pending + s.hashrate.data
      <4>1. PICK a, x, y \in Nat : a = HashSum(l) /\ x = t.hashrate.pending /\ y = t.hashrate.data
        BY <1>9, <3>3
      <4>2. a <= x + y /\ (s.hashrate.pending = x \/ s.hashrate.pending = x + 1)
            /\ s.hashrate.data = y
        BY <1>7, <3>2, <4>1
      <4> QED BY <4>1, <4>2
    <3>5. table'.list = l /\ InvalidSum(l) <= s.invalid
      BY <1>5, <1>7, <1>10, <3>1, <3>2
    <3>6. totals' \in TotalsType /\ totals'.connections = Cardinality(listed')
      BY <1>4, <1>5, <1>6, <1>7
    <3> QED BY <1>5, <3>4, <3>5, <3>6 DEF SumsPart, HashSum, InvalidSum, Hashes, Invalids
  <2> QED BY <1>3, <2>1, <2>2 DEF ConnInv
<1>11. ASSUME NEW w, NEW n, NEW d \in {0, 1}, ResultOf(t1, w, n, d),
              s.hashrate.pending = t.hashrate.pending + d \/ s.hashrate.pending = t.hashrate.pending + 1
       PROVE  ConnInv'
  <2>1. /\ Updated(table', w, n) /\ n.connections = table.list[w].connections
        /\ n.invalid = table.list[w].invalid
        /\ n.hashrate.pending = table.list[w].hashrate.pending + d
        /\ n.hashrate.data = table.list[w].hashrate.data
    BY <1>5, <1>11 DEF ResultOf
  <2>2. TablePart'
    BY <1>1, <1>3, <1>4, <2>1, UpdatedKeeps
  <2>3. /\ w \in DOMAIN table.list /\ n \in WorkerType
        /\ table'.list = [table.list EXCEPT ![w] = n]
    BY <2>1 DEF Updated
  <2>4. n.hashrate.pending + n.hashrate.data
          = (table.list[w].hashrate.pending + table.list[w].hashrate.data) + d
    <3>1. PICK y, g : y = table.list[w] /\ g = y.hashrate
      OBVIOUS
    <3>2. y \in WorkerType
      BY <1>1, <2>3, <3>1 DEF TablePart
    <3>3. g \in TickingType
      BY <3>1, <3>2 DEF WorkerType
    <3>4. g.pending \in Nat /\ g.data \in Nat
      BY <3>3 DEF TickingType
    <3>5. n.hashrate.pending = g.pending + d /\ n.hashrate.data = g.data
      BY <2>1, <3>1
    <3>6. n.hashrate.pending + n.hashrate.data = (g.pending + g.data) + d
      BY <3>4, <3>5
    <3> QED BY <3>1, <3>6
  <2>5. s.hashrate.pending + s.hashrate.data >= (t.hashrate.pending + t.hashrate.data) + d
    <3>1. PICK x, y \in Nat : x = t.hashrate.pending /\ y = t.hashrate.data
      BY <1>9
    <3>2. (s.hashrate.pending = x + d \/ s.hashrate.pending = x + 1) /\ s.hashrate.data = y
      BY <1>7, <1>11, <3>1
    <3>3. s.hashrate.pending + s.hashrate.data >= (x + y) + d
      BY <3>1, <3>2
    <3> QED BY <3>1, <3>3
  <2>6. Reaches(w, n, d)
    BY <1>4, <1>5, <1>6, <1>7, <2>1, <2>3, <2>4, <2>5 DEF Reaches
  <2>7. SumsPart'
    BY <1>1, <2>6, SumsReach
  <2> QED BY <1>3, <2>2, <2>7 DEF ConnInv
<1>12. t.hashrate.pending + 0 = t.hashrate.pending
  BY <1>9
<1> QED BY <1>7, <1>8, <1>10, <1>11, <1>12

\* What a tick moves is added up already.
LEMMA TickedIs ==
    ASSUME NEW h \in TickingType, NEW g, g = ticked(h)
    PROVE  g \in TickingType /\ g.pending + g.data = h.pending + h.data
<1>1. h.pending \in Nat /\ h.data \in Nat
  BY DEF TickingType
<1>2. PICK x \in Nat : x = h.data + h.pending
  BY <1>1
<1>3. g = [pending |-> 0, data |-> x]
  BY <1>2 DEF ticked
<1>4. g \in TickingType /\ g.pending = 0 /\ g.data = x
  BY <1>3 DEF TickingType
<1> QED BY <1>1, <1>2, <1>4

\* The workers of k are those of l, after a tick.
TickedList(l, k) ==
    /\ DOMAIN k = DOMAIN l /\ k \in Seq(WorkerType)
    /\ \A w \in DOMAIN l :
         /\ k[w].name = l[w].name /\ k[w].connections = l[w].connections
         /\ k[w].invalid = l[w].invalid
         /\ k[w].hashrate.pending + k[w].hashrate.data = l[w].hashrate.pending + l[w].hashrate.data

LEMMA TickedWorkers ==
    ASSUME NEW l \in Seq(WorkerType), NEW k,
           k = [w \in DOMAIN l |-> [l[w] EXCEPT !.hashrate = ticked(l[w].hashrate)]]
    PROVE  TickedList(l, k)
<1>1. DOMAIN l = 1..Len(l) /\ Len(l) \in Nat
  OBVIOUS
<1>2. DOMAIN k = DOMAIN l
  OBVIOUS
<1>3. ASSUME NEW w \in DOMAIN l
      PROVE  /\ k[w] \in WorkerType /\ k[w].name = l[w].name /\ k[w].connections = l[w].connections
             /\ k[w].invalid = l[w].invalid
             /\ k[w].hashrate.pending + k[w].hashrate.data = l[w].hashrate.pending + l[w].hashrate.data
  <2>1. PICK m, h, g, n : m = l[w] /\ h = m.hashrate /\ g = ticked(h) /\ n = [m EXCEPT !.hashrate = g]
    OBVIOUS
  <2>2. m \in WorkerType
    BY <2>1
  <2>3. h \in TickingType
    BY <2>1, <2>2 DEF WorkerType
  <2>4. g \in TickingType /\ g.pending + g.data = h.pending + h.data
    BY <2>1, <2>3, TickedIs
  <2>5. /\ n \in WorkerType /\ n.name = m.name /\ n.connections = m.connections
        /\ n.invalid = m.invalid /\ n.hashrate = g
    BY <2>1, <2>2, <2>4 DEF WorkerType
  <2>6. k[w] = n
    BY <2>1
  <2> QED BY <2>1, <2>4, <2>5, <2>6
<1>4. k \in [1..Len(l) -> WorkerType]
  BY <1>1, <1>2, <1>3
<1>5. k \in Seq(WorkerType)
  BY <1>1, <1>4
<1> QED BY <1>2, <1>3, <1>5 DEF TickedList

LEMMA TickedSums ==
    ASSUME NEW l, NEW k, TickedList(l, k)
    PROVE  SameSums(k, l)
<1>1. Hashes(k) = Hashes(l)
  BY DEF Hashes, TickedList
<1>2. Invalids(k) = Invalids(l)
  BY DEF Invalids, TickedList
<1> QED BY <1>1, <1>2 DEF SameSums, HashSum, InvalidSum

LEMMA HashrateTickKeeps ==
    ASSUME ConnInv, HashrateTick
    PROVE  ConnInv'
<1>1. MinersPart /\ CountsPart /\ TablePart /\ SumsPart
  BY DEF ConnInv
<1>2. /\ UNCHANGED <<serving, miners, listed, counters>>
      /\ totals' = statsTick(totals) /\ table' = workersTick(table)
  BY DEF HashrateTick
<1>3. MinersPart' /\ CountsPart' /\ NamesKept /\ CountedKept
  BY <1>1, <1>2, MinersUnchanged
<1>4. serving' = serving /\ listed' = listed
  BY <1>2
<1>5. PICK t, s, l, k : t = totals /\ s = totals' /\ l = table.list /\ k = table'.list
  OBVIOUS
<1>6. table' = [map |-> table.map, list |-> k, of |-> table.of] /\ TickedList(l, k)
  <2>1. PICK a, b : a = table.map /\ b = table.of
    OBVIOUS
  <2>2. table = [map |-> a, list |-> l, of |-> b] /\ l \in Seq(WorkerType)
    BY <1>1, <1>5, <2>1, TableFields DEF TablePart
  <2>3. PICK j : j = [w \in DOMAIN l |-> [l[w] EXCEPT !.hashrate = ticked(l[w].hashrate)]]
    OBVIOUS
  <2>4. table' = [table EXCEPT !.list = j]
    BY <1>2, <1>5, <2>3 DEF workersTick
  <2>5. table' = [map |-> a, list |-> j, of |-> b]
    BY <2>2, <2>4
  <2>6. k = j
    BY <1>5, <2>5
  <2>7. TickedList(l, j)
    BY <2>2, <2>3, TickedWorkers
  <2> QED BY <2>1, <2>5, <2>6, <2>7
<1>7. TablePart'
  <2>1. SameWorkers(table.list, table'.list) /\ table'.list \in Seq(WorkerType)
    BY <1>5, <1>6 DEF SameWorkers, TickedList
  <2> QED BY <1>1, <1>3, <1>4, <1>5, <1>6, <2>1, TableKept
<1>8. SumsPart'
  <2>1. t \in TotalsType /\ t.connections = Cardinality(listed)
    BY <1>1, <1>5 DEF SumsPart
  <2>2. PICK h, g : h = t.hashrate /\ g = ticked(h)
    OBVIOUS
  <2>3. h \in TickingType
    BY <2>1, <2>2 DEF TotalsType
  <2>4. g \in TickingType /\ g.pending + g.data = h.pending + h.data
    BY <2>2, <2>3, TickedIs
  <2>5. s = [t EXCEPT !.hashrate = g]
    BY <1>2, <1>5, <2>2 DEF statsTick
  <2>6. s \in TotalsType /\ s.connections = t.connections /\ s.invalid = t.invalid /\ s.hashrate = g
    BY <2>1, <2>4, <2>5 DEF TotalsType
  <2>7. HashSum(l) <= t.hashrate.pending + t.hashrate.data /\ InvalidSum(l) <= t.invalid
    BY <1>1, <1>5 DEF SumsPart
  <2>8. HashSum(k) = HashSum(l) /\ InvalidSum(k) = InvalidSum(l)
    BY <1>6, TickedSums DEF SameSums
  <2>9. HashSum(k) <= s.hashrate.pending + s.hashrate.data /\ InvalidSum(k) <= s.invalid
    BY <2>2, <2>4, <2>6, <2>7, <2>8
  <2>10. s \in TotalsType /\ s.connections = Cardinality(listed')
    BY <1>4, <2>1, <2>6
  <2> QED BY <1>5, <2>9, <2>10 DEF SumsPart, HashSum, InvalidSum, Hashes, Invalids
<1> QED BY <1>3, <1>7, <1>8 DEF ConnInv

LEMMA ConnectionsStutter ==
    ASSUME ConnInv, UNCHANGED connectionVars
    PROVE  ConnInv'
<1>1. MinersPart /\ CountsPart /\ TablePart /\ SumsPart
  BY DEF ConnInv
<1>2. UNCHANGED <<serving, miners, listed, counters>> /\ totals' = totals /\ table' = table
  BY DEF connectionVars
<1>3. MinersPart' /\ CountsPart' /\ NamesKept /\ CountedKept
  BY <1>1, <1>2, MinersUnchanged
<1>4. serving' = serving /\ listed' = listed
  BY <1>2
<1> QED BY <1>2, <1>3, <1>4, SilentSteps

(***************************************************************************)
(* The composition of the steps                                            *)
(***************************************************************************)

LEMMA SumOfNone ==
    ASSUME NEW f, DOMAIN f = {}
    PROVE  SumFunction(f) = 0
<1>1. PICK S : S = {}
  OBVIOUS
<1>2. IsFiniteSet(S) /\ DOMAIN f = S
  BY <1>1, FS_EmptySet
<1>3. PICK F : IsSum(F, SUBSET S, f) /\ SumFunction(f) = F[S]
  BY <1>2, SumOver
<1> QED BY <1>1, <1>3 DEF IsSum

\* Proxy::connect: servers, and nobody yet.
LEMMA ServingStarts ==
    ASSUME ConnectionsInit
    PROVE  ServingOK
<1>1. PICK s \in ProxySettings :
         serving = [servers |-> {h \in s.hosts : binds(s.tls, h)}, tls |-> s.tls,
                    verifier |-> s.verifier, diff |-> s.diff, donate |-> s.donate,
                    byWorker |-> s.byWorker, customStats |-> s.customStats]
  BY DEF ConnectionsInit
<1>2. /\ {s.tls, s.verifier, s.donate, s.byWorker, s.customStats} \subseteq BOOLEAN
      /\ s.diff \in Nat /\ \A h \in s.hosts : h.tls \in BOOLEAN
  BY ConnectionsAssumption
<1>3. /\ serving.tls = s.tls /\ serving.verifier = s.verifier /\ serving.diff = s.diff
      /\ serving.donate = s.donate /\ serving.byWorker = s.byWorker
      /\ serving.customStats = s.customStats
      /\ serving.servers = {h \in s.hosts : binds(s.tls, h)}
  BY <1>1
<1>4. {serving.tls, serving.verifier, serving.donate, serving.byWorker, serving.customStats}
         \subseteq BOOLEAN
  BY <1>2, <1>3
<1>5. ASSUME NEW h \in serving.servers
      PROVE  h.tls \in BOOLEAN /\ (h.tls = TRUE => serving.tls = TRUE)
  <2>1. h \in s.hosts /\ binds(s.tls, h)
    BY <1>3
  <2>2. h.tls \in BOOLEAN /\ s.tls \in BOOLEAN
    BY <1>2, <2>1
  <2>3. h.tls => s.tls
    BY <2>1 DEF binds
  <2> QED BY <1>3, <2>2, <2>3
<1> QED BY <1>2, <1>3, <1>4, <1>5 DEF ServingOK

\* Nobody is connected yet.
LEMMA NobodyYet ==
    ASSUME ServingOK, miners = [c \in MinerIds |-> NoMiner], listed = {},
           counters = NewCounters, totals = NewTotals, table = NewTable
    PROVE  ConnInv
<1>1. /\ miners = [c \in MinerIds |-> NoMiner] /\ listed = {} /\ counters = NewCounters
      /\ totals = NewTotals /\ table = NewTable
  OBVIOUS
<1>2. MinersPart
  <2>1. PICK n : n = NoMiner
    OBVIOUS
  <2>2. n \in MinerType /\ n.state = "none" /\ MinerOK(n)
    BY <2>1, NoMinerFields, GoneMinerOK
  <2>3. miners = [c \in MinerIds |-> n]
    BY <1>1, <2>1
  <2>4. miners \in [MinerIds -> MinerType] /\ \A c \in MinerIds : MinerOK(miners[c])
    BY <2>2, <2>3
  <2>5. listed = {c \in MinerIds : miners[c].state \notin {"none", "gone"}}
    BY <1>1, <2>2, <2>3
  <2> QED BY <2>4, <2>5 DEF MinersPart
<1>3. Cardinality({}) = 0
  BY FS_EmptySet
<1>4. CountsPart
  <2>1. ReadySet = {}
    <3>1. \A c \in MinerIds : miners[c].state = "none"
      BY <1>1, NoMinerFields
    <3> QED BY <3>1 DEF ReadySet
  <2> QED BY <1>1, <1>3, <2>1 DEF CountsPart, NewCounters
<1>5. table.map = <<>> /\ table.list = <<>> /\ table.of = <<>>
      /\ table = [map |-> table.map, list |-> table.list, of |-> table.of]
  BY <1>1 DEF NewTable
<1>6. DOMAIN table.map = {} /\ DOMAIN table.list = {} /\ DOMAIN table.of = {}
  BY <1>5
<1>7. \A c \in MinerIds : ~InWorkers(c)
  BY <1>1 DEF InWorkers
<1>8. table.list \in Seq(WorkerType)
  BY <1>5
<1>9. TablePart
  <2>1. TableOK
    BY <1>5, <1>6, <1>7 DEF TableOK
  <2> QED BY <1>6, <1>8, <2>1 DEF TablePart
<1>10. SumsPart
  <2>1. SumFunction(Hashes(table.list)) = 0 /\ SumFunction(Invalids(table.list)) = 0
    <3>1. DOMAIN Hashes(table.list) = {} /\ DOMAIN Invalids(table.list) = {}
      BY <1>6 DEF Hashes, Invalids
    <3> QED BY <3>1, SumOfNone
  <2>2. /\ totals.connections = 0 /\ totals.invalid = 0 /\ totals.hashrate.pending = 0
        /\ totals.hashrate.data = 0 /\ totals \in TotalsType
    BY <1>1 DEF NewTotals, NewTicking, TotalsType, TickingType
  <2> QED BY <1>1, <1>3, <2>1, <2>2 DEF SumsPart, HashSum, InvalidSum
<1> QED BY <1>2, <1>4, <1>9, <1>10 DEF ConnInv

LEMMA ConnectionsStart ==
    ASSUME ConnectionsInit
    PROVE  ConnInv
<1>1. ServingOK
  BY ServingStarts
<1>2. /\ miners = [c \in MinerIds |-> NoMiner] /\ listed = {}
      /\ counters = NewCounters /\ totals = NewTotals /\ table = NewTable
  BY DEF ConnectionsInit
<1> QED BY <1>1, <1>2, NobodyYet

\* The steps of one miner that leave Stats and Workers alone.
LEMMA OneMinerKeeps ==
    ASSUME ConnInv, NEW c \in MinerIds,
           \/ \E b \in {"json", "hello", "other"} : FirstBytes(c, b)
           \/ \E ok \in BOOLEAN : Handshake(c, ok)
           \/ \E eof \in BOOLEAN : ReadEnds(c, eof)
           \/ BadRequest(c) \/ SendJob(c) \/ ShutdownDone(c)
    PROVE  ConnInv'
<1>1. MinersPart /\ CountsPart
  BY DEF ConnInv
<1>2. ASSUME \E n : MoveStep(c, n) /\ KeepsRoute(miners[c], n), totals' = totals, table' = table
      PROVE  ConnInv'
  BY <1>2, QuietSteps
<1>3. ASSUME NEW b \in {"json", "hello", "other"}, FirstBytes(c, b) PROVE ConnInv'
  <2>1. totals' = totals /\ table' = table
    BY <1>3 DEF FirstBytes
  <2> QED BY <1>1, <1>2, <1>3, <2>1, FirstBytesSteps
<1>4. ASSUME NEW ok \in BOOLEAN, Handshake(c, ok) PROVE ConnInv'
  <2>1. totals' = totals /\ table' = table
    BY <1>4 DEF Handshake
  <2> QED BY <1>1, <1>2, <1>4, <2>1, HandshakeSteps
<1>5. ASSUME NEW eof \in BOOLEAN, ReadEnds(c, eof) PROVE ConnInv'
  <2>1. totals' = totals /\ table' = table
    BY <1>5 DEF ReadEnds
  <2> QED BY <1>1, <1>2, <1>5, <2>1, ReadEndsSteps
<1>6. ASSUME BadRequest(c) PROVE ConnInv'
  <2>1. totals' = totals /\ table' = table
    BY <1>6 DEF BadRequest
  <2> QED BY <1>1, <1>2, <1>6, <2>1, BadRequestSteps
<1>7. ASSUME SendJob(c) PROVE ConnInv'
  <2>1. totals' = totals /\ table' = table
    BY <1>7 DEF SendJob
  <2> QED BY <1>1, <1>2, <1>7, <2>1, SendJobSteps
<1>8. ASSUME ShutdownDone(c) PROVE ConnInv'
  <2>1. totals' = totals /\ table' = table
    BY <1>8 DEF ShutdownDone
  <2> QED BY <1>1, <1>2, <1>8, <2>1, ShutdownSteps
<1> QED BY <1>3, <1>4, <1>5, <1>6, <1>7, <1>8

LEMMA ConnectionsStep ==
    ASSUME ConnInv, ConnectionsNext
    PROVE  ConnInv'
<1>1. ASSUME NEW c \in MinerIds, NEW s \in serving.servers, Create(c, s) PROVE ConnInv'
  BY <1>1, CreateKeeps
<1>2. ASSUME NEW c \in MinerIds, AcceptFails(c) PROVE ConnInv'
  BY <1>2, AcceptFailsKeeps
<1>3. ASSUME NEW c \in MinerIds,
             \/ \E b \in {"json", "hello", "other"} : FirstBytes(c, b)
             \/ \E ok \in BOOLEAN : Handshake(c, ok)
             \/ \E eof \in BOOLEAN : ReadEnds(c, eof)
             \/ BadRequest(c) \/ SendJob(c) \/ ShutdownDone(c)
      PROVE  ConnInv'
  BY <1>3, OneMinerKeeps
<1>4. ASSUME NEW c \in MinerIds, NEW r \in MinerLogins, LoginRequest(c, r) PROVE ConnInv'
  BY <1>4, LoginKeeps
<1>5. ASSUME NEW c \in MinerIds, NEW refused \in BOOLEAN, ReadyRequest(c, refused) PROVE ConnInv'
  BY <1>5, ReadyRequestKeeps
<1>6. ASSUME NEW c \in MinerIds, SendJobFails(c) PROVE ConnInv'
  BY <1>6, SendJobFailsKeeps
<1>7. ASSUME NEW c \in MinerIds, CloseDone(c) PROVE ConnInv'
  BY <1>7, CloseDoneKeeps
<1>8. ASSUME NEW c \in MinerIds \cup {0}, NEW r \in Results, ShareResult(c, r) PROVE ConnInv'
  BY <1>8, ShareResultKeeps
<1>9. ASSUME MinersTick PROVE ConnInv'
  BY <1>9, MinersTickKeeps
<1>10. ASSUME HashrateTick PROVE ConnInv'
  BY <1>10, HashrateTickKeeps
<1> QED BY <1>1, <1>2, <1>3, <1>4, <1>5, <1>6, <1>7, <1>8, <1>9, <1>10 DEF ConnectionsNext

LEMMA CountsTrue ==
    ASSUME ConnInv
    PROVE  ConnectionCounts
<1>1. MinersPart /\ CountsPart /\ TablePart /\ SumsPart
  BY DEF ConnInv
<1>2. /\ counters.miners = Cardinality({c \in MinerIds : miners[c].state = "Ready"})
      /\ counters.maxMiners >= counters.miners
      /\ counters.connections = Cardinality(listed)
      /\ totals.connections = Cardinality(listed)
      /\ listed = {c \in MinerIds : miners[c].state \notin {"none", "gone"}}
  BY <1>1 DEF MinersPart, CountsPart, SumsPart, ReadySet
<1>3. ASSUME NEW name
      PROVE  Holders(name) = {c \in listed : miners[c].mapper /\ ~miners[c].route
                                               /\ miners[c].login = name}
  <2>1. listed \subseteq MinerIds
    BY <1>2
  <2>2. \A c \in MinerIds : miners[c].mapper \in BOOLEAN /\ miners[c].route \in BOOLEAN
    <3> TAKE c \in MinerIds
    <3>1. miners[c] \in MinerType
      BY <1>1 DEF MinersPart
    <3> QED BY <3>1 DEF MinerType
  <2>3. \A c \in MinerIds : (miners[c].mapper = TRUE <=> miners[c].mapper)
                            /\ (miners[c].route = FALSE <=> ~miners[c].route)
    BY <2>2
  <2> QED BY <2>1, <2>3 DEF Holders, InWorkers
<1>4. serving.byWorker =>
         \A w \in DOMAIN table.list :
            table.list[w].connections =
               Cardinality({c \in listed : miners[c].mapper /\ ~miners[c].route
                                             /\ miners[c].login = table.list[w].name})
  <2>1. serving.byWorker => serving.byWorker = TRUE
    BY <1>1 DEF MinersPart, ServingOK
  <2>2. serving.byWorker => \A w \in DOMAIN table.list :
            table.list[w].connections = Cardinality(Holders(table.list[w].name))
    BY <1>1, <2>1 DEF TablePart
  <2> QED BY <1>3, <2>2
<1> QED BY <1>2, <1>4, Zenon DEF ConnectionCounts

LEMMA AccountsTrue ==
    ASSUME ConnInv
    PROVE  MinersAccounted
<1>1. TableOK /\ SumsPart
  BY DEF ConnInv, TablePart
<1> QED BY <1>1, CountsTrue, AddsUp DEF MinersAccounted

LEMMA ServiceTrue ==
    ASSUME ConnInv
    PROVE  MinersServed
<1> SUFFICES ASSUME NEW c \in MinerIds, Served(c)
             PROVE  LET m == miners[c]
                    IN  /\ m.strict /\ m.login # "none" => m.rx = "tls"
                        /\ m.replies = IF m.state = "Ready" THEN 1 ELSE 0
                        /\ m.left >= 0
                        /\ serving.verifier /\ m.mapper /\ ~m.route =>
                             m.diff = serving.diff \/ (serving.diff > 0 /\ m.diff >= serving.diff)
  BY DEF MinersServed
<1>1. PICK m : m = miners[c]
  OBVIOUS
<1>2. MinerOK(m) /\ serving.verifier \in BOOLEAN
  BY <1>1 DEF ConnInv, MinersPart, ServingOK
<1>3. m.state \notin {"none", "gone", "Closing"}
  BY <1>1 DEF Served, Alive
<1>4. m.strict \in BOOLEAN /\ m.mapper \in BOOLEAN /\ m.route \in BOOLEAN
  BY <1>2 DEF MinerOK, MinerType
<1>5. /\ m.strict = TRUE => m.rx # "plain"
      /\ m.login # "none" => m.rx \in {"plain", "tls"}
      /\ m.replies = IF m.state = "Ready" THEN 1 ELSE 0
      /\ m.left >= 0
      /\ serving.verifier = TRUE /\ m.mapper = TRUE /\ m.route = FALSE =>
           m.diff = serving.diff \/ (serving.diff > 0 /\ m.diff >= serving.diff)
  BY <1>2, <1>3 DEF MinerOK
<1>6. m.strict /\ m.login # "none" => m.rx = "tls"
  BY <1>4, <1>5
<1>7. serving.verifier /\ m.mapper /\ ~m.route =>
           m.diff = serving.diff \/ (serving.diff > 0 /\ m.diff >= serving.diff)
  BY <1>2, <1>4, <1>5
<1> QED BY <1>1, <1>5, <1>6, <1>7
=============================================================================
