------------------------- MODULE BlockTemplate_proofs -------------------------
(***************************************************************************)
(* Proofs about BlockTemplate: the block that is submitted is the one its  *)
(* miner hashed (BlockIsMined), for any number of transactions, miners and *)
(* templates, and coinbases of any fields.                                 *)
(*                                                                         *)
(* The root: a level of the code's tree is the row of tree_hash at that    *)
(* height, with the coinbase's hash at one place of it (LevelOK); climbing *)
(* a branch of one tree with the coinbase of another gives the root of the *)
(* other (RootsAgree).                                                     *)
(*                                                                         *)
(* The coinbase: whatever miners had the job before, a coinbase to be      *)
(* changed differs from the template's in its keys, its tag, its reserve   *)
(* and nothing else (PrefixOK), so that what a miner was told of and what  *)
(* submit makes are the same block (Mined).  BlockInv is the invariant.    *)
(***************************************************************************)
EXTENDS BlockTemplate, FiniteSetTheorems, SequenceTheorems, WellFoundedInduction, TLAPS

(***************************************************************************)
(* Induction over numbers                                                  *)
(***************************************************************************)

LEMMA LeastNumber ==
    ASSUME NEW S \in SUBSET Nat, S # {}
    PROVE  \E n \in S : \A m \in S : n <= m
<1> DEFINE less == OpToRel(<, Nat)
<1>1. less = {ss \in Nat \X Nat : ss[1] < ss[2]}
  BY DEF OpToRel
<1>2. IsWellFoundedOn(less, Nat)
  BY NatLessThanWellFounded
<1> HIDE DEF less
<1>3. PICK n \in S : \A m \in S : ~ (<<m, n>> \in less)
  BY <1>2, WFMin
<1>4. ASSUME NEW m \in S PROVE n <= m
  <2>1. m \in Nat /\ n \in Nat /\ ~ (<<m, n>> \in less)
    BY <1>3
  <2>2. ~ (m < n)
    BY <1>1, <2>1
  <2> QED BY <2>1, <2>2
<1> QED BY <1>4

\* Induction up to n: a set with 0 and with the successor of each of its numbers.
LEMMA UpTo ==
    ASSUME NEW n \in Nat, NEW S, 0 \in S, \A k \in 1..n : k - 1 \in S => k \in S
    PROVE  \A k \in 0..n : k \in S
<1> DEFINE Missing == {k \in 0..n : k \notin S}
<1>1. CASE Missing = {}
  BY <1>1
<1>2. CASE Missing # {}
  <2>0. Missing \in SUBSET Nat
    OBVIOUS
  <2>1. PICK k \in Missing : \A j \in Missing : k <= j
    <3> HIDE DEF Missing
    <3> QED BY <1>2, <2>0, LeastNumber
  <2>2. k \in 1..n /\ k - 1 \in 0..n /\ k - 1 \notin Missing
    BY <2>1
  <2> QED BY <2>1, <2>2
<1> QED BY <1>1, <1>2

\* A function that is defined by its value before.
Stepwise(f, n, A, a, g) ==
    f \in [0..n -> A] /\ f[0] = a /\ \A k \in 1..n : f[k] = g[k][f[k - 1]]

LEMMA StepwiseExists ==
    ASSUME NEW n \in Nat, NEW A, NEW a \in A, NEW g \in [1..n -> [A -> A]]
    PROVE  \E f : Stepwise(f, n, A, a, g)
<1> DEFINE Is(f, m) == f[0] = a /\ \A k \in 1..m : f[k] = g[k][f[k - 1]]
<1> DEFINE S == {m \in 0..n : \E f \in [0..n -> A] : Is(f, m)}
<1>1. 0 \in S
  <2> DEFINE f == [k \in 0..n |-> a]
  <2>1. f \in [0..n -> A] /\ f[0] = a /\ 0 \in 0..n /\ \A k \in 1..0 : FALSE
    OBVIOUS
  <2> HIDE DEF f
  <2>2. Is(f, 0)
    BY <2>1
  <2> QED BY <2>1, <2>2
<1>2. ASSUME NEW m \in 1..n, m - 1 \in S PROVE m \in S
  <2>1. PICK f \in [0..n -> A] : Is(f, m - 1)
    BY <1>2
  <2> DEFINE h == [f EXCEPT ![m] = g[m][f[m - 1]]]
  <2>2. m - 1 \in 0..n /\ m \in 0..n /\ f[m - 1] \in A
    OBVIOUS
  <2>3. g[m][f[m - 1]] \in A
    BY <2>2
  <2>4. h \in [0..n -> A] /\ h[m] = g[m][f[m - 1]] /\ \A k \in 0..n : k # m => h[k] = f[k]
    BY <2>2, <2>3
  <2> HIDE DEF h
  <2>5. h[0] = a
    BY <2>1, <2>4
  <2>6. ASSUME NEW k \in 1..m PROVE h[k] = g[k][h[k - 1]]
    <3>1. k \in 0..n /\ k - 1 \in 0..n /\ k - 1 # m /\ h[k - 1] = f[k - 1]
      BY <2>4
    <3>2. CASE k = m
      BY <2>4, <3>1, <3>2
    <3>3. CASE k # m
      BY <2>1, <2>4, <3>1, <3>3
    <3> QED BY <3>2, <3>3
  <2>7. Is(h, m)
    BY <2>5, <2>6
  <2> QED BY <2>2, <2>4, <2>7
<1> HIDE DEF S
<1>3. \A k \in 0..n : k \in S
  BY <1>1, <1>2, UpTo
<1>4. n \in S
  BY <1>3
<1> QED BY <1>4 DEF S, Stepwise

\* A sequence without repetitions.
Uniq(s) == \A i, j \in 1..Len(s) : s[i] = s[j] => i = j

(***************************************************************************)
(* Blocks: the root that is computed up a branch is that of the tree       *)
(***************************************************************************)

LEMMA PairsDiffer ==
    ASSUME NEW a, NEW b, NEW c, NEW d, Pair(a, b) = Pair(c, d)
    PROVE  a = c /\ b = d
<1>1. Pair(a, b).kids = <<a, b>> /\ Pair(c, d).kids = <<c, d>>
  BY DEF Pair
<1>2. <<a, b>> = <<c, d>>
  BY <1>1
<1>3. <<a, b>>[1] = a /\ <<c, d>>[1] = c /\ <<a, b>>[2] = b /\ <<c, d>>[2] = d
  OBVIOUS
<1> QED BY <1>2, <1>3

LEMMA PairHasKids == ASSUME NEW a, NEW b PROVE Pair(a, b).kids # <<>>
<1>1. Pair(a, b).kids = <<a, b>>
  BY DEF Pair
<1>2. Len(<<a, b>>) = 2 /\ Len(<<>>) = 0
  OBVIOUS
<1>3. <<a, b>> # <<>>
  BY <1>2
<1> QED BY <1>1, <1>3

\* The pair of hash x with its neighbour e.
Joined(bit, e, x) == IF bit = 1 THEN Pair(e, x) ELSE Pair(x, e)

\* The hashes on the way up a branch from y.
Climbs(u, y, branch, path) ==
    u = [d \in 0..Len(branch) |->
            IF d = 0 THEN y ELSE IF path[d] = 1 THEN Pair(branch[d], u[d - 1]) ELSE Pair(u[d - 1], branch[d])]

LEMMA ClimbEnds ==
    ASSUME NEW tx, NEW branch, NEW path, Len(branch) \in Nat, NEW u, Climbs(u, minerTxHash(tx), branch, path)
    PROVE  calculateRootHash(tx, branch, path) = u[Len(branch)]
<1> DEFINE n == Len(branch)
<1> DEFINE up[d \in 0..n] ==
      IF d = 0 THEN minerTxHash(tx) ELSE IF path[d] = 1 THEN Pair(branch[d], up[d - 1]) ELSE Pair(up[d - 1], branch[d])
<1>1. u = [d \in 0..n |->
              IF d = 0 THEN minerTxHash(tx) ELSE IF path[d] = 1 THEN Pair(branch[d], u[d - 1]) ELSE Pair(u[d - 1], branch[d])]
  BY DEF Climbs
<1>2. up = [d \in 0..n |->
              IF d = 0 THEN minerTxHash(tx) ELSE IF path[d] = 1 THEN Pair(branch[d], up[d - 1]) ELSE Pair(up[d - 1], branch[d])]
  BY <1>1
<1>3. calculateRootHash(tx, branch, path) = up[n]
  BY DEF calculateRootHash
<1> HIDE DEF up, n
<1>4. \A d \in 0..n : up[d] = u[d]
  <2> DEFINE S == {d \in 0..n : up[d] = u[d]}
  <2>1. 0 \in S
    <3>1. 0 \in 0..n
      BY DEF n
    <3> QED BY <1>1, <1>2, <3>1
  <2>2. ASSUME NEW d \in 1..n, d - 1 \in S PROVE d \in S
    <3>1. d \in 0..n /\ d # 0 /\ up[d - 1] = u[d - 1]
      BY <2>2 DEF n
    <3>2. u[d] = IF path[d] = 1 THEN Pair(branch[d], u[d - 1]) ELSE Pair(u[d - 1], branch[d])
      BY <1>1, <3>1
    <3>3. up[d] = IF path[d] = 1 THEN Pair(branch[d], up[d - 1]) ELSE Pair(up[d - 1], branch[d])
      BY <1>2, <3>1
    <3> QED BY <3>1, <3>2, <3>3
  <2>3. n \in Nat
    BY DEF n
  <2> HIDE DEF S
  <2>4. \A d \in 0..n : d \in S
    BY <2>1, <2>2, <2>3, UpTo
  <2> QED BY <2>4 DEF S
<1> QED BY <1>3, <1>4 DEF n

LEMMA ClimbOn ==
    ASSUME NEW A, NEW B, NEW branch \in Seq(A), NEW path \in Seq(B), Len(path) = Len(branch), NEW y, NEW u,
           Climbs(u, y, branch, path), NEW e \in A, NEW bit \in B
    PROVE  \E v : /\ Climbs(v, y, Append(branch, e), Append(path, bit))
                  /\ v[Len(branch) + 1] = Joined(bit, e, u[Len(branch)])
<1> DEFINE n == Len(branch)
<1> DEFINE b == Append(branch, e)
<1> DEFINE p == Append(path, bit)
<1>0. n \in Nat /\ Len(b) = n + 1 /\ b[n + 1] = e /\ p[n + 1] = bit
      /\ \A d \in 1..n : b[d] = branch[d] /\ p[d] = path[d]
  OBVIOUS
<1>1. u = [d \in 0..n |-> IF d = 0 THEN y ELSE IF path[d] = 1 THEN Pair(branch[d], u[d - 1]) ELSE Pair(u[d - 1], branch[d])]
  BY DEF Climbs
<1> HIDE DEF n, b, p
<1> DEFINE last == IF bit = 1 THEN Pair(e, u[n]) ELSE Pair(u[n], e)
<1> DEFINE v == [d \in 0..(n + 1) |-> IF d = n + 1 THEN last ELSE u[d]]
<1>2. v[n + 1] = last /\ \A d \in 0..n : v[d] = u[d]
  BY <1>0
<1>3. ASSUME NEW d \in 0..(n + 1)
      PROVE  v[d] = IF d = 0 THEN y ELSE IF p[d] = 1 THEN Pair(b[d], v[d - 1]) ELSE Pair(v[d - 1], b[d])
  <2> HIDE DEF v
  <2>1. CASE d = n + 1
    <3>1. d # 0 /\ d - 1 = n /\ n \in 0..n
      BY <1>0, <2>1
    <3>2. v[d - 1] = u[n]
      BY <1>2, <3>1
    <3> QED BY <1>0, <1>2, <2>1, <3>1, <3>2
  <2>2. CASE d = 0
    <3>1. d \in 0..n
      BY <1>0, <2>2
    <3>2. u[d] = y
      BY <1>1, <2>2, <3>1
    <3> QED BY <1>2, <2>2, <3>1, <3>2
  <2>3. CASE d \in 1..n
    <3>1. d \in 0..n /\ d - 1 \in 0..n /\ d # 0
      BY <1>0, <2>3
    <3>2. u[d] = IF path[d] = 1 THEN Pair(branch[d], u[d - 1]) ELSE Pair(u[d - 1], branch[d])
      BY <1>1, <3>1
    <3>3. v[d] = u[d] /\ v[d - 1] = u[d - 1] /\ b[d] = branch[d] /\ p[d] = path[d]
      BY <1>0, <1>2, <2>3, <3>1
    <3> QED BY <3>1, <3>2, <3>3
  <2> QED BY <1>0, <2>1, <2>2, <2>3
<1>4. v = [d \in 0..(n + 1) |-> v[d]]
  OBVIOUS
<1> HIDE DEF v, last
<1>5. v = [d \in 0..(n + 1) |-> IF d = 0 THEN y ELSE IF p[d] = 1 THEN Pair(b[d], v[d - 1]) ELSE Pair(v[d - 1], b[d])]
  BY <1>3, <1>4
<1>6. Climbs(v, y, b, p)
  BY <1>0, <1>5 DEF Climbs
<1>7. v[n + 1] = IF bit = 1 THEN Pair(e, u[n]) ELSE Pair(u[n], e)
  BY <1>2 DEF last
<1> QED BY <1>6, <1>7 DEF b, p, n, Joined

Bits == {0, 1}
TreeFields == {"hashes", "mine", "branch", "path"}

\* A row of the tree with the coinbase's hash as it was (t), and the row of the
\* tree that has y in its place (r): they differ in one place, which is reached
\* up the branch.  same: y is the coinbase's hash.
RowsMatch(t, r, y, p, m, same) ==
    /\ t.hashes[p] = t.mine /\ \A q \in 1..m : q # p => r[q] = t.hashes[q]
    /\ same = 1 => r[p] = t.mine
    /\ \E u : Climbs(u, y, t.branch, t.path) /\ u[Len(t.branch)] = r[p]

LevelOK(t, r, y, m, same) ==
    /\ DOMAIN t = TreeFields
    /\ t.hashes = [j \in 1..m |-> t.hashes[j]] /\ r = [j \in 1..m |-> r[j]] /\ Uniq(t.hashes)
    /\ \E A : t.branch \in Seq(A)
    /\ t.path \in Seq(Bits) /\ Len(t.path) = Len(t.branch)
    /\ \E p \in 1..m : RowsMatch(t, r, y, p, m, same)

LEMMA SeqWider == ASSUME NEW A, NEW s \in Seq(A), NEW e PROVE s \in Seq(A \cup {e})
OBVIOUS

LEMMA LongerBy ==
    ASSUME NEW A, NEW s \in Seq(A), NEW e \in A
    PROVE  Append(s, e) \in Seq(A) /\ Len(Append(s, e)) = Len(s) + 1
OBVIOUS

LEMMA LengthOf == ASSUME NEW m \in Nat, NEW s, s = [j \in 1..m |-> s[j]] PROVE Len(s) = m
<1> DEFINE A == {s[j] : j \in 1..m}
<1>1. s \in [1..m -> A]
  <2>1. \A j \in 1..m : s[j] \in A
    OBVIOUS
  <2> HIDE DEF A
  <2> QED BY <2>1
<1> HIDE DEF A
<1> QED BY <1>1

\* Pairs of different hashes are different, and no pair is a leaf.
LEMMA MergedUniq ==
    ASSUME NEW k \in Nat, NEW h \in Nat, NEW hs, hs = [j \in 1..(k + 2 * h) |-> hs[j]], Uniq(hs),
           \A j \in 1..k : hs[j].kids = <<>>,
           NEW next, next = [j \in 1..(k + h) |-> IF j <= k THEN hs[j] ELSE Pair(hs[2 * j - k - 1], hs[2 * j - k])]
    PROVE  Uniq(next)
<1>0. Len(hs) = k + 2 * h /\ Len(next) = k + h
  <2>1. k + 2 * h \in Nat /\ k + h \in Nat
    OBVIOUS
  <2>2. next = [j \in 1..(k + h) |-> next[j]]
    OBVIOUS
  <2> QED BY <2>1, <2>2, LengthOf
<1>1. \A i, j \in 1..(k + 2 * h) : hs[i] = hs[j] => i = j
  BY <1>0 DEF Uniq
<1>2. ASSUME NEW j \in 1..(k + h), ~ (j <= k)
      PROVE  /\ next[j] = Pair(hs[2 * j - k - 1], hs[2 * j - k]) /\ next[j].kids # <<>>
             /\ 2 * j - k - 1 \in 1..(k + 2 * h) /\ 2 * j - k \in 1..(k + 2 * h)
  <2>1. next[j] = Pair(hs[2 * j - k - 1], hs[2 * j - k])
    BY <1>2
  <2>2. next[j].kids # <<>>
    BY <2>1, PairHasKids
  <2>3. 2 * j - k - 1 \in 1..(k + 2 * h) /\ 2 * j - k \in 1..(k + 2 * h)
    <3>1. j \in Nat /\ k < j /\ j <= k + h
      BY <1>2
    <3> QED BY <3>1
  <2> QED BY <2>1, <2>2, <2>3
<1>3. ASSUME NEW j \in 1..(k + h), j <= k
      PROVE  j \in 1..k /\ j \in 1..(k + 2 * h) /\ next[j] = hs[j] /\ next[j].kids = <<>>
  <2>1. j \in 1..k /\ j \in 1..(k + 2 * h)
    BY <1>3
  <2>2. next[j] = hs[j]
    BY <1>3
  <2> QED BY <2>1, <2>2
<1>4. ASSUME NEW i \in 1..(k + h), NEW j \in 1..(k + h), next[i] = next[j] PROVE i = j
  <2>1. CASE i <= k /\ j <= k
    BY <1>1, <1>3, <1>4, <2>1
  <2>2. CASE i <= k /\ ~ (j <= k)
    BY <1>2, <1>3, <1>4, <2>2
  <2>3. CASE ~ (i <= k) /\ j <= k
    BY <1>2, <1>3, <1>4, <2>3
  <2>4. CASE ~ (i <= k) /\ ~ (j <= k)
    <3>1. Pair(hs[2 * i - k - 1], hs[2 * i - k]) = Pair(hs[2 * j - k - 1], hs[2 * j - k])
      BY <1>2, <1>4, <2>4
    <3>2. hs[2 * i - k] = hs[2 * j - k]
      BY <3>1, PairsDiffer
    <3>3. 2 * i - k = 2 * j - k
      BY <1>1, <1>2, <2>4, <3>2
    <3> QED BY <3>3
  <2> QED BY <2>1, <2>2, <2>3, <2>4
<1> QED BY <1>0, <1>4 DEF Uniq

LEMMA HalfOfOdd ==
    ASSUME NEW d \in Nat, NEW h \in Nat, d % 2 # 0, d <= 2 * h
    PROVE  (d + 1) \div 2 \in 1..h /\ d = 2 * ((d + 1) \div 2) - 1
<1> DEFINE q == (d + 1) \div 2
<1>1. d % 2 = 1
  OBVIOUS
<1>2. q \in Int /\ d + 1 = 2 * q
  BY <1>1
<1> HIDE DEF q
<1>3. q \in 1..h /\ d = 2 * q - 1
  BY <1>2
<1> QED BY <1>3 DEF q

\* A row with all but its first k hashes in pairs.
Merged(r, k, h) == [j \in 1..(k + h) |-> IF j <= k THEN r[j] ELSE Pair(r[2 * j - k - 1], r[2 * j - k])]

LEMMA MergeOK ==
    ASSUME NEW k \in Nat, NEW h \in Nat, NEW t, NEW r, NEW y, NEW same \in Bits,
           LevelOK(t, r, y, k + 2 * h, same), \A j \in 1..k : t.hashes[j].kids = <<>>
    PROVE  LevelOK(mergePairs(t, k), Merged(r, k, h), y, k + h, same)
<1> DEFINE m == k + 2 * h
<1> DEFINE r2 == Merged(r, k, h)
<1> DEFINE hs == t.hashes
<1> DEFINE next == [j \in 1..(k + h) |-> IF j <= k THEN hs[j] ELSE Pair(hs[2 * j - k - 1], hs[2 * j - k])]
<1> DEFINE hit == {i \in (k + 1)..Len(hs) : hs[i] = t.mine}
<1> DEFINE t2 == mergePairs(t, k)
<1>0. /\ DOMAIN t = TreeFields /\ hs = [j \in 1..m |-> hs[j]] /\ r = [j \in 1..m |-> r[j]] /\ Uniq(hs)
      /\ t.path \in Seq(Bits) /\ Len(t.path) = Len(t.branch)
  BY DEF LevelOK
<1>1. Len(hs) = m /\ (Len(hs) - k) \div 2 = h
  BY <1>0, LengthOf
<1>2. PICK A : t.branch \in Seq(A)
  BY DEF LevelOK
<1>3. PICK p \in 1..m : RowsMatch(t, r, y, p, m, same)
  BY DEF LevelOK
<1>4. PICK u : Climbs(u, y, t.branch, t.path) /\ u[Len(t.branch)] = r[p]
  BY <1>3 DEF RowsMatch
<1>5. hs[p] = t.mine /\ (\A q \in 1..m : q # p => r[q] = hs[q]) /\ (same = 1 => r[p] = t.mine)
  BY <1>3 DEF RowsMatch
<1>6. Uniq(next)
  BY <1>0, MergedUniq
<1>r. r2 = [j \in 1..(k + h) |-> IF j <= k THEN r[j] ELSE Pair(r[2 * j - k - 1], r[2 * j - k])]
  BY DEF Merged
<1>m. m \in Nat /\ m = k + 2 * h
  OBVIOUS
<1> HIDE DEF r2
<1>7. r2 = [j \in 1..(k + h) |-> r2[j]] /\ next = [j \in 1..(k + h) |-> next[j]]
  BY <1>r
<1>8. \A i \in 1..m : hs[i] = t.mine => i = p
  BY <1>0, <1>1, <1>5 DEF Uniq
<1>9. /\ \A j \in 1..(k + h) : j <= k => next[j] = hs[j] /\ r2[j] = r[j]
      /\ \A j \in 1..(k + h) : ~ (j <= k) => /\ next[j] = Pair(hs[2 * j - k - 1], hs[2 * j - k])
                                             /\ r2[j] = Pair(r[2 * j - k - 1], r[2 * j - k])
  BY <1>r
<1>10. CASE p <= k
  <2>1. hit = {}
    BY <1>1, <1>8, <1>10
  <2>2. t2 = [t EXCEPT !.hashes = next]
    BY <1>1, <2>1 DEF mergePairs
  <2> HIDE DEF t2, next, hit
  <2>3. DOMAIN t2 = TreeFields /\ t2.hashes = next /\ t2.mine = t.mine /\ t2.branch = t.branch /\ t2.path = t.path
    BY <1>0, <2>2 DEF TreeFields
  <2>4. p \in 1..(k + h) /\ next[p] = hs[p] /\ r2[p] = r[p]
    BY <1>9, <1>10
  <2>5. ASSUME NEW q \in 1..(k + h), q # p PROVE r2[q] = next[q]
    <3>1. CASE q <= k
      BY <1>5, <1>9, <2>5, <3>1
    <3>2. CASE ~ (q <= k)
      <4>1. /\ 2 * q - k - 1 \in 1..m /\ 2 * q - k - 1 # p
            /\ 2 * q - k \in 1..m /\ 2 * q - k # p
        BY <1>10, <3>2
      <4> QED BY <1>5, <1>9, <3>2, <4>1
    <3> QED BY <3>1, <3>2
  <2>6. RowsMatch(t2, r2, y, p, k + h, same)
    BY <1>4, <1>5, <2>3, <2>4, <2>5 DEF RowsMatch
  <2>7. (\E B : t2.branch \in Seq(B)) /\ t2.path \in Seq(Bits) /\ Len(t2.path) = Len(t2.branch)
    BY <1>0, <1>2, <2>3
  <2>8. LevelOK(t2, r2, y, k + h, same)
    BY <1>6, <1>7, <2>3, <2>4, <2>6, <2>7 DEF LevelOK
  <2> QED BY <2>8 DEF t2, r2
<1>11. CASE ~ (p <= k)
  <2> DEFINE i == CHOOSE i \in hit : TRUE
  <2> DEFINE bit == IF (p - k) % 2 = 0 THEN 1 ELSE 0
  <2> DEFINE e == IF bit = 1 THEN hs[p - 1] ELSE hs[p + 1]
  <2> DEFINE mine == IF bit = 1 THEN Pair(hs[p - 1], hs[p]) ELSE Pair(hs[p], hs[p + 1])
  <2>1. hit = {p}
    BY <1>1, <1>5, <1>8, <1>11
  <2>2. hit # {} /\ i = p
    BY <2>1
  <2>3. t2 = [hashes |-> next, mine |-> mine, branch |-> Append(t.branch, e), path |-> Append(t.path, bit)]
    BY <1>1, <2>2 DEF mergePairs
  <2>4. PICK j \in 1..h : (bit = 1 /\ p = k + 2 * j) \/ (bit = 0 /\ p = k + 2 * j - 1)
    <3> DEFINE d == p - k
    <3>1. d \in Nat /\ d >= 1 /\ d <= 2 * h
      BY <1>11
    <3> HIDE DEF d
    <3>2. CASE d % 2 = 0
      <4>1. d \div 2 \in 1..h /\ d = 2 * (d \div 2)
        BY <3>1, <3>2
      <4> QED BY <3>2, <4>1 DEF d
    <3>3. CASE d % 2 # 0
      <4> DEFINE q == (d + 1) \div 2
      <4>1. q \in 1..h /\ d = 2 * q - 1
        BY <3>1, <3>3, HalfOfOdd
      <4> HIDE DEF q
      <4>2. bit = 0
        <5>1. d % 2 = 1
          BY <3>1, <3>3
        <5> QED BY <5>1 DEF d
      <4>4. p = k + d
        BY DEF d
      <4>3. p = k + 2 * q - 1
        BY <3>1, <4>1, <4>4
      <4> QED BY <4>1, <4>2, <4>3
    <3> QED BY <3>2, <3>3
  <2> HIDE DEF bit
  <2> DEFINE s == k + j
  <2>5. s \in 1..(k + h) /\ ~ (s <= k) /\ 2 * s - k - 1 = k + 2 * j - 1 /\ 2 * s - k = k + 2 * j
        /\ k + 2 * j - 1 \in 1..m /\ k + 2 * j \in 1..m
    OBVIOUS
  <2>6. next[s] = Pair(hs[k + 2 * j - 1], hs[k + 2 * j]) /\ r2[s] = Pair(r[k + 2 * j - 1], r[k + 2 * j])
    <3> HIDE DEF next, s
    <3> QED BY <1>9, <2>5
  <2> HIDE DEF t2, next, hit, i
  <2>7. DOMAIN t2 = TreeFields /\ t2.hashes = next /\ t2.mine = mine /\ t2.branch = Append(t.branch, e)
        /\ t2.path = Append(t.path, bit)
    BY <2>3 DEF TreeFields
  <2>8. /\ bit = 1 => p - 1 = k + 2 * j - 1 /\ p = k + 2 * j
        /\ bit = 0 => p = k + 2 * j - 1 /\ p + 1 = k + 2 * j
    BY <2>4
  <2>9. bit \in Bits
    BY <2>4 DEF Bits
  <2>a. bit = 1 \/ bit = 0
    BY <2>9 DEF Bits
  <2>b. bit = 0 => bit # 1
    OBVIOUS
  <2>10. next[s] = mine
    <3>1. CASE bit = 1
      <4>1. p - 1 = k + 2 * j - 1 /\ p = k + 2 * j
        BY <2>8, <3>1
      <4> QED BY <2>6, <3>1, <4>1
    <3>2. CASE bit = 0
      <4>1. p = k + 2 * j - 1 /\ p + 1 = k + 2 * j
        BY <2>8, <3>2
      <4> QED BY <2>6, <3>2, <4>1
    <3> QED BY <2>a, <3>1, <3>2
  <2>11. r2[s] = IF bit = 1 THEN Pair(e, r[p]) ELSE Pair(r[p], e)
    <3>1. CASE bit = 1
      <4>1. p - 1 = k + 2 * j - 1 /\ p = k + 2 * j
        BY <2>8, <3>1
      <4>2. p - 1 \in 1..m /\ p - 1 # p
        BY <2>5, <4>1
      <4>3. r[p - 1] = hs[p - 1]
        BY <1>5, <4>2
      <4> QED BY <2>6, <3>1, <4>1, <4>3
    <3>2. CASE bit = 0
      <4>1. p = k + 2 * j - 1 /\ p + 1 = k + 2 * j
        BY <2>8, <3>2
      <4>2. p + 1 \in 1..m /\ p + 1 # p
        BY <2>5, <4>1
      <4>3. r[p + 1] = hs[p + 1]
        BY <1>5, <4>2
      <4> QED BY <2>6, <3>2, <4>1, <4>3
    <3> QED BY <2>a, <3>1, <3>2
  <2>12. same = 1 => r2[s] = mine
    BY <1>5, <2>11
  <2>13. ASSUME NEW q \in 1..(k + h), q # s PROVE r2[q] = next[q]
    <3>1. CASE q <= k
      <4>1. q \in 1..m /\ q # p
        BY <1>11, <3>1
      <4> QED BY <1>5, <1>9, <3>1, <4>1 DEF next
    <3>2. CASE ~ (q <= k)
      <4>1. /\ 2 * q - k - 1 \in 1..m /\ 2 * q - k - 1 # p
            /\ 2 * q - k \in 1..m /\ 2 * q - k # p
        <5>1. p = k + 2 * j \/ p = k + 2 * j - 1
          BY <2>8, <2>a
        <5>2. q # k + j /\ q > k /\ q <= k + h
          BY <2>13, <3>2
        <5> QED BY <5>1, <5>2
      <4> QED BY <1>5, <1>9, <3>2, <4>1 DEF next
    <3> QED BY <3>1, <3>2
  <2> HIDE DEF e, mine, s
  <2> DEFINE B == A \cup {e}
  <2>14. t.branch \in Seq(B) /\ e \in B
    BY <1>2, SeqWider
  <2> HIDE DEF B
  <2>15. Len(t2.branch) = Len(t.branch) + 1 /\ t2.branch \in Seq(B)
         /\ t2.path \in Seq(Bits) /\ Len(t2.path) = Len(t2.branch)
    <3>1. Append(t.branch, e) \in Seq(B) /\ Len(Append(t.branch, e)) = Len(t.branch) + 1
      BY <2>14, LongerBy
    <3>2. Append(t.path, bit) \in Seq(Bits) /\ Len(Append(t.path, bit)) = Len(t.path) + 1
      BY <1>0, <2>9, LongerBy
    <3>3. Len(t.path) = Len(t.branch)
      BY <1>0
    <3>4. t2.branch = Append(t.branch, e) /\ t2.path = Append(t.path, bit)
      BY <2>7
    <3> QED BY <3>1, <3>2, <3>3, <3>4
  <2>16. PICK v : /\ Climbs(v, y, Append(t.branch, e), Append(t.path, bit))
                  /\ v[Len(t.branch) + 1] = Joined(bit, e, u[Len(t.branch)])
    <3>1. t.path \in Seq(Bits) /\ Len(t.path) = Len(t.branch)
      BY <1>0
    <3>2. Climbs(u, y, t.branch, t.path)
      BY <1>4
    <3>3. bit \in Bits
      BY <2>9
    <3> DEFINE C == Bits
    <3>4. t.path \in Seq(C) /\ bit \in C
      BY <3>1, <3>3
    <3> HIDE DEF C
    <3>5. t.branch \in Seq(B) /\ e \in B
      BY <2>14
    <3>6. Len(t.path) = Len(t.branch)
      BY <3>1
    <3>7. \A branch \in Seq(B), path \in Seq(C), e1 \in B, bit1 \in C :
            Len(path) = Len(branch) /\ Climbs(u, y, branch, path) =>
              \E v : /\ Climbs(v, y, Append(branch, e1), Append(path, bit1))
                     /\ v[Len(branch) + 1] = Joined(bit1, e1, u[Len(branch)])
      BY ClimbOn
    <3>8. \A e1 \in B, bit1 \in C :
              \E v : /\ Climbs(v, y, Append(t.branch, e1), Append(t.path, bit1))
                     /\ v[Len(t.branch) + 1] = Joined(bit1, e1, u[Len(t.branch)])
      BY <3>2, <3>4, <3>5, <3>6, <3>7
    <3> QED BY <3>4, <3>5, <3>8
  <2>17. Climbs(v, y, t2.branch, t2.path) /\ v[Len(t2.branch)] = r2[s]
    BY <1>4, <2>7, <2>11, <2>15, <2>16 DEF Joined
  <2>18. RowsMatch(t2, r2, y, s, k + h, same)
    BY <2>7, <2>10, <2>12, <2>13, <2>17 DEF RowsMatch
  <2>19. LevelOK(t2, r2, y, k + h, same)
    BY <1>6, <1>7, <2>5, <2>7, <2>15, <2>18 DEF LevelOK
  <2> QED BY <2>19 DEF t2, r2
<1> QED BY <1>10, <1>11

LEMMA FullTrees ==
    ASSUME NEW n \in Nat
    PROVE  /\ fullTrees(n)[0] = 1 /\ \A d \in 1..n : fullTrees(n)[d] = 2 * fullTrees(n)[d - 1]
           /\ \A d \in 0..n : fullTrees(n)[d] \in Nat /\ fullTrees(n)[d] > d
<1> DEFINE cnt[d \in 0..n] == IF d = 0 THEN 1 ELSE 2 * cnt[d - 1]
<1> DEFINE g == [k \in 1..n |-> [x \in Nat |-> 2 * x]]
<1>1. PICK f : Stepwise(f, n, Nat, 1, g)
  <2>1. g \in [1..n -> [Nat -> Nat]] /\ 1 \in Nat
    OBVIOUS
  <2> HIDE DEF g
  <2> QED BY <2>1, StepwiseExists
<1>2. f = [d \in 0..n |-> IF d = 0 THEN 1 ELSE 2 * f[d - 1]]
  <2>1. f \in [0..n -> Nat] /\ f[0] = 1 /\ \A k \in 1..n : f[k] = g[k][f[k - 1]]
    BY <1>1 DEF Stepwise
  <2>2. \A k \in 1..n : f[k - 1] \in Nat /\ k \in 0..n
    BY <2>1
  <2>3. \A k \in 1..n : f[k] = 2 * f[k - 1]
    BY <2>1, <2>2
  <2> HIDE DEF g
  <2>4. \A d \in 0..n : f[d] = IF d = 0 THEN 1 ELSE 2 * f[d - 1]
    BY <2>1, <2>3
  <2> QED BY <2>1, <2>4
<1>3. cnt = [d \in 0..n |-> IF d = 0 THEN 1 ELSE 2 * cnt[d - 1]]
  BY <1>2
<1>4. fullTrees(n) = cnt
  BY DEF fullTrees
<1> HIDE DEF cnt, g
<1>5. cnt[0] = 1 /\ \A d \in 1..n : cnt[d] = 2 * cnt[d - 1]
  BY <1>3
<1> DEFINE S == {d \in 0..n : cnt[d] \in Nat /\ cnt[d] > d}
<1>6. 0 \in S
  BY <1>5
<1>7. ASSUME NEW d \in 1..n, d - 1 \in S PROVE d \in S
  <2>1. cnt[d - 1] \in Nat /\ cnt[d - 1] > d - 1 /\ cnt[d] = 2 * cnt[d - 1]
    BY <1>5, <1>7
  <2>2. 2 * cnt[d - 1] \in Nat /\ 2 * cnt[d - 1] > d
    BY <2>1
  <2> QED BY <2>1, <2>2
<1> HIDE DEF S
<1>8. \A d \in 0..n : d \in S
  BY <1>6, <1>7, UpTo
<1> QED BY <1>4, <1>5, <1>8 DEF S

LEMMA DepthOf ==
    ASSUME NEW n \in Nat, n >= 1
    PROVE  depthOf(n) \in 0..n /\ fullTrees(n)[depthOf(n)] <= n /\ n < 2 * fullTrees(n)[depthOf(n)]
<1> DEFINE cnt == fullTrees(n)
<1>1. cnt[0] = 1 /\ (\A d \in 1..n : cnt[d] = 2 * cnt[d - 1]) /\ \A d \in 0..n : cnt[d] \in Nat /\ cnt[d] > d
  BY FullTrees
<1> HIDE DEF cnt
<1> DEFINE S == {d \in 0..n : n < 2 * cnt[d]}
<1>2. n \in S /\ S \in SUBSET Nat
  BY <1>1
<1> HIDE DEF S
<1>3. PICK d \in S : \A m \in S : d <= m
  BY <1>2, LeastNumber
<1>4. d \in 0..n /\ n < 2 * cnt[d]
  BY DEF S
<1>5. cnt[d] <= n
  <2>1. CASE d = 0
    BY <1>1, <2>1
  <2>2. CASE d # 0
    <3>1. d \in 1..n /\ d - 1 \in 0..n
      BY <1>4, <2>2
    <3>2. d - 1 \notin S
      BY <1>3, <1>4
    <3>3. ~ (n < 2 * cnt[d - 1])
      BY <3>1, <3>2 DEF S
    <3>4. cnt[d] = 2 * cnt[d - 1] /\ cnt[d - 1] \in Nat
      BY <1>1, <3>1
    <3> QED BY <3>3, <3>4
  <2> QED BY <2>1, <2>2
<1>6. depthOf(n) = CHOOSE d1 \in 0..n : cnt[d1] <= n /\ n < 2 * cnt[d1]
  BY DEF depthOf, cnt
<1>7. depthOf(n) \in 0..n /\ cnt[depthOf(n)] <= n /\ n < 2 * cnt[depthOf(n)]
  BY <1>4, <1>5, <1>6
<1> QED BY <1>7 DEF cnt

\* The levels of the tree as the code makes them, and the rows of the tree.
Levels(f, t, m) == f = [n \in 0..m |-> IF n = 0 THEN t ELSE mergePairs(f[n - 1], 0)]
Above(r) == [j \in 1..(Len(r) \div 2) |-> Pair(r[2 * j - 1], r[2 * j])]
TreeRows(g, r, m) == g = [n \in 0..m |-> IF n = 0 THEN r ELSE Above(g[n - 1])]

Leaves(hs, index) == [hashes |-> hs, mine |-> hs[index], branch |-> <<>>, path |-> <<>>]

\* The tree of n hashes: single ones go to its lowest full row as they are.
TreeOf(n, depth, full, single) == depth = depthOf(n) /\ full = fullTrees(n)[depth] /\ single = 2 * full - n

LEMMA LevelsEnd ==
    ASSUME NEW hs, NEW index, NEW depth \in Nat, NEW full, NEW single, TreeOf(Len(hs), depth, full, single),
           NEW f, Levels(f, mergePairs(Leaves(hs, index), single), depth)
    PROVE  calculateMerkleTreeHash(hs, index) =
             [root |-> f[depth].hashes[1], branch |-> f[depth].branch, path |-> f[depth].path]
<1> DEFINE start == [hashes |-> hs, mine |-> hs[index], branch |-> <<>>, path |-> <<>>]
<1> DEFINE level[n \in 0..depth] ==
      IF n = 0 THEN mergePairs(start, 2 * fullTrees(Len(hs))[depth] - Len(hs)) ELSE mergePairs(level[n - 1], 0)
<1>0. start = Leaves(hs, index) /\ depth = depthOf(Len(hs)) /\ single = 2 * fullTrees(Len(hs))[depth] - Len(hs)
  BY DEF Leaves, TreeOf
<1>1. f = [n \in 0..depth |-> IF n = 0 THEN mergePairs(start, 2 * fullTrees(Len(hs))[depth] - Len(hs))
                              ELSE mergePairs(f[n - 1], 0)]
  BY <1>0 DEF Levels
<1>2. level = [n \in 0..depth |-> IF n = 0 THEN mergePairs(start, 2 * fullTrees(Len(hs))[depth] - Len(hs))
                                  ELSE mergePairs(level[n - 1], 0)]
  BY <1>1
<1>3. calculateMerkleTreeHash(hs, index) =
        [root |-> level[depth].hashes[1], branch |-> level[depth].branch, path |-> level[depth].path]
  BY <1>0 DEF calculateMerkleTreeHash
<1> HIDE DEF level, start
<1> DEFINE S == {d \in 0..depth : level[d] = f[d]}
<1>4. 0 \in S
  <2>1. 0 \in 0..depth
    OBVIOUS
  <2> QED BY <1>1, <1>2, <2>1
<1>5. ASSUME NEW d \in 1..depth, d - 1 \in S PROVE d \in S
  <2>1. d \in 0..depth /\ d # 0 /\ level[d - 1] = f[d - 1]
    BY <1>5
  <2>2. f[d] = mergePairs(f[d - 1], 0)
    BY <1>1, <2>1
  <2>3. level[d] = mergePairs(level[d - 1], 0)
    BY <1>2, <2>1
  <2> QED BY <2>1, <2>2, <2>3
<1> HIDE DEF S
<1>6. \A d \in 0..depth : d \in S
  BY <1>4, <1>5, UpTo
<1>7. level[depth] = f[depth]
  BY <1>6 DEF S
<1> QED BY <1>3, <1>7

\* The lowest row of a tree with full leaves: the last hashes in pairs.
Lowest(hs, full, single) ==
    [j \in 1..full |-> IF j <= single THEN hs[j] ELSE Pair(hs[2 * j - single - 1], hs[2 * j - single])]

LEMMA RowsEnd ==
    ASSUME NEW hs, NEW depth \in Nat, NEW full, NEW single, TreeOf(Len(hs), depth, full, single), NEW g, TreeRows(g, Lowest(hs, full, single), depth)
    PROVE  TreeHash(hs) = g[depth][1]
<1> DEFINE row[height \in 0..depth] ==
      IF height = 0
      THEN [j \in 1..full |-> IF j <= single THEN hs[j] ELSE Pair(hs[2 * j - single - 1], hs[2 * j - single])]
      ELSE [j \in 1..(Len(row[height - 1]) \div 2) |-> Pair(row[height - 1][2 * j - 1], row[height - 1][2 * j])]
<1>1. g = [n \in 0..depth |->
             IF n = 0
             THEN [j \in 1..full |-> IF j <= single THEN hs[j] ELSE Pair(hs[2 * j - single - 1], hs[2 * j - single])]
             ELSE [j \in 1..(Len(g[n - 1]) \div 2) |-> Pair(g[n - 1][2 * j - 1], g[n - 1][2 * j])]]
  BY DEF TreeRows, Lowest, Above
<1>2. row = [n \in 0..depth |->
             IF n = 0
             THEN [j \in 1..full |-> IF j <= single THEN hs[j] ELSE Pair(hs[2 * j - single - 1], hs[2 * j - single])]
             ELSE [j \in 1..(Len(row[n - 1]) \div 2) |-> Pair(row[n - 1][2 * j - 1], row[n - 1][2 * j])]]
  BY <1>1
<1>3. TreeHash(hs) = row[depth][1]
  <2>1. depth = depthOf(Len(hs)) /\ full = fullTrees(Len(hs))[depth] /\ single = 2 * full - Len(hs)
    BY DEF TreeOf
  <2> QED BY <2>1 DEF TreeHash
<1>4. row = [n \in 0..depth |-> IF n = 0 THEN Lowest(hs, full, single) ELSE Above(row[n - 1])]
  BY <1>2 DEF Lowest, Above
<1>5. g = [n \in 0..depth |-> IF n = 0 THEN Lowest(hs, full, single) ELSE Above(g[n - 1])]
  BY DEF TreeRows
<1> HIDE DEF row
<1> DEFINE S == {d \in 0..depth : row[d] = g[d]}
<1>6. 0 \in S
  <2>1. 0 \in 0..depth
    OBVIOUS
  <2> QED BY <1>4, <1>5, <2>1
<1>7. ASSUME NEW d \in 1..depth, d - 1 \in S PROVE d \in S
  <2>1. d \in 0..depth /\ d # 0 /\ row[d - 1] = g[d - 1]
    BY <1>7
  <2>2. g[d] = Above(g[d - 1])
    BY <1>5, <2>1
  <2>3. row[d] = Above(row[d - 1])
    BY <1>4, <2>1
  <2> QED BY <2>1, <2>2, <2>3
<1> HIDE DEF S
<1>8. \A d \in 0..depth : d \in S
  BY <1>6, <1>7, UpTo
<1>9. row[depth] = g[depth]
  BY <1>8 DEF S
<1> QED BY <1>3, <1>9
LEMMA LevelUp ==
    ASSUME NEW c \in Nat, NEW t, NEW r, NEW y, NEW same \in Bits, LevelOK(t, r, y, 2 * c, same)
    PROVE  LevelOK(mergePairs(t, 0), Above(r), y, c, same)
<1>1. r = [j \in 1..(2 * c) |-> r[j]]
  BY DEF LevelOK
<1>2. 2 * c \in Nat /\ (2 * c) \div 2 = c /\ 2 * c = 0 + 2 * c /\ 0 \in Nat /\ 0 + c = c
  OBVIOUS
<1>3. Len(r) = 2 * c
  BY <1>1, <1>2, LengthOf
<1>4. \A j \in 1..c : j \in Nat /\ ~ (j <= 0) /\ 2 * j - 0 - 1 = 2 * j - 1 /\ 2 * j - 0 = 2 * j
  OBVIOUS
<1>5. Above(r) = [j \in 1..c |-> Pair(r[2 * j - 1], r[2 * j])]
  BY <1>2, <1>3 DEF Above
<1>6. Merged(r, 0, c) = [j \in 1..(0 + c) |-> IF j <= 0 THEN r[j] ELSE Pair(r[2 * j - 0 - 1], r[2 * j - 0])]
  BY DEF Merged
<1>7. Merged(r, 0, c) = Above(r)
  BY <1>2, <1>4, <1>5, <1>6
<1>8. \A j \in 1..0 : t.hashes[j].kids = <<>>
  OBVIOUS
<1>9. LevelOK(t, r, y, 0 + 2 * c, same)
  BY <1>2
<1>10. LevelOK(mergePairs(t, 0), Merged(r, 0, c), y, 0 + c, same)
  BY <1>2, <1>8, <1>9, MergeOK
<1> QED BY <1>2, <1>7, <1>10

\* The levels and the rows can be made, and match.
LEMMA LevelsMatch ==
    ASSUME NEW n \in Nat, NEW depth \in 0..n, NEW t, NEW r, NEW y, NEW same \in Bits,
           LevelOK(t, r, y, fullTrees(n)[depth], same)
    PROVE  \E f, g : Levels(f, t, depth) /\ TreeRows(g, r, depth) /\ LevelOK(f[depth], g[depth], y, 1, same)
<1> DEFINE cnt == fullTrees(n)
<1> DEFINE Made(d) == \E f, g : Levels(f, t, d) /\ TreeRows(g, r, d) /\ LevelOK(f[d], g[d], y, cnt[depth - d], same)
<1> DEFINE S == {d \in 0..depth : Made(d)}
<1>0. cnt[0] = 1 /\ (\A d \in 1..n : cnt[d] = 2 * cnt[d - 1]) /\ \A d \in 0..n : cnt[d] \in Nat
  BY FullTrees
<1>00. depth \in Nat
  OBVIOUS
<1>1. 0 \in S
  <2> DEFINE f == [k \in 0..0 |-> t]
  <2> DEFINE g == [k \in 0..0 |-> r]
  <2>1. \A k \in 0..0 : k = 0
    OBVIOUS
  <2>2. f[0] = t /\ g[0] = r
    OBVIOUS
  <2>3. Levels(f, t, 0) /\ TreeRows(g, r, 0)
    BY <2>1 DEF Levels, TreeRows
  <2>4. depth - 0 = depth /\ 0 \in 0..depth
    BY <1>00
  <2> HIDE DEF f, g
  <2>5. LevelOK(f[0], g[0], y, cnt[depth - 0], same)
    BY <2>2, <2>4
  <2>6. Made(0)
    BY <2>3, <2>5
  <2> QED BY <2>4, <2>6
<1>2. ASSUME NEW d \in 1..depth, d - 1 \in S PROVE d \in S
  <2>0. d - 1 \in 0..depth /\ d \in 0..depth /\ d \in Nat /\ d # 0 /\ d - 1 \in 0..(d - 1)
    BY <1>00
  <2>1. PICK f, g : Levels(f, t, d - 1) /\ TreeRows(g, r, d - 1)
                    /\ LevelOK(f[d - 1], g[d - 1], y, cnt[depth - (d - 1)], same)
    BY <1>2
  <2> DEFINE c == cnt[depth - d]
  <2>2. cnt[depth - (d - 1)] = 2 * c /\ c \in Nat
    <3>1. depth - (d - 1) \in 1..n /\ depth - (d - 1) - 1 = depth - d /\ depth - d \in 0..n
      BY <1>00
    <3> QED BY <1>0, <3>1
  <2> HIDE DEF c
  <2>3. LevelOK(mergePairs(f[d - 1], 0), Above(g[d - 1]), y, c, same)
    BY <2>1, <2>2, LevelUp
  <2> DEFINE f2 == [k \in 0..d |-> IF k = d THEN mergePairs(f[d - 1], 0) ELSE f[k]]
  <2> DEFINE g2 == [k \in 0..d |-> IF k = d THEN Above(g[d - 1]) ELSE g[k]]
  <2>4. /\ f2[d] = mergePairs(f[d - 1], 0) /\ g2[d] = Above(g[d - 1])
        /\ \A k \in 0..(d - 1) : f2[k] = f[k] /\ g2[k] = g[k]
    BY <2>0
  <2>5. f2 = [k \in 0..d |-> f2[k]] /\ g2 = [k \in 0..d |-> g2[k]]
    OBVIOUS
  <2> HIDE DEF f2, g2
  <2>6. f = [k \in 0..(d - 1) |-> IF k = 0 THEN t ELSE mergePairs(f[k - 1], 0)]
    BY <2>1 DEF Levels
  <2>7. g = [k \in 0..(d - 1) |-> IF k = 0 THEN r ELSE Above(g[k - 1])]
    BY <2>1 DEF TreeRows
  <2>8. ASSUME NEW k \in 0..d
        PROVE  /\ f2[k] = IF k = 0 THEN t ELSE mergePairs(f2[k - 1], 0)
               /\ g2[k] = IF k = 0 THEN r ELSE Above(g2[k - 1])
    <3>1. CASE k = d
      <4>1. f2[k - 1] = f[d - 1] /\ g2[k - 1] = g[d - 1] /\ k # 0
        BY <2>0, <2>4, <3>1
      <4> QED BY <2>4, <3>1, <4>1
    <3>2. CASE k = 0
      <4>1. k \in 0..(d - 1)
        BY <2>0, <3>2
      <4>2. f[k] = t /\ g[k] = r
        BY <2>6, <2>7, <3>2, <4>1
      <4> QED BY <2>4, <3>2, <4>1, <4>2
    <3>3. CASE k # d /\ k # 0
      <4>1. k \in 0..(d - 1) /\ k - 1 \in 0..(d - 1)
        BY <2>0, <3>3
      <4>2. f[k] = mergePairs(f[k - 1], 0) /\ g[k] = Above(g[k - 1])
        BY <2>6, <2>7, <3>3, <4>1
      <4>3. f2[k] = f[k] /\ f2[k - 1] = f[k - 1] /\ g2[k] = g[k] /\ g2[k - 1] = g[k - 1]
        BY <2>4, <4>1
      <4> QED BY <3>3, <4>2, <4>3
    <3> QED BY <3>1, <3>2, <3>3
  <2>9. Levels(f2, t, d)
    <3>1. f2 = [k \in 0..d |-> IF k = 0 THEN t ELSE mergePairs(f2[k - 1], 0)]
      BY <2>5, <2>8
    <3> QED BY <3>1 DEF Levels
  <2>10. TreeRows(g2, r, d)
    <3>1. g2 = [k \in 0..d |-> IF k = 0 THEN r ELSE Above(g2[k - 1])]
      BY <2>5, <2>8
    <3> QED BY <3>1 DEF TreeRows
  <2>11. LevelOK(f2[d], g2[d], y, c, same)
    BY <2>3, <2>4
  <2>12. Made(d)
    BY <2>9, <2>10, <2>11 DEF c
  <2> QED BY <2>0, <2>12
<1> HIDE DEF S
<1>3. \A d \in 0..depth : d \in S
  BY <1>00, <1>1, <1>2, UpTo
<1>4. Made(depth)
  <2>1. depth \in S
    BY <1>00, <1>3
  <2> QED BY <2>1 DEF S
<1>5. depth - depth = 0
  BY <1>00
<1> HIDE DEF cnt
<1> QED BY <1>0, <1>4, <1>5

\* What the code computes for the coinbase's hash and any other in its place.
Replaced(hs, idx, y) == [hs EXCEPT ![idx] = y]

LEMMA TreeBranch ==
    ASSUME NEW n \in Nat, n >= 1, NEW hs, hs = [j \in 1..n |-> hs[j]], Uniq(hs), \A j \in 1..n : hs[j].kids = <<>>,
           NEW idx \in 1..n, NEW tx
    PROVE  /\ calculateRootHash(tx, calculateMerkleTreeHash(hs, idx).branch, calculateMerkleTreeHash(hs, idx).path)
              = TreeHash(Replaced(hs, idx, minerTxHash(tx)))
           /\ hs[idx] = minerTxHash(tx) =>
                calculateMerkleTreeHash(hs, idx).root = TreeHash(Replaced(hs, idx, minerTxHash(tx)))
<1> DEFINE hs2 == Replaced(hs, idx, minerTxHash(tx))
<1> DEFINE tree == calculateMerkleTreeHash(hs, idx)
<1> DEFINE y == minerTxHash(tx)
<1> DEFINE depth == depthOf(n)
<1> DEFINE full == fullTrees(n)[depth]
<1> DEFINE single == 2 * full - n
<1> DEFINE h == n - full
<1> DEFINE same == IF hs[idx] = y THEN 1 ELSE 0
<1> DEFINE start == Leaves(hs, idx)
<1>0. depth \in 0..n /\ full \in Nat /\ full <= n /\ n < 2 * full
  BY FullTrees, DepthOf
<1> HIDE DEF depth, full
<1>1. single \in Nat /\ h \in Nat /\ n = single + 2 * h /\ single + h = full /\ depth \in Nat
  <2>1. depth \in Nat
    BY <1>0
  <2>2. single \in Nat
    BY <1>0
  <2>3. h \in Nat
    BY <1>0
  <2>4. n = single + 2 * h /\ single + h = full
    BY <1>0
  <2> QED BY <2>1, <2>2, <2>3, <2>4
<1> HIDE DEF single, h
<1>2. Len(hs) = n /\ Len(hs2) = n /\ hs2 = [j \in 1..n |-> hs2[j]] /\ hs2[idx] = y
      /\ \A q \in 1..n : q # idx => hs2[q] = hs[q]
  <2>1. /\ hs2 = [j \in 1..n |-> hs2[j]] /\ hs2[idx] = y
        /\ \A q \in 1..n : q # idx => hs2[q] = hs[q]
    BY DEF Replaced
  <2> HIDE DEF hs2
  <2> QED BY <2>1, LengthOf
<1> HIDE DEF hs2
<1>3. LevelOK(start, hs2, y, n, same)
  <2>1. DOMAIN start = TreeFields /\ start.hashes = hs /\ start.mine = hs[idx] /\ start.branch = <<>> /\ start.path = <<>>
    BY DEF TreeFields, Leaves
  <2> HIDE DEF start
  <2> DEFINE u == [d \in 0..0 |-> y]
  <2>2. u[0] = y /\ \A d \in 0..0 : d = 0
    OBVIOUS
  <2>3. Len(start.branch) = 0 /\ start.branch \in Seq({}) /\ start.path \in Seq(Bits) /\ Len(start.path) = 0
    BY <2>1
  <2>4. Climbs(u, y, start.branch, start.path)
    BY <2>2, <2>3 DEF Climbs
  <2> HIDE DEF u
  <2>5. RowsMatch(start, hs2, y, idx, n, same)
    BY <1>2, <2>1, <2>2, <2>3, <2>4 DEF RowsMatch
  <2>6. (\E A : start.branch \in Seq(A)) /\ Len(start.path) = Len(start.branch)
    BY <2>3
  <2> QED BY <1>2, <2>1, <2>3, <2>5, <2>6 DEF LevelOK
<1> HIDE DEF start
<1> DEFINE t == mergePairs(start, single)
<1> DEFINE r == Lowest(hs2, full, single)
<1>4. same \in Bits
  BY DEF Bits
<1>5. LevelOK(t, r, y, full, same)
  <2>1. start.hashes = hs
    BY DEF start, Leaves
  <2>2. \A j \in 1..single : start.hashes[j].kids = <<>>
    <3>1. \A j \in 1..single : j \in 1..n
      BY <1>1
    <3> QED BY <2>1, <3>1
  <2>3. r = Merged(hs2, single, h)
    BY <1>1 DEF Lowest, Merged
  <2> HIDE DEF r, same, y
  <2>4. LevelOK(start, hs2, y, single + 2 * h, same)
    BY <1>1, <1>3
  <2>5. LevelOK(mergePairs(start, single), Merged(hs2, single, h), y, single + h, same)
    BY <1>1, <1>4, <2>2, <2>4, MergeOK
  <2> QED BY <1>1, <2>3, <2>5
<1> HIDE DEF t, r, same, y
<1>6. PICK f, g : Levels(f, t, depth) /\ TreeRows(g, r, depth) /\ LevelOK(f[depth], g[depth], y, 1, same)
  BY <1>0, <1>4, <1>5, LevelsMatch DEF full
<1>7. tree = [root |-> f[depth].hashes[1], branch |-> f[depth].branch, path |-> f[depth].path]
  <2>1. TreeOf(Len(hs), depth, full, single)
    BY <1>2 DEF TreeOf, depth, full, single
  <2>2. Levels(f, mergePairs(Leaves(hs, idx), single), depth) /\ depth \in Nat
    BY <1>1, <1>6 DEF t, start
  <2>3. calculateMerkleTreeHash(hs, idx) = [root |-> f[depth].hashes[1], branch |-> f[depth].branch, path |-> f[depth].path]
    BY <2>1, <2>2, LevelsEnd
  <2> QED BY <2>3 DEF tree
<1> HIDE DEF tree
<1>8. TreeHash(hs2) = g[depth][1]
  <2>1. TreeOf(Len(hs2), depth, full, single)
    BY <1>2 DEF TreeOf, depth, full, single
  <2>2. TreeRows(g, Lowest(hs2, full, single), depth) /\ depth \in Nat
    BY <1>1, <1>6 DEF r
  <2> QED BY <2>1, <2>2, RowsEnd
<1>9. PICK p \in 1..1 : RowsMatch(f[depth], g[depth], y, p, 1, same)
  BY <1>6 DEF LevelOK
<1>10. p = 1
  BY <1>9
<1>11. PICK u : Climbs(u, y, f[depth].branch, f[depth].path) /\ u[Len(f[depth].branch)] = g[depth][1]
  BY <1>9, <1>10 DEF RowsMatch
<1>12. Len(f[depth].branch) \in Nat
  <2>1. PICK A : f[depth].branch \in Seq(A)
    BY <1>6 DEF LevelOK
  <2> QED BY <2>1
<1>13. tree.root = f[depth].hashes[1] /\ tree.branch = f[depth].branch /\ tree.path = f[depth].path
  BY <1>7
<1>14. calculateRootHash(tx, f[depth].branch, f[depth].path) = u[Len(f[depth].branch)]
  <2>1. Climbs(u, minerTxHash(tx), f[depth].branch, f[depth].path)
    BY <1>11 DEF y
  <2> QED BY <1>12, <2>1, ClimbEnds
<1>15. same = 1 => f[depth].hashes[1] = g[depth][1]
  BY <1>9, <1>10 DEF RowsMatch
<1> QED BY <1>8, <1>11, <1>13, <1>14, <1>15 DEF same, y, hs2, tree
LEMMA Concat ==
    ASSUME NEW A, NEW p \in Seq(A), NEW q \in Seq(A)
    PROVE  /\ p \o q \in Seq(A) /\ Len(p \o q) = Len(p) + Len(q)
           /\ \A j \in 1..Len(p) : (p \o q)[j] = p[j]
           /\ \A j \in 1..Len(q) : (p \o q)[Len(p) + j] = q[j]
<1> DEFINE x == p \o q
<1>0. Len(p) \in Nat /\ Len(q) \in Nat
  OBVIOUS
<1>1. /\ x \in Seq(A) /\ Len(x) = Len(p) + Len(q)
      /\ \A i \in 1 .. (Len(p) + Len(q)) : x[i] = IF i <= Len(p) THEN p[i] ELSE q[i - Len(p)]
  BY ConcatProperties
<1> HIDE DEF x
<1>2. ASSUME NEW j \in 1..Len(p) PROVE x[j] = p[j]
  BY <1>0, <1>1
<1>3. ASSUME NEW j \in 1..Len(q) PROVE x[Len(p) + j] = q[j]
  <2>1. Len(p) + j \in 1..(Len(p) + Len(q)) /\ ~ (Len(p) + j <= Len(p)) /\ Len(p) + j - Len(p) = j
    BY <1>0
  <2> QED BY <1>1, <2>1
<1> QED BY <1>1, <1>2, <1>3 DEF x

\* How many hashes come before the coinbase's, and how they are numbered.
Ahead(b) == IF b.carrot THEN 2 ELSE 0
Numbered(b, j) == IF j <= Ahead(b) THEN 0 - j ELSE j - Ahead(b) - 1

LEMMA HashesOf ==
    ASSUME NEW b, b.carrot \in BOOLEAN, b.others \in Nat
    PROVE  /\ hashesOf(b) = [j \in 1..(Ahead(b) + 1 + b.others) |-> hashesOf(b)[j]]
           /\ coinbaseIndex(b) = Ahead(b) + 1 /\ hashesOf(b)[Ahead(b) + 1] = minerTxHash(b.tx)
           /\ \A j \in 1..(Ahead(b) + 1 + b.others) :
                j # Ahead(b) + 1 => hashesOf(b)[j] = Leaf(Numbered(b, j))
<1> DEFINE o == b.others
<1> DEFINE p == IF b.carrot THEN <<Leaf(-1), Leaf(-2)>> ELSE <<>>
<1> DEFINE q == <<minerTxHash(b.tx)>>
<1> DEFINE r == [i \in 1..o |-> Leaf(i)]
<1> DEFINE A == {Leaf(-1), Leaf(-2), minerTxHash(b.tx)} \cup {Leaf(i) : i \in 1..o}
<1>1. hashesOf(b) = (p \o q) \o r
  BY DEF hashesOf
<1>2. coinbaseIndex(b) = Ahead(b) + 1 /\ Ahead(b) \in Nat
  BY DEF coinbaseIndex, Ahead
<1>3. p \in Seq(A) /\ Len(p) = Ahead(b) /\ \A j \in 1..Ahead(b) : p[j] = Leaf(0 - j)
  <2>1. CASE b.carrot
    <3>1. p = <<Leaf(-1), Leaf(-2)>> /\ Ahead(b) = 2
      BY <2>1 DEF Ahead
    <3>2. Leaf(-1) \in A /\ Leaf(-2) \in A
      OBVIOUS
    <3> HIDE DEF A, p
    <3>3. p \in Seq(A) /\ Len(p) = 2 /\ p[1] = Leaf(-1) /\ p[2] = Leaf(-2)
      BY <3>1, <3>2
    <3>4. \A j \in 1..2 : j = 1 \/ j = 2
      OBVIOUS
    <3>5. 0 - 1 = -1 /\ 0 - 2 = -2
      OBVIOUS
    <3> QED BY <3>1, <3>3, <3>4, <3>5
  <2>2. CASE ~b.carrot
    <3>1. p = <<>> /\ Ahead(b) = 0
      BY <2>2 DEF Ahead
    <3> HIDE DEF A, p
    <3> QED BY <3>1
  <2> QED BY <2>1, <2>2
<1>4. q \in Seq(A) /\ Len(q) = 1 /\ q[1] = minerTxHash(b.tx)
  <2>1. minerTxHash(b.tx) \in A
    OBVIOUS
  <2> HIDE DEF A
  <2> QED BY <2>1
<1>5. r \in Seq(A) /\ Len(r) = o /\ \A j \in 1..o : r[j] = Leaf(j)
  <2>1. \A j \in 1..o : Leaf(j) \in A
    OBVIOUS
  <2> HIDE DEF A
  <2>2. r \in [1..o -> A]
    BY <2>1
  <2> QED BY <2>2
<1> HIDE DEF p, q, r, A
<1> DEFINE x == p \o q
<1> DEFINE z == x \o r
<1>6. /\ x \in Seq(A) /\ Len(x) = Len(p) + Len(q) /\ \A j \in 1..Len(p) : x[j] = p[j]
      /\ \A j \in 1..Len(q) : x[Len(p) + j] = q[j]
  <2>1. p \in Seq(A) /\ q \in Seq(A)
    BY <1>3, <1>4
  <2> QED BY <2>1, Concat
<1>a. /\ z \in Seq(A) /\ Len(z) = Len(x) + Len(r) /\ \A j \in 1..Len(x) : z[j] = x[j]
      /\ \A j \in 1..Len(r) : z[Len(x) + j] = r[j]
  <2> HIDE DEF x
  <2>1. x \in Seq(A) /\ r \in Seq(A)
    BY <1>5, <1>6
  <2> QED BY <2>1, Concat
<1>b. hashesOf(b) = z
  BY <1>1
<1> HIDE DEF x, z
<1> DEFINE hs == hashesOf(b)
<1> DEFINE c == Ahead(b)
<1>7. /\ DOMAIN hs = 1..(c + 1 + o) /\ (\A j \in 1..c : hs[j] = Leaf(0 - j)) /\ hs[c + 1] = minerTxHash(b.tx)
      /\ \A j \in 1..o : hs[c + 1 + j] = Leaf(j)
  <2>0. 1 \in 1..Len(q) /\ Len(x) = c + 1 /\ Len(p) = c /\ c \in Nat
    BY <1>2, <1>3, <1>4, <1>6
  <2>1. DOMAIN z = 1..(c + 1 + o)
    BY <1>5, <1>a, <2>0
  <2>2. ASSUME NEW j \in 1..c PROVE z[j] = Leaf(0 - j)
    <3>1. j \in 1..Len(p) /\ j \in 1..Len(x)
      BY <2>0
    <3>2. z[j] = x[j] /\ x[j] = p[j]
      BY <1>6, <1>a, <3>1
    <3> QED BY <1>3, <3>2
  <2>3. z[c + 1] = minerTxHash(b.tx)
    <3>1. c + 1 \in 1..Len(x)
      BY <2>0
    <3>2. z[c + 1] = x[c + 1] /\ x[c + 1] = q[1]
      BY <1>6, <1>a, <2>0, <3>1
    <3> QED BY <1>4, <3>2
  <2>4. ASSUME NEW j \in 1..o PROVE z[c + 1 + j] = Leaf(j)
    BY <1>5, <1>a, <2>0
  <2> QED BY <1>b, <2>1, <2>2, <2>3, <2>4
<1>8. hs = [j \in 1..(c + 1 + o) |-> hs[j]]
  <2>1. hs = [j \in DOMAIN hs |-> hs[j]]
    <3>2. hs \in Seq(A)
      BY <1>a, <1>b
    <3> HIDE DEF hs
    <3> QED BY <3>2
  <2> HIDE DEF hs
  <2> QED BY <1>7, <2>1
<1> HIDE DEF hs
<1>9. ASSUME NEW j \in 1..(c + 1 + o), j # c + 1 PROVE hs[j] = Leaf(Numbered(b, j))
  <2>1. CASE j <= c
    <3>1. Numbered(b, j) = 0 - j /\ j \in 1..c
      BY <1>2, <2>1 DEF Numbered
    <3> QED BY <1>7, <3>1
  <2>2. CASE ~ (j <= c)
    <3> DEFINE i == j - c - 1
    <3>1. i \in 1..o /\ j = c + 1 + i
      BY <1>2, <1>9, <2>2
    <3>2. Numbered(b, j) = i
      BY <2>2 DEF Numbered
    <3> HIDE DEF i
    <3>3. hs[c + 1 + i] = Leaf(i)
      BY <1>7, <3>1
    <3> QED BY <3>1, <3>2, <3>3
  <2> QED BY <2>1, <2>2
<1> QED BY <1>2, <1>7, <1>8, <1>9 DEF hs

LEMMA HashesUniq ==
    ASSUME NEW b, b.carrot \in BOOLEAN, b.others \in Nat
    PROVE  Uniq(hashesOf(b)) /\ \A j \in 1..(Ahead(b) + 1 + b.others) : hashesOf(b)[j].kids = <<>>
<1> DEFINE hs == hashesOf(b)
<1> DEFINE c == Ahead(b)
<1> DEFINE n == c + 1 + b.others
<1>0. c \in Nat /\ n \in Nat
  BY DEF Ahead
<1>1. /\ hs = [j \in 1..n |-> hs[j]] /\ hs[c + 1] = minerTxHash(b.tx)
      /\ \A j \in 1..n : j # c + 1 => hs[j] = Leaf(Numbered(b, j))
  BY HashesOf
<1> HIDE DEF hs
<1>2. minerTxHash(b.tx).other = 0 /\ minerTxHash(b.tx).kids = <<>>
      /\ \A i : Leaf(i).other = i /\ Leaf(i).kids = <<>>
  BY DEF minerTxHash, Leaf
<1>3. \A j \in 1..n : hs[j].kids = <<>>
  BY <1>1, <1>2
<1>4. \A j \in 1..n : hs[j].other = Numbered(b, j)
  <2>1. Numbered(b, c + 1) = 0
    BY <1>0 DEF Numbered
  <2> QED BY <1>1, <1>2, <2>1
<1>5. Len(hs) = n
  BY <1>0, <1>1, LengthOf
<1>6. \A i, j \in 1..n : Numbered(b, i) = Numbered(b, j) => i = j
  BY <1>0 DEF Numbered
<1>7. Uniq(hs)
  BY <1>4, <1>5, <1>6 DEF Uniq
<1> QED BY <1>3, <1>7 DEF hs

\* The root of a block and of another one with another coinbase.
LEMMA RootsAgree ==
    ASSUME NEW b, b.carrot \in BOOLEAN, b.others \in Nat,
           NEW b2, b2.carrot = b.carrot, b2.others = b.others
    PROVE  /\ calculateRootHash(b2.tx, parse(b).branch, parse(b).path) = TreeHash(hashesOf(b2))
           /\ b2.tx = b.tx => parse(b).root = TreeHash(hashesOf(b2))
<1> DEFINE hs == hashesOf(b)
<1> DEFINE hs2 == hashesOf(b2)
<1> DEFINE c == Ahead(b)
<1> DEFINE n == c + 1 + b.others
<1> DEFINE tree == calculateMerkleTreeHash(hs, c + 1)
<1>0. c \in Nat /\ n \in Nat /\ n >= 1 /\ c + 1 \in 1..n
  BY DEF Ahead
<1>1. Ahead(b2) = c /\ b2.carrot \in BOOLEAN /\ b2.others \in Nat /\ \A j : Numbered(b2, j) = Numbered(b, j)
  BY DEF Ahead, Numbered
<1>2. /\ hs = [j \in 1..n |-> hs[j]] /\ coinbaseIndex(b) = c + 1 /\ hs[c + 1] = minerTxHash(b.tx)
      /\ \A j \in 1..n : j # c + 1 => hs[j] = Leaf(Numbered(b, j))
  BY HashesOf
<1>3. /\ hs2 = [j \in 1..n |-> hs2[j]] /\ hs2[c + 1] = minerTxHash(b2.tx)
      /\ \A j \in 1..n : j # c + 1 => hs2[j] = Leaf(Numbered(b, j))
  BY <1>1, HashesOf
<1>4. Uniq(hs) /\ \A j \in 1..n : hs[j].kids = <<>>
  BY HashesUniq
<1>5. parse(b).branch = tree.branch /\ parse(b).path = tree.path /\ parse(b).root = tree.root
  BY <1>2 DEF parse
<1> HIDE DEF hs, hs2, n, c, tree
<1>6. hs2 = Replaced(hs, c + 1, minerTxHash(b2.tx))
  <2>1. \A j \in 1..n : hs2[j] = IF j = c + 1 THEN minerTxHash(b2.tx) ELSE hs[j]
    BY <1>2, <1>3
  <2>2. DOMAIN hs = 1..n
    BY <1>2
  <2>3. [hs EXCEPT ![c + 1] = minerTxHash(b2.tx)] = [j \in 1..n |-> IF j = c + 1 THEN minerTxHash(b2.tx) ELSE hs[j]]
    BY <1>2, <2>2
  <2> QED BY <1>3, <2>1, <2>3 DEF Replaced
<1>7. tree = calculateMerkleTreeHash(hs, c + 1)
  BY DEF tree
<1>8. /\ calculateRootHash(b2.tx, tree.branch, tree.path) = TreeHash(hs2)
      /\ hs[c + 1] = minerTxHash(b2.tx) => tree.root = TreeHash(hs2)
  <2>1. hs = [j \in 1..n |-> hs[j]] /\ Uniq(hs) /\ (\A j \in 1..n : hs[j].kids = <<>>) /\ n \in Nat /\ n >= 1
    BY <1>0, <1>2, <1>4
  <2>2. c + 1 \in 1..n
    BY <1>0
  <2> QED BY <1>6, <1>7, <2>1, <2>2, TreeBranch
<1>9. b2.tx = b.tx => hs[c + 1] = minerTxHash(b2.tx)
  BY <1>2
<1> QED BY <1>5, <1>8, <1>9 DEF hs2

(***************************************************************************)
(* Blocks: what was told of a job and what is submitted for it             *)
(***************************************************************************)

ShapeOK(s) ==
    /\ s.signed \in BOOLEAN /\ s.extraNonce \in BOOLEAN /\ s.others \in Nat
    /\ s.extra \in Seq(FieldKinds)
    /\ s.signed => \E i \in DOMAIN s.extra : s.extra[i] = "pubkey"
    /\ s.extraNonce /\ s.output = "tagged" /\ ~s.signed => TaggedExtra

\* Where templates of shape s have fields of a kind, and the two that are written to.
FieldPlaces(s, kd) == {i \in DOMAIN s.extra : s.extra[i] = kd}
PubkeyAt(s) == IF FieldPlaces(s, "pubkey") = {} THEN 0 ELSE Min(FieldPlaces(s, "pubkey"))
NonceAt(s) == IF FieldPlaces(s, "nonce") = {} THEN 0 ELSE Max(FieldPlaces(s, "nonce"))

\* A coinbase of template g.
Coinbase(s, g, key, tag, own, head) ==
    [key |-> key, tag |-> tag,
     extra |-> [i \in DOMAIN s.extra |->
                  [kind |-> s.extra[i],
                   head |-> IF i = NonceAt(s) THEN head ELSE IF i = PubkeyAt(s) THEN own ELSE -g,
                   rest |-> IF i = NonceAt(s) THEN 100 + g ELSE IF i = PubkeyAt(s) THEN own ELSE -g]]]

BlockWith(s, tx) == [carrot |-> s.output = "carrot", others |-> s.others, tx |-> tx]

\* The block of job g, and the coinbase that its miner has with key k and extra nonce e.
Installed(s, g) == BlockWith(s, Coinbase(s, g, -g, -g, -g, 100 + g))

Mined(s, g, k, e) ==
    Coinbase(s, g, IF s.signed THEN k ELSE -g, IF s.signed /\ s.output = "tagged" THEN k ELSE -g,
             IF s.signed THEN k ELSE -g, IF e >= 0 THEN e ELSE 100 + g)

LEMMA MinMember == ASSUME NEW S \in SUBSET Nat, S # {} PROVE Min(S) \in S
<1>1. PICK n \in S : \A m \in S : n <= m
  BY LeastNumber
<1>2. Min(S) = CHOOSE x \in S : \A y \in S : x <= y
  BY DEF Min
<1> QED BY <1>1, <1>2

LEMMA MaxMember == ASSUME NEW n \in Nat, NEW S \in SUBSET (0..n), S # {} PROVE Max(S) \in S
<1> DEFINE T == {k \in 0..n : \A x \in S : x <= k}
<1>1. T \in SUBSET Nat /\ n \in T
  OBVIOUS
<1> HIDE DEF T
<1>2. PICK k \in T : \A m \in T : k <= m
  BY <1>1, LeastNumber
<1>3. k \in 0..n /\ \A x \in S : x <= k
  BY DEF T
<1>4. k \in S
  <2> SUFFICES ASSUME k \notin S PROVE FALSE
    OBVIOUS
  <2>1. ASSUME NEW x \in S PROVE x \in Nat /\ x <= k - 1
    <3>1. x \in 0..n /\ x <= k /\ x # k
      BY <1>3
    <3> QED BY <1>3, <3>1
  <2>2. k - 1 \in 0..n
    <3>1. PICK x \in S : TRUE
      OBVIOUS
    <3> QED BY <1>3, <2>1, <3>1
  <2>3. k - 1 \in T
    BY <2>1, <2>2 DEF T
  <2> QED BY <1>2, <1>3, <2>3
<1>5. Max(S) = CHOOSE x \in S : \A y \in S : x >= y
  BY DEF Max
<1>6. \A y \in S : k >= y
  BY <1>3
<1> QED BY <1>4, <1>5, <1>6

LEMMA PlacesOK ==
    ASSUME NEW s, ShapeOK(s)
    PROVE  /\ DOMAIN s.extra \subseteq Nat \ {0}
           /\ FieldPlaces(s, "pubkey") # {} => PubkeyAt(s) \in DOMAIN s.extra /\ s.extra[PubkeyAt(s)] = "pubkey"
           /\ FieldPlaces(s, "nonce") # {} => NonceAt(s) \in DOMAIN s.extra /\ s.extra[NonceAt(s)] = "nonce"
           /\ s.signed => FieldPlaces(s, "pubkey") # {}
           /\ NonceAt(s) # 0 <=> FieldPlaces(s, "nonce") # {}
           /\ NonceAt(s) # 0 => NonceAt(s) # PubkeyAt(s)
<1>0. s.extra \in Seq(FieldKinds) /\ Len(s.extra) \in Nat /\ DOMAIN s.extra = 1..Len(s.extra)
  BY DEF ShapeOK
<1>1. \A kd : FieldPlaces(s, kd) \in SUBSET (0..Len(s.extra)) /\ FieldPlaces(s, kd) \in SUBSET Nat
  BY <1>0 DEF FieldPlaces
<1>2. FieldPlaces(s, "pubkey") # {} => PubkeyAt(s) \in FieldPlaces(s, "pubkey")
  BY <1>1, MinMember DEF PubkeyAt
<1>3. FieldPlaces(s, "nonce") # {} => NonceAt(s) \in FieldPlaces(s, "nonce")
  BY <1>0, <1>1, MaxMember DEF NonceAt
<1>4. FieldPlaces(s, "pubkey") # {} => PubkeyAt(s) \in DOMAIN s.extra /\ s.extra[PubkeyAt(s)] = "pubkey"
  BY <1>2 DEF FieldPlaces
<1>5. FieldPlaces(s, "nonce") # {} => NonceAt(s) \in DOMAIN s.extra /\ s.extra[NonceAt(s)] = "nonce"
  BY <1>3 DEF FieldPlaces
<1>6. s.signed => FieldPlaces(s, "pubkey") # {}
  BY DEF ShapeOK, FieldPlaces
<1>7. NonceAt(s) # 0 <=> FieldPlaces(s, "nonce") # {}
  BY <1>0, <1>5 DEF NonceAt
<1>8. NonceAt(s) # 0 => NonceAt(s) # PubkeyAt(s)
  <2>1. FieldPlaces(s, "pubkey") = {} => PubkeyAt(s) = 0
    BY DEF PubkeyAt
  <2> QED BY <1>4, <1>5, <1>7, <2>1
<1>9. DOMAIN s.extra \subseteq Nat \ {0}
  BY <1>0
<1> QED BY <1>4, <1>5, <1>6, <1>7, <1>8, <1>9

\* What the code changes in a coinbase.
LEMMA FieldChanged ==
    ASSUME NEW a, NEW b, NEW c, NEW k
    PROVE  /\ [[kind |-> a, head |-> b, rest |-> c] EXCEPT !.head = k] = [kind |-> a, head |-> k, rest |-> c]
           /\ [[kind |-> a, head |-> b, rest |-> c] EXCEPT !.rest = k] = [kind |-> a, head |-> b, rest |-> k]
OBVIOUS

LEMMA TxChanged ==
    ASSUME NEW a, NEW b, NEW c, NEW k
    PROVE  /\ [[key |-> a, tag |-> b, extra |-> c] EXCEPT !.key = k] = [key |-> k, tag |-> b, extra |-> c]
           /\ [[key |-> a, tag |-> b, extra |-> c] EXCEPT !.tag = k] = [key |-> a, tag |-> k, extra |-> c]
           /\ [[key |-> a, tag |-> b, extra |-> c] EXCEPT !.extra = k] = [key |-> a, tag |-> b, extra |-> k]
OBVIOUS

LEMMA ExtraChanged ==
    ASSUME NEW a, NEW b, NEW c, NEW p, NEW k
    PROVE  /\ [[key |-> a, tag |-> b, extra |-> c] EXCEPT !.extra[p].head = k]
                = [key |-> a, tag |-> b, extra |-> [c EXCEPT ![p] = [@ EXCEPT !.head = k]]]
           /\ [[key |-> a, tag |-> b, extra |-> c] EXCEPT !.extra[p].rest = k]
                = [key |-> a, tag |-> b, extra |-> [c EXCEPT ![p] = [@ EXCEPT !.rest = k]]]
OBVIOUS

LEMMA ChangedInTurn ==
    ASSUME NEW tx, NEW p, NEW k
    PROVE  [tx EXCEPT !.key = k, !.extra[p].head = k, !.extra[p].rest = k] =
             [[[tx EXCEPT !.key = k] EXCEPT !.extra[p].head = k] EXCEPT !.extra[p].rest = k]
OBVIOUS

FieldsWith(s, g, own, head) ==
    [i \in DOMAIN s.extra |->
       [kind |-> s.extra[i],
        head |-> IF i = NonceAt(s) THEN head ELSE IF i = PubkeyAt(s) THEN own ELSE -g,
        rest |-> IF i = NonceAt(s) THEN 100 + g ELSE IF i = PubkeyAt(s) THEN own ELSE -g]]

LEMMA CoinbaseParts ==
    ASSUME NEW s, NEW g, NEW key, NEW tag, NEW own, NEW head
    PROVE  Coinbase(s, g, key, tag, own, head) = [key |-> key, tag |-> tag, extra |-> FieldsWith(s, g, own, head)]
BY DEF Coinbase, FieldsWith

LEMMA OwnFields ==
    ASSUME NEW s, ShapeOK(s), NonceAt(s) # 0, NEW g, NEW own, NEW head, NEW k
    PROVE  [[FieldsWith(s, g, own, head) EXCEPT ![PubkeyAt(s)] = [@ EXCEPT !.head = k]]
               EXCEPT ![PubkeyAt(s)] = [@ EXCEPT !.rest = k]] = FieldsWith(s, g, k, head)
<1> DEFINE f == FieldsWith(s, g, own, head)
<1> DEFINE p == PubkeyAt(s)
<1> DEFINE f1 == [f EXCEPT ![p] = [@ EXCEPT !.head = k]]
<1> DEFINE f2 == [f1 EXCEPT ![p] = [@ EXCEPT !.rest = k]]
<1> DEFINE D == DOMAIN s.extra
<1>0. p # NonceAt(s)
  BY PlacesOK
<1>1. /\ DOMAIN f = D
      /\ \A i \in D : f[i] = [kind |-> s.extra[i],
                              head |-> IF i = NonceAt(s) THEN head ELSE IF i = p THEN own ELSE -g,
                              rest |-> IF i = NonceAt(s) THEN 100 + g ELSE IF i = p THEN own ELSE -g]
  BY DEF FieldsWith
<1> HIDE DEF f, p, D
<1>2. f1 = [i \in D |-> IF i = p THEN [f[p] EXCEPT !.head = k] ELSE f[i]]
  BY <1>1
<1> HIDE DEF f1
<1>3. f2 = [i \in D |-> IF i = p THEN [f1[p] EXCEPT !.rest = k] ELSE f1[i]]
  BY <1>2
<1> HIDE DEF f2
<1>4. ASSUME NEW i \in D
      PROVE  f2[i] = [kind |-> s.extra[i],
                      head |-> IF i = NonceAt(s) THEN head ELSE IF i = p THEN k ELSE -g,
                      rest |-> IF i = NonceAt(s) THEN 100 + g ELSE IF i = p THEN k ELSE -g]
  <2>1. CASE i = p
    <3>1. f[p] = [kind |-> s.extra[p], head |-> own, rest |-> own]
      BY <1>0, <1>1, <2>1
    <3>2. f1[p] = [kind |-> s.extra[p], head |-> k, rest |-> own]
      BY <1>2, <2>1, <3>1, FieldChanged
    <3>3. f2[p] = [kind |-> s.extra[p], head |-> k, rest |-> k]
      BY <1>3, <2>1, <3>2, FieldChanged
    <3> QED BY <1>0, <2>1, <3>3
  <2>2. CASE i # p
    BY <1>1, <1>2, <1>3, <2>2
  <2> QED BY <2>1, <2>2
<1>5. FieldsWith(s, g, k, head) =
        [i \in D |-> [kind |-> s.extra[i],
                      head |-> IF i = NonceAt(s) THEN head ELSE IF i = p THEN k ELSE -g,
                      rest |-> IF i = NonceAt(s) THEN 100 + g ELSE IF i = p THEN k ELSE -g]]
  BY DEF FieldsWith, D, p
<1>6. f2 = FieldsWith(s, g, k, head)
  BY <1>3, <1>4, <1>5
<1> QED BY <1>6 DEF f2, f1, f, p

LEMMA NonceFields ==
    ASSUME NEW s, NEW g, NEW own, NEW head, NEW k
    PROVE  [FieldsWith(s, g, own, head) EXCEPT ![NonceAt(s)] = [@ EXCEPT !.head = k]] = FieldsWith(s, g, own, k)
<1> DEFINE f == FieldsWith(s, g, own, head)
<1> DEFINE n == NonceAt(s)
<1> DEFINE f1 == [f EXCEPT ![n] = [@ EXCEPT !.head = k]]
<1> DEFINE D == DOMAIN s.extra
<1>1. /\ DOMAIN f = D
      /\ \A i \in D : f[i] = [kind |-> s.extra[i],
                              head |-> IF i = n THEN head ELSE IF i = PubkeyAt(s) THEN own ELSE -g,
                              rest |-> IF i = n THEN 100 + g ELSE IF i = PubkeyAt(s) THEN own ELSE -g]
  BY DEF FieldsWith
<1> HIDE DEF f, n, D
<1>2. f1 = [i \in D |-> IF i = n THEN [f[n] EXCEPT !.head = k] ELSE f[i]]
  BY <1>1
<1> HIDE DEF f1
<1>4. ASSUME NEW i \in D
      PROVE  f1[i] = [kind |-> s.extra[i],
                      head |-> IF i = n THEN k ELSE IF i = PubkeyAt(s) THEN own ELSE -g,
                      rest |-> IF i = n THEN 100 + g ELSE IF i = PubkeyAt(s) THEN own ELSE -g]
  <2>1. CASE i = n
    <3>1. f[n] = [kind |-> s.extra[n], head |-> head, rest |-> 100 + g]
      BY <1>1, <2>1
    <3>2. f1[n] = [kind |-> s.extra[n], head |-> k, rest |-> 100 + g]
      BY <1>2, <2>1, <3>1, FieldChanged
    <3> QED BY <2>1, <3>2
  <2>2. CASE i # n
    BY <1>1, <1>2, <2>2
  <2> QED BY <2>1, <2>2
<1>5. FieldsWith(s, g, own, k) =
        [i \in D |-> [kind |-> s.extra[i],
                      head |-> IF i = n THEN k ELSE IF i = PubkeyAt(s) THEN own ELSE -g,
                      rest |-> IF i = n THEN 100 + g ELSE IF i = PubkeyAt(s) THEN own ELSE -g]]
  BY DEF FieldsWith, D, n
<1>6. f1 = FieldsWith(s, g, own, k)
  BY <1>2, <1>4, <1>5
<1> QED BY <1>6 DEF f1, f, n

LEMMA SignCoinbase ==
    ASSUME NEW s, ShapeOK(s), NonceAt(s) # 0, NEW g, NEW key, NEW tag, NEW own, NEW head, NEW k, NEW job,
           job.pubkey = PubkeyAt(s)
    PROVE  generateSignatureData(job, Coinbase(s, g, key, tag, own, head), k) = Coinbase(s, g, k, tag, k, head)
<1> DEFINE c == Coinbase(s, g, key, tag, own, head)
<1> DEFINE f == FieldsWith(s, g, own, head)
<1> DEFINE p == PubkeyAt(s)
<1>1. generateSignatureData(job, c, k) = [c EXCEPT !.key = k, !.extra[p].head = k, !.extra[p].rest = k]
  <2> HIDE DEF c
  <2> QED BY DEF generateSignatureData
<1>2. c = [key |-> key, tag |-> tag, extra |-> f]
  BY CoinbaseParts
<1> HIDE DEF c, f, p
<1> DEFINE f1 == [f EXCEPT ![p] = [@ EXCEPT !.head = k]]
<1> DEFINE f2 == [f1 EXCEPT ![p] = [@ EXCEPT !.rest = k]]
<1>3. [c EXCEPT !.key = k] = [key |-> k, tag |-> tag, extra |-> f]
  BY <1>2, TxChanged
<1>4. [[key |-> k, tag |-> tag, extra |-> f] EXCEPT !.extra[p].head = k] = [key |-> k, tag |-> tag, extra |-> f1]
  BY ExtraChanged
<1> HIDE DEF f1
<1>5. [[key |-> k, tag |-> tag, extra |-> f1] EXCEPT !.extra[p].rest = k] = [key |-> k, tag |-> tag, extra |-> f2]
  BY ExtraChanged
<1> HIDE DEF f2
<1>6. f2 = FieldsWith(s, g, k, head)
  BY OwnFields DEF f2, f1, f, p
<1>7. generateSignatureData(job, c, k) = [key |-> k, tag |-> tag, extra |-> f2]
  <2>1. generateSignatureData(job, c, k) = [[[c EXCEPT !.key = k] EXCEPT !.extra[p].head = k] EXCEPT !.extra[p].rest = k]
    BY <1>1, ChangedInTurn
  <2> QED BY <1>3, <1>4, <1>5, <2>1
<1> QED BY <1>6, <1>7, CoinbaseParts DEF c

LEMMA TagCoinbase ==
    ASSUME NEW s, NEW g, NEW key, NEW tag, NEW own, NEW head, NEW k
    PROVE  setViewTagInMinerTx(Coinbase(s, g, key, tag, own, head), k) = Coinbase(s, g, key, k, own, head)
<1>1. /\ Coinbase(s, g, key, tag, own, head) = [key |-> key, tag |-> tag, extra |-> FieldsWith(s, g, own, head)]
      /\ Coinbase(s, g, key, k, own, head) = [key |-> key, tag |-> k, extra |-> FieldsWith(s, g, own, head)]
  BY CoinbaseParts
<1> QED BY <1>1, TxChanged DEF setViewTagInMinerTx

LEMMA NonceCoinbase ==
    ASSUME NEW s, NEW g, NEW key, NEW tag, NEW own, NEW head, NEW e, NEW job, job.nonce = NonceAt(s)
    PROVE  setExtraNonceInMinerTx(job, Coinbase(s, g, key, tag, own, head), e) = Coinbase(s, g, key, tag, own, e)
<1> DEFINE f == FieldsWith(s, g, own, head)
<1> DEFINE f1 == [f EXCEPT ![NonceAt(s)] = [@ EXCEPT !.head = e]]
<1>1. /\ Coinbase(s, g, key, tag, own, head) = [key |-> key, tag |-> tag, extra |-> f]
      /\ Coinbase(s, g, key, tag, own, e) = [key |-> key, tag |-> tag, extra |-> FieldsWith(s, g, own, e)]
  BY CoinbaseParts
<1>2. f1 = FieldsWith(s, g, own, e)
  BY NonceFields
<1> HIDE DEF f
<1>3. [[key |-> key, tag |-> tag, extra |-> f] EXCEPT !.extra[NonceAt(s)].head = e]
        = [key |-> key, tag |-> tag, extra |-> f1]
  BY ExtraChanged
<1>4. setExtraNonceInMinerTx(job, [key |-> key, tag |-> tag, extra |-> f], e) =
        [[key |-> key, tag |-> tag, extra |-> f] EXCEPT !.extra[NonceAt(s)].head = e]
  BY DEF setExtraNonceInMinerTx
<1> QED BY <1>1, <1>2, <1>3, <1>4

(***************************************************************************)
(* Blocks as a whole                                                       *)
(***************************************************************************)

BlockIs(s, b, tx) ==
    DOMAIN b = {"carrot", "others", "tx"} /\ (b.carrot <=> s.output = "carrot") /\ b.carrot \in BOOLEAN
    /\ b.others = s.others /\ b.tx = tx

\* One change of a coinbase, and of the coinbase of a block.
KeySet(tx, k) == [tx EXCEPT !.key = k]
TagSet(tx, k) == [tx EXCEPT !.tag = k]
HeadSet(tx, p, k) == [tx EXCEPT !.extra[p].head = k]
RestSet(tx, p, k) == [tx EXCEPT !.extra[p].rest = k]
KeyIn(b, k) == [b EXCEPT !.tx.key = k]
TagIn(b, k) == [b EXCEPT !.tx.tag = k]
HeadIn(b, p, k) == [b EXCEPT !.tx.extra[p].head = k]
RestIn(b, p, k) == [b EXCEPT !.tx.extra[p].rest = k]

LEMMA BlockChanged ==
    ASSUME NEW s, NEW b, NEW tx, BlockIs(s, b, tx), NEW p, NEW k
    PROVE  /\ BlockIs(s, KeyIn(b, k), KeySet(tx, k))
           /\ BlockIs(s, TagIn(b, k), TagSet(tx, k))
           /\ BlockIs(s, HeadIn(b, p, k), HeadSet(tx, p, k))
           /\ BlockIs(s, RestIn(b, p, k), RestSet(tx, p, k))
<1>0. b.tx = tx
  BY DEF BlockIs
<1>1. ASSUME NEW x PROVE BlockIs(s, [b EXCEPT !.tx = x], x)
  BY DEF BlockIs
<1>2. KeyIn(b, k) = [b EXCEPT !.tx = KeySet(tx, k)]
  BY <1>0 DEF KeyIn, KeySet
<1>3. TagIn(b, k) = [b EXCEPT !.tx = TagSet(tx, k)]
  BY <1>0 DEF TagIn, TagSet
<1>4. HeadIn(b, p, k) = [b EXCEPT !.tx = HeadSet(tx, p, k)]
  BY <1>0 DEF HeadIn, HeadSet
<1>5. RestIn(b, p, k) = [b EXCEPT !.tx = RestSet(tx, p, k)]
  BY <1>0 DEF RestIn, RestSet
<1> QED BY <1>1, <1>2, <1>3, <1>4, <1>5

LEMMA ParsedFields ==
    ASSUME NEW s, NEW b, DOMAIN b.tx.extra = DOMAIN s.extra, \A i \in DOMAIN s.extra : b.tx.extra[i].kind = s.extra[i]
    PROVE  parse(b).pubkey = PubkeyAt(s) /\ parse(b).nonce = NonceAt(s)
<1>1. \A kd : FieldsOf(b.tx, kd) = FieldPlaces(s, kd)
  BY DEF FieldsOf, FieldPlaces
<1>2. /\ parse(b).pubkey = IF FieldsOf(b.tx, "pubkey") = {} THEN 0 ELSE Min(FieldsOf(b.tx, "pubkey"))
      /\ parse(b).nonce = IF FieldsOf(b.tx, "nonce") = {} THEN 0 ELSE Max(FieldsOf(b.tx, "nonce"))
  BY DEF parse
<1> QED BY <1>1, <1>2 DEF PubkeyAt, NonceAt

LEMMA ParsedCoinbase ==
    ASSUME NEW s, NEW g, NEW key, NEW tag, NEW own, NEW head, NEW b, BlockIs(s, b, Coinbase(s, g, key, tag, own, head))
    PROVE  parse(b).pubkey = PubkeyAt(s) /\ parse(b).nonce = NonceAt(s)
<1>1. b.tx = Coinbase(s, g, key, tag, own, head)
  BY DEF BlockIs
<1>2. DOMAIN b.tx.extra = DOMAIN s.extra /\ \A i \in DOMAIN s.extra : b.tx.extra[i].kind = s.extra[i]
  BY <1>1 DEF Coinbase
<1> QED BY <1>2, ParsedFields

\* Blocks that agree have one root.
LEMMA SameRoot ==
    ASSUME NEW s, NEW b, NEW c, NEW tx, BlockIs(s, b, tx), BlockIs(s, c, tx)
    PROVE  TreeHash(hashesOf(b)) = TreeHash(hashesOf(c))
<1>1. b.tx = c.tx /\ b.others = c.others /\ (b.carrot <=> c.carrot)
  BY DEF BlockIs
<1>2. hashesOf(b) = hashesOf(c)
  <2>1. CASE b.carrot
    <3>1. c.carrot
      BY <1>1, <2>1
    <3> QED BY <1>1, <2>1, <3>1 DEF hashesOf
  <2>2. CASE ~b.carrot
    <3>1. ~c.carrot
      BY <1>1, <2>2
    <3> QED BY <1>1, <2>2, <3>1 DEF hashesOf
  <2> QED BY <2>1, <2>2
<1> QED BY <1>2

LEMMA BlockWithIs == ASSUME NEW s, NEW tx PROVE BlockIs(s, BlockWith(s, tx), tx)
BY DEF BlockIs, BlockWith

TemplateFields(s, g) == [i \in DOMAIN s.extra |-> [kind |-> s.extra[i], head |-> -g, rest |-> -g]]
TemplateTx(s, g) == [key |-> -g, tag |-> -g, extra |-> TemplateFields(s, g)]

LEMMA TemplateIs ==
    ASSUME NEW g
    PROVE  BlockIs(shape, Template(g), TemplateTx(shape, g))
           /\ parse(Template(g)).nonce = NonceAt(shape) /\ parse(Template(g)).pubkey = PubkeyAt(shape)
<1>1. BlockIs(shape, Template(g), TemplateTx(shape, g))
  BY DEF BlockIs, Template, TemplateTx, TemplateFields
<1>2. Template(g).tx = TemplateTx(shape, g)
  BY <1>1 DEF BlockIs
<1>3. DOMAIN Template(g).tx.extra = DOMAIN shape.extra /\ \A i \in DOMAIN shape.extra : Template(g).tx.extra[i].kind = shape.extra[i]
  BY <1>2 DEF TemplateTx, TemplateFields
<1> QED BY <1>1, <1>3, ParsedFields

LEMMA ReserveFields ==
    ASSUME NEW s, NEW g, NEW k, k = 100 + g
    PROVE  [[TemplateFields(s, g) EXCEPT ![NonceAt(s)] = [@ EXCEPT !.head = k]]
               EXCEPT ![NonceAt(s)] = [@ EXCEPT !.rest = k]] = FieldsWith(s, g, -g, k)
<1> DEFINE f == TemplateFields(s, g)
<1> DEFINE n == NonceAt(s)
<1> DEFINE f1 == [f EXCEPT ![n] = [@ EXCEPT !.head = k]]
<1> DEFINE f2 == [f1 EXCEPT ![n] = [@ EXCEPT !.rest = k]]
<1> DEFINE D == DOMAIN s.extra
<1>1. DOMAIN f = D /\ \A i \in D : f[i] = [kind |-> s.extra[i], head |-> -g, rest |-> -g]
  BY DEF TemplateFields
<1> HIDE DEF f, n, D
<1>2. f1 = [i \in D |-> IF i = n THEN [f[n] EXCEPT !.head = k] ELSE f[i]]
  BY <1>1
<1> HIDE DEF f1
<1>3. f2 = [i \in D |-> IF i = n THEN [f1[n] EXCEPT !.rest = k] ELSE f1[i]]
  BY <1>2
<1> HIDE DEF f2
<1>4. ASSUME NEW i \in D
      PROVE  f2[i] = [kind |-> s.extra[i], head |-> IF i = n THEN k ELSE IF i = PubkeyAt(s) THEN -g ELSE -g,
                      rest |-> IF i = n THEN 100 + g ELSE IF i = PubkeyAt(s) THEN -g ELSE -g]
  <2>1. CASE i = n
    <3>1. f[n] = [kind |-> s.extra[n], head |-> -g, rest |-> -g]
      BY <1>1, <2>1
    <3>2. f1[n] = [kind |-> s.extra[n], head |-> k, rest |-> -g]
      BY <1>2, <2>1, <3>1, FieldChanged
    <3>3. f2[n] = [kind |-> s.extra[n], head |-> k, rest |-> k]
      BY <1>3, <2>1, <3>2, FieldChanged
    <3> QED BY <2>1, <3>3
  <2>2. CASE i # n
    BY <1>1, <1>2, <1>3, <2>2
  <2> QED BY <2>1, <2>2
<1>5. FieldsWith(s, g, -g, k) =
        [i \in D |-> [kind |-> s.extra[i], head |-> IF i = n THEN k ELSE IF i = PubkeyAt(s) THEN -g ELSE -g,
                      rest |-> IF i = n THEN 100 + g ELSE IF i = PubkeyAt(s) THEN -g ELSE -g]]
  BY DEF FieldsWith, D, n
<1>6. f2 = FieldsWith(s, g, -g, k)
  BY <1>3, <1>4, <1>5
<1> QED BY <1>6 DEF f2, f1, f, n

First(s, g) == Coinbase(s, g, -g, -g, -g, 100 + g)

\* The block that installTemplate makes of a template.
LEMMA MutatedIs ==
    ASSUME NEW s, NEW g, NEW b, BlockIs(s, b, TemplateTx(s, g)), NEW k, k = 100 + g, NEW n, n = NonceAt(s)
    PROVE  BlockIs(s, [b EXCEPT !.tx.extra[n].head = k, !.tx.extra[n].rest = k], First(s, g))
<1> DEFINE f == TemplateFields(s, g)
<1> DEFINE f1 == [f EXCEPT ![n] = [@ EXCEPT !.head = k]]
<1> DEFINE f2 == [f1 EXCEPT ![n] = [@ EXCEPT !.rest = k]]
<1> DEFINE x == [key |-> -g, tag |-> -g, extra |-> f]
<1>1. TemplateTx(s, g) = x
  BY DEF TemplateTx
<1>2. f2 = FieldsWith(s, g, -g, k)
  BY ReserveFields
<1> HIDE DEF f
<1>3. HeadSet(x, n, k) = [key |-> -g, tag |-> -g, extra |-> f1]
  BY ExtraChanged DEF HeadSet
<1> HIDE DEF f1
<1>4. RestSet([key |-> -g, tag |-> -g, extra |-> f1], n, k) = [key |-> -g, tag |-> -g, extra |-> f2]
  BY ExtraChanged DEF RestSet
<1> HIDE DEF f2, x
<1>5. First(s, g) = [key |-> -g, tag |-> -g, extra |-> f2]
  BY <1>2, CoinbaseParts DEF First
<1>6. BlockIs(s, RestIn(HeadIn(b, n, k), n, k), RestSet(HeadSet(x, n, k), n, k))
  BY <1>1, BlockChanged
<1>7. RestSet(HeadSet(x, n, k), n, k) = First(s, g)
  BY <1>3, <1>4, <1>5
<1>8. [b EXCEPT !.tx.extra[n].head = k, !.tx.extra[n].rest = k] = RestIn(HeadIn(b, n, k), n, k)
  BY DEF RestIn, HeadIn
<1> QED BY <1>6, <1>7, <1>8


LEMMA CoinbaseSets ==
    ASSUME NEW s, NEW g, NEW key, NEW tag, NEW own, NEW head, NEW k
    PROVE  /\ TagSet(Coinbase(s, g, key, tag, own, head), k) = Coinbase(s, g, key, k, own, head)
           /\ HeadSet(Coinbase(s, g, key, tag, own, head), NonceAt(s), k) = Coinbase(s, g, key, tag, own, k)
           /\ ShapeOK(s) /\ NonceAt(s) # 0 =>
                RestSet(HeadSet(KeySet(Coinbase(s, g, key, tag, own, head), k), PubkeyAt(s), k), PubkeyAt(s), k)
                  = Coinbase(s, g, k, tag, k, head)
<1> DEFINE c == Coinbase(s, g, key, tag, own, head)
<1> DEFINE job == [pubkey |-> PubkeyAt(s), nonce |-> NonceAt(s)]
<1>1. job.pubkey = PubkeyAt(s) /\ job.nonce = NonceAt(s)
  OBVIOUS
<1> HIDE DEF job
<1>2. setViewTagInMinerTx(c, k) = Coinbase(s, g, key, k, own, head)
  BY TagCoinbase
<1>3. setExtraNonceInMinerTx(job, c, k) = Coinbase(s, g, key, tag, own, k)
  BY <1>1, NonceCoinbase
<1>4. ShapeOK(s) /\ NonceAt(s) # 0 => generateSignatureData(job, c, k) = Coinbase(s, g, k, tag, k, head)
  BY <1>1, SignCoinbase
<1> HIDE DEF c
<1>5. setViewTagInMinerTx(c, k) = TagSet(c, k)
  BY DEF setViewTagInMinerTx, TagSet
<1>6. setExtraNonceInMinerTx(job, c, k) = HeadSet(c, NonceAt(s), k)
  BY <1>1 DEF setExtraNonceInMinerTx, HeadSet
<1>7. generateSignatureData(job, c, k) = RestSet(HeadSet(KeySet(c, k), PubkeyAt(s), k), PubkeyAt(s), k)
  <2>1. generateSignatureData(job, c, k) = [c EXCEPT !.key = k, !.extra[PubkeyAt(s)].head = k, !.extra[PubkeyAt(s)].rest = k]
    BY <1>1 DEF generateSignatureData
  <2> QED BY <2>1 DEF RestSet, HeadSet, KeySet
<1> QED BY <1>2, <1>3, <1>4, <1>5, <1>6, <1>7 DEF c

\* What submit makes of the block of a job.
LEMMA FinalIs ==
    ASSUME ShapeOK(shape), NonceAt(shape) # 0, NEW g, NEW b, BlockIs(shape, b, First(shape, g)), NEW t
    PROVE  BlockIs(shape, finalBlock(b, t), Mined(shape, g, t.key, t.extra))
<1> DEFINE k == t.key
<1> DEFINE e == t.extra
<1> DEFINE P == PubkeyAt(shape)
<1> DEFINE N == NonceAt(shape)
<1> DEFINE own == IF shape.signed THEN k ELSE -g
<1> DEFINE tag == IF shape.signed /\ shape.output = "tagged" THEN k ELSE -g
<1> DEFINE signed == IF shape.signed
                     THEN [b EXCEPT !.tx.key = k, !.tx.extra[P].head = k, !.tx.extra[P].rest = k,
                                    !.tx.tag = IF hasViewTag THEN k ELSE b.tx.tag]
                     ELSE b
<1>0. parse(b).pubkey = P /\ parse(b).nonce = N
  BY ParsedCoinbase DEF First
<1>1. finalBlock(b, t) = IF e >= 0 THEN [signed EXCEPT !.tx.extra[N].head = e] ELSE signed
  BY <1>0 DEF finalBlock
<1>2. BlockIs(shape, signed, Coinbase(shape, g, own, tag, own, 100 + g))
  <2>1. CASE shape.signed
    <3> DEFINE v == IF hasViewTag THEN k ELSE b.tx.tag
    <3>1. signed = TagIn(RestIn(HeadIn(KeyIn(b, k), P, k), P, k), v)
      <4>1. signed = [b EXCEPT !.tx.key = k, !.tx.extra[P].head = k, !.tx.extra[P].rest = k, !.tx.tag = v]
        BY <2>1
      <4> HIDE DEF signed, k, P, v
      <4> QED BY <4>1 DEF KeyIn, TagIn, HeadIn, RestIn
    <3>2. own = k /\ v = tag
      <4>1. b.tx = First(shape, g)
        BY DEF BlockIs
      <4>2. b.tx.tag = -g
        BY <4>1 DEF First, Coinbase
      <4> QED BY <2>1, <4>2 DEF hasViewTag
    <3> HIDE DEF signed, v, tag, P, k
    <3> DEFINE c == First(shape, g)
    <3>3. BlockIs(shape, RestIn(HeadIn(KeyIn(b, k), P, k), P, k), RestSet(HeadSet(KeySet(c, k), P, k), P, k))
      BY BlockChanged
    <3>4. RestSet(HeadSet(KeySet(c, k), P, k), P, k) = Coinbase(shape, g, k, -g, k, 100 + g)
      BY CoinbaseSets DEF First, P
    <3> HIDE DEF c
    <3>5. BlockIs(shape, TagIn(RestIn(HeadIn(KeyIn(b, k), P, k), P, k), v), TagSet(Coinbase(shape, g, k, -g, k, 100 + g), v))
      BY <3>3, <3>4, BlockChanged
    <3>6. TagSet(Coinbase(shape, g, k, -g, k, 100 + g), v) = Coinbase(shape, g, k, v, k, 100 + g)
      BY CoinbaseSets
    <3> QED BY <3>1, <3>2, <3>5, <3>6
  <2>2. CASE ~shape.signed
    <3>1. signed = b /\ own = -g /\ tag = -g
      BY <2>2
    <3> QED BY <3>1 DEF First
  <2> QED BY <2>1, <2>2
<1> HIDE DEF signed, own, tag
<1>3. CASE e >= 0
  <2>1. finalBlock(b, t) = HeadIn(signed, N, e)
    BY <1>1, <1>3 DEF HeadIn
  <2>2. BlockIs(shape, HeadIn(signed, N, e), HeadSet(Coinbase(shape, g, own, tag, own, 100 + g), N, e))
    BY <1>2, BlockChanged
  <2>3. HeadSet(Coinbase(shape, g, own, tag, own, 100 + g), N, e) = Coinbase(shape, g, own, tag, own, e)
    BY CoinbaseSets
  <2>4. Mined(shape, g, k, e) = Coinbase(shape, g, own, tag, own, e)
    BY <1>3 DEF Mined, own, tag
  <2> QED BY <2>1, <2>2, <2>3, <2>4
<1>4. CASE ~ (e >= 0)
  <2>1. finalBlock(b, t) = signed
    BY <1>1, <1>4
  <2>2. Mined(shape, g, k, e) = Coinbase(shape, g, own, tag, own, 100 + g)
    BY <1>4 DEF Mined, own, tag
  <2> QED BY <1>2, <2>1, <2>2
<1> QED BY <1>3, <1>4

(***************************************************************************)
(* What is sent of a job                                                   *)
(***************************************************************************)

PrefixOK(s, g, tx) ==
    \E key, tag, own, head :
      /\ tx = Coinbase(s, g, key, tag, own, head)
      /\ ~s.signed => key = -g /\ tag = -g /\ own = -g
      /\ s.output # "tagged" => tag = -g
      /\ ~s.extraNonce => head = 100 + g

JobFields == {"id", "prefix", "raw", "pubkey", "nonce", "branch", "path"}

\* A job of one of n contexts.
JobOf(s, g, b, job) ==
    /\ BlockIs(s, b, First(s, g)) /\ NonceAt(s) # 0
    /\ DOMAIN job = JobFields /\ job.id = g /\ job.pubkey = PubkeyAt(s) /\ job.nonce = NonceAt(s)
    /\ job.raw = parse(b).root /\ job.branch = parse(b).branch /\ job.path = parse(b).path
    /\ s.signed \/ s.extraNonce => PrefixOK(s, g, job.prefix)

JobOK(s, n, job) == \E g \in 1..n : \E b : JobOf(s, g, b, job)

ToldOK(s, n, t) ==
    t.id \in 1..n /\ t.root = TreeHash(hashesOf(BlockWith(s, Mined(s, t.id, t.key, t.extra))))

LEMMA MinerTxIs ==
    ASSUME ShapeOK(shape), ~TaggedExtra, NonceAt(shape) # 0, NEW g, NEW job,
           job.pubkey = PubkeyAt(shape), job.nonce = NonceAt(shape), PrefixOK(shape, g, job.prefix),
           NEW k, NEW e, e >= 0 <=> shape.extraNonce, shape.signed \/ shape.extraNonce
    PROVE  minerTx(job, k, e) = Mined(shape, g, k, e) /\ PrefixOK(shape, g, Mined(shape, g, k, e))
<1>1. PICK key, tag, own, head :
        /\ job.prefix = Coinbase(shape, g, key, tag, own, head)
        /\ ~shape.signed => key = -g /\ tag = -g /\ own = -g
        /\ shape.output # "tagged" => tag = -g
        /\ ~shape.extraNonce => head = 100 + g
  BY DEF PrefixOK
<1> DEFINE s == shape
<1> DEFINE key2 == IF s.signed THEN k ELSE -g
<1> DEFINE tag2 == IF s.signed /\ s.output = "tagged" THEN k ELSE -g
<1> DEFINE head2 == IF e >= 0 THEN e ELSE 100 + g
<1> DEFINE signed == IF shape.signed THEN generateSignatureData(job, job.prefix, k) ELSE job.prefix
<1> DEFINE tagged == IF hasViewTag THEN setViewTagInMinerTx(signed, IF shape.signed THEN k ELSE 0) ELSE signed
<1>2. signed = Coinbase(s, g, key2, tag, key2, head)
  <2>1. CASE shape.signed
    BY <1>1, <2>1, SignCoinbase
  <2>2. CASE ~shape.signed
    BY <1>1, <2>2
  <2> QED BY <2>1, <2>2
<1> HIDE DEF signed
<1>3. tagged = Coinbase(s, g, key2, tag2, key2, head)
  <2> HIDE DEF key2
  <2>1. CASE hasViewTag /\ shape.signed
    <3>1. tagged = setViewTagInMinerTx(signed, k) /\ tag2 = k
      BY <2>1 DEF hasViewTag
    <3> QED BY <1>2, <3>1, TagCoinbase
  <2>2. CASE hasViewTag /\ ~shape.signed
    <3>1. shape.extraNonce /\ shape.output = "tagged"
      BY <2>2 DEF hasViewTag
    <3> QED BY <2>2, <3>1 DEF ShapeOK
  <2>3. CASE ~hasViewTag
    <3>1. tagged = signed /\ tag2 = -g /\ tag = -g
      BY <1>1, <2>3 DEF hasViewTag
    <3> QED BY <1>2, <3>1
  <2> QED BY <2>1, <2>2, <2>3
<1> HIDE DEF tagged, key2, tag2
<1>4. minerTx(job, k, e) = IF e >= 0 THEN setExtraNonceInMinerTx(job, tagged, e) ELSE tagged
  BY DEF minerTx, tagged, signed
<1>5. minerTx(job, k, e) = Coinbase(s, g, key2, tag2, key2, head2)
  <2>1. CASE e >= 0
    <3>1. head2 = e
      BY <2>1
    <3> QED BY <1>3, <1>4, <2>1, <3>1, NonceCoinbase
  <2>2. CASE ~ (e >= 0)
    <3>1. head2 = 100 + g /\ head = 100 + g
      BY <1>1, <2>2
    <3> QED BY <1>3, <1>4, <2>2, <3>1
  <2> QED BY <2>1, <2>2
<1>6. Mined(s, g, k, e) = Coinbase(s, g, key2, tag2, key2, head2)
  BY DEF Mined, key2, tag2
<1>7. /\ ~s.signed => key2 = -g /\ tag2 = -g
      /\ s.output # "tagged" => tag2 = -g
      /\ ~s.extraNonce => head2 = 100 + g
  BY DEF key2, tag2
<1> HIDE DEF head2
<1>8. PrefixOK(s, g, Mined(s, g, k, e))
  BY <1>6, <1>7 DEF PrefixOK
<1> QED BY <1>5, <1>6, <1>8

\* A job that is sent is remembered with the root of the block that submit will make.
LEMMA SetJobOK ==
    ASSUME ShapeOK(shape), ~TaggedExtra, NEW n \in Nat, NEW job, JobOK(shape, n, job), NEW k, NEW e,
           e >= 0 <=> shape.extraNonce
    PROVE  JobOK(shape, n, setJob(job, k, e).job) /\ ToldOK(shape, n, setJob(job, k, e).telemetry)
<1> DEFINE s == shape
<1> DEFINE tx == minerTx(job, k, e)
<1> DEFINE root == IF shape.signed \/ e >= 0 THEN generateHashingBlob(job, tx) ELSE job.raw
<1> DEFINE job2 == [job EXCEPT !.prefix = tx]
<1> DEFINE t == rememberJob(job, root, k, e)
<1>0. PICK g \in 1..n : \E b : JobOf(s, g, b, job)
  BY DEF JobOK
<1>10. PICK b : JobOf(s, g, b, job)
  BY <1>0
<1>1. /\ BlockIs(s, b, First(s, g)) /\ NonceAt(s) # 0
      /\ DOMAIN job = JobFields /\ job.id = g /\ job.pubkey = PubkeyAt(s) /\ job.nonce = NonceAt(s)
      /\ job.raw = parse(b).root /\ job.branch = parse(b).branch /\ job.path = parse(b).path
      /\ s.signed \/ s.extraNonce => PrefixOK(s, g, job.prefix)
  BY <1>10 DEF JobOf
<1>2. setJob(job, k, e).job = job2 /\ setJob(job, k, e).telemetry = t
  BY DEF setJob
<1>3. t.id = g /\ t.root = root /\ t.key = k /\ t.extra = e
  BY <1>1 DEF rememberJob
<1> DEFINE c == BlockWith(s, Mined(s, g, k, e))
<1>4. BlockIs(s, c, Mined(s, g, k, e)) /\ b.carrot \in BOOLEAN /\ b.others \in Nat
      /\ c.carrot = b.carrot /\ c.others = b.others /\ c.tx = Mined(s, g, k, e) /\ b.tx = First(s, g)
  <2>1. BlockIs(s, c, Mined(s, g, k, e))
    BY BlockWithIs
  <2> HIDE DEF c
  <2>2. (c.carrot <=> b.carrot) /\ c.carrot \in BOOLEAN /\ b.carrot \in BOOLEAN /\ c.others = b.others
        /\ c.tx = Mined(s, g, k, e) /\ b.tx = First(s, g) /\ b.others = s.others
    BY <1>1, <2>1 DEF BlockIs
  <2>3. b.others \in Nat
    BY <2>2 DEF ShapeOK
  <2>4. c.carrot = b.carrot
    BY <2>2
  <2> QED BY <2>1, <2>2, <2>3, <2>4
<1>5. s.signed \/ s.extraNonce => tx = Mined(s, g, k, e) /\ PrefixOK(s, g, tx)
  BY <1>1, MinerTxIs
<1> HIDE DEF t, c
<1>6. root = TreeHash(hashesOf(c))
  <2>1. /\ calculateRootHash(c.tx, parse(b).branch, parse(b).path) = TreeHash(hashesOf(c))
        /\ c.tx = b.tx => parse(b).root = TreeHash(hashesOf(c))
    BY <1>4, RootsAgree
  <2>2. CASE s.signed \/ e >= 0
    <3>1. s.signed \/ s.extraNonce
      BY <2>2
    <3>2. root = generateHashingBlob(job, tx) /\ tx = c.tx
      BY <1>4, <1>5, <2>2, <3>1
    <3> HIDE DEF tx, root
    <3> QED BY <1>1, <2>1, <3>2 DEF generateHashingBlob
  <2>3. CASE ~ (s.signed \/ e >= 0)
    <3>1. root = job.raw
      BY <2>3
    <3>2. c.tx = b.tx
      BY <1>4, <2>3 DEF Mined, First
    <3> HIDE DEF tx, root
    <3> QED BY <1>1, <2>1, <3>1, <3>2
  <2> QED BY <2>2, <2>3
<1> HIDE DEF tx, root
<1>7. ToldOK(s, n, t)
  BY <1>3, <1>6 DEF ToldOK, c
<1>8. DOMAIN job2 = JobFields /\ job2.id = g /\ job2.pubkey = PubkeyAt(s) /\ job2.nonce = NonceAt(s)
      /\ job2.raw = parse(b).root /\ job2.branch = parse(b).branch /\ job2.path = parse(b).path /\ job2.prefix = tx
  BY <1>1 DEF JobFields
<1> HIDE DEF job2
<1>9. JobOK(s, n, job2)
  <2>1. JobOf(s, g, b, job2)
    BY <1>1, <1>5, <1>8 DEF JobOf
  <2> QED BY <2>1 DEF JobOK
<1> QED BY <1>2, <1>7, <1>9

(***************************************************************************)
(* The invariant                                                           *)
(***************************************************************************)

WorkOK(s, n, w) == \E A : w \in Seq(A) /\ \A t \in A : ToldOK(s, n, t)

\* What a send leaves; here are the miners that get jobs.
SendOK(s, n, w, here) ==
    /\ w.storage.next \in Nat /\ JobOK(s, n, w.storage.job)
    /\ DOMAIN w.work = BMiners
    /\ \A q \in BMiners : IF q \in here THEN WorkOK(s, n, w.work[q]) ELSE w.work[q] = Gone

SameButOne(tx, made) ==
    /\ tx.key = made.key /\ tx.tag = made.tag
    /\ Cardinality({i \in DOMAIN tx.extra : tx.extra[i] # made.extra[i]}) = 1

MinedOK(s, b) ==
    b.id # 0 =>
      /\ TreeHash(hashesOf(b.sent)) = b.root
      /\ ~s.signed => SameButOne(b.sent.tx, TemplateTx(s, b.id))

ContextsOK(s, cs) ==
    /\ \E A : cs \in Seq(A)
    /\ \A g \in 1..Len(cs) : BlockIs(s, cs[g], First(s, g)) /\ NonceAt(s) # 0

StorageOK(s, n, st) == st.next \in Nat /\ (st.job = NoJob \/ JobOK(s, n, st.job))

BlockInv ==
    /\ ShapeOK(shape) /\ ContextsOK(shape, contexts) /\ StorageOK(shape, Len(contexts), storage)
    /\ DOMAIN work = BMiners /\ \A m \in BMiners : work[m] = Gone \/ WorkOK(shape, Len(contexts), work[m])
    /\ MinedOK(shape, block)

LEMMA MoreContexts ==
    ASSUME NEW s, NEW n \in Nat, NEW n2 \in Nat, n <= n2
    PROVE  /\ \A job : JobOK(s, n, job) => JobOK(s, n2, job)
           /\ \A w : WorkOK(s, n, w) => WorkOK(s, n2, w)
<1>1. \A g \in 1..n : g \in 1..n2
  OBVIOUS
<1>2. \A t : ToldOK(s, n, t) => ToldOK(s, n2, t)
  BY <1>1 DEF ToldOK
<1>3. \A job : JobOK(s, n, job) => JobOK(s, n2, job)
  <2> SUFFICES ASSUME NEW job, JobOK(s, n, job) PROVE JobOK(s, n2, job)
    OBVIOUS
  <2>1. PICK g \in 1..n : \E b : JobOf(s, g, b, job)
    BY DEF JobOK
  <2>2. g \in 1..n2
    BY <1>1
  <2> QED BY <2>1, <2>2 DEF JobOK
<1>4. \A w : WorkOK(s, n, w) => WorkOK(s, n2, w)
  BY <1>2 DEF WorkOK
<1> QED BY <1>3, <1>4

LEMMA LongerWork ==
    ASSUME NEW s, NEW n, NEW w, WorkOK(s, n, w), NEW t, ToldOK(s, n, t)
    PROVE  WorkOK(s, n, <<t>> \o w)
<1>1. PICK A : w \in Seq(A) /\ \A u \in A : ToldOK(s, n, u)
  BY DEF WorkOK
<1> DEFINE B == A \cup {t}
<1>2. \A u \in B : ToldOK(s, n, u)
  BY <1>1
<1>3. w \in Seq(B)
  BY <1>1, SeqWider
<1>4. t \in B
  OBVIOUS
<1> HIDE DEF B
<1>5. <<t>> \in Seq(B)
  BY <1>4
<1> DEFINE p == <<t>>
<1>6. p \in Seq(B)
  BY <1>5
<1> HIDE DEF p
<1>7. p \o w \in Seq(B)
  BY <1>3, <1>6, Concat
<1>8. WorkOK(s, n, p \o w)
  BY <1>2, <1>7 DEF WorkOK
<1> QED BY <1>8 DEF p

LEMMA SendToOK ==
    ASSUME ShapeOK(shape), ~TaggedExtra, NEW n \in Nat, NEW w, NEW here, SendOK(shape, n, w, here), NEW m \in BMiners, m \in here
    PROVE  SendOK(shape, n, sendTo(w, m), here)
<1> DEFINE e == IF shape.extraNonce THEN w.storage.next ELSE -1
<1> DEFINE out == setJob(w.storage.job, w.keys + 1, e)
<1> DEFINE work2 == [w.work EXCEPT ![m] = <<out.telemetry>> \o w.work[m]]
<1> DEFINE keys2 == IF shape.signed THEN w.keys + 1 ELSE w.keys
<1> DEFINE w2 == [storage |-> [job |-> out.job, next |-> w.storage.next + 1], keys |-> keys2, work |-> work2]
<1>0. w.storage.next \in Nat /\ JobOK(shape, n, w.storage.job) /\ DOMAIN w.work = BMiners
      /\ \A q \in BMiners : IF q \in here THEN WorkOK(shape, n, w.work[q]) ELSE w.work[q] = Gone
  BY DEF SendOK
<1>1. sendTo(w, m) = w2
  BY DEF sendTo
<1>2. e >= 0 <=> shape.extraNonce
  <2>1. CASE shape.extraNonce
    BY <1>0, <2>1
  <2>2. CASE ~shape.extraNonce
    BY <2>2
  <2> QED BY <2>1, <2>2
<1> HIDE DEF e, keys2
<1>3. JobOK(shape, n, out.job) /\ ToldOK(shape, n, out.telemetry)
  BY <1>0, <1>2, SetJobOK
<1> HIDE DEF out
<1>4. WorkOK(shape, n, <<out.telemetry>> \o w.work[m])
  BY <1>0, <1>3, LongerWork
<1> DEFINE x == <<out.telemetry>> \o w.work[m]
<1>5. work2 = [w.work EXCEPT ![m] = x] /\ WorkOK(shape, n, x)
  BY <1>4
<1> HIDE DEF x, work2
<1>6. DOMAIN work2 = BMiners /\ work2[m] = x /\ \A q \in BMiners : q # m => work2[q] = w.work[q]
  BY <1>0, <1>5
<1>7. w2.storage.next = w.storage.next + 1 /\ w2.storage.job = out.job /\ w2.work = work2
  OBVIOUS
<1> HIDE DEF w2
<1>8. SendOK(shape, n, w2, here)
  <2>1. w2.storage.next \in Nat
    BY <1>0, <1>7
  <2>2. \A q \in BMiners : IF q \in here THEN WorkOK(shape, n, w2.work[q]) ELSE w2.work[q] = Gone
    BY <1>0, <1>5, <1>6, <1>7
  <2> QED BY <1>3, <1>6, <1>7, <2>1, <2>2 DEF SendOK
<1> QED BY <1>1, <1>8

\* The miners get the job one after the other.
SentUpTo(f, start, m) ==
    f = [q \in 0..m |-> IF q = 0 THEN start ELSE IF work[q] = Gone THEN f[q - 1] ELSE sendTo(f[q - 1], q)]

LEMMA SentToAll ==
    ASSUME ShapeOK(shape), ~TaggedExtra, NEW n \in Nat, NEW here, \A q \in BMiners : work[q] # Gone => q \in here,
           NEW start, SendOK(shape, n, start, here)
    PROVE  \E f : SentUpTo(f, start, MaxMinerId) /\ SendOK(shape, n, f[MaxMinerId], here)
<1> DEFINE Made(m) == \E f : SentUpTo(f, start, m) /\ SendOK(shape, n, f[m], here)
<1> DEFINE S == {m \in 0..MaxMinerId : Made(m)}
<1>0. MaxMinerId \in Nat
  BY BlockAssumption
<1>1. 0 \in S
  <2> DEFINE f == [q \in 0..0 |-> start]
  <2>1. \A q \in 0..0 : q = 0
    OBVIOUS
  <2>2. f[0] = start
    OBVIOUS
  <2>3. SentUpTo(f, start, 0)
    BY <2>1 DEF SentUpTo
  <2> HIDE DEF f
  <2>4. Made(0)
    BY <2>2, <2>3
  <2> QED BY <1>0, <2>4
<1>2. ASSUME NEW m \in 1..MaxMinerId, m - 1 \in S PROVE m \in S
  <2>0. m \in 0..MaxMinerId /\ m \in Nat /\ m # 0 /\ m - 1 \in 0..(m - 1) /\ m \in BMiners
    BY <1>0 DEF BMiners
  <2>1. PICK f : SentUpTo(f, start, m - 1) /\ SendOK(shape, n, f[m - 1], here)
    BY <1>2
  <2> DEFINE x == IF work[m] = Gone THEN f[m - 1] ELSE sendTo(f[m - 1], m)
  <2>2. SendOK(shape, n, x, here)
    <3>1. CASE work[m] = Gone
      BY <2>1, <3>1
    <3>2. CASE work[m] # Gone
      <4>1. m \in here
        BY <2>0, <3>2
      <4>2. SendOK(shape, n, sendTo(f[m - 1], m), here)
        BY <2>0, <2>1, <4>1, SendToOK
      <4> QED BY <3>2, <4>2
    <3> QED BY <3>1, <3>2
  <2> DEFINE f2 == [q \in 0..m |-> IF q = m THEN x ELSE f[q]]
  <2>3. f2[m] = x /\ \A q \in 0..(m - 1) : f2[q] = f[q]
    BY <2>0
  <2>4. f2 = [q \in 0..m |-> f2[q]]
    OBVIOUS
  <2> HIDE DEF f2
  <2>5. f = [q \in 0..(m - 1) |-> IF q = 0 THEN start ELSE IF work[q] = Gone THEN f[q - 1] ELSE sendTo(f[q - 1], q)]
    BY <2>1 DEF SentUpTo
  <2>6. ASSUME NEW q \in 0..m
        PROVE  f2[q] = IF q = 0 THEN start ELSE IF work[q] = Gone THEN f2[q - 1] ELSE sendTo(f2[q - 1], q)
    <3>1. CASE q = m
      <4>1. f2[q - 1] = f[m - 1] /\ q # 0
        BY <2>0, <2>3, <3>1
      <4> QED BY <2>3, <3>1, <4>1
    <3>2. CASE q = 0
      <4>1. q \in 0..(m - 1)
        BY <2>0, <3>2
      <4>2. f[q] = start
        BY <2>5, <3>2, <4>1
      <4> QED BY <2>3, <3>2, <4>1, <4>2
    <3>3. CASE q # m /\ q # 0
      <4>1. q \in 0..(m - 1) /\ q - 1 \in 0..(m - 1)
        BY <2>0, <3>3
      <4>2. f[q] = IF work[q] = Gone THEN f[q - 1] ELSE sendTo(f[q - 1], q)
        BY <2>5, <3>3, <4>1
      <4>3. f2[q] = f[q] /\ f2[q - 1] = f[q - 1]
        BY <2>3, <4>1
      <4> QED BY <3>3, <4>2, <4>3
    <3> QED BY <3>1, <3>2, <3>3
  <2>7. f2 = [q \in 0..m |-> IF q = 0 THEN start ELSE IF work[q] = Gone THEN f2[q - 1] ELSE sendTo(f2[q - 1], q)]
    BY <2>4, <2>6
  <2>8. SentUpTo(f2, start, m)
    BY <2>7 DEF SentUpTo
  <2>9. SendOK(shape, n, f2[m], here)
    BY <2>2, <2>3
  <2>10. Made(m)
    BY <2>8, <2>9
  <2> QED BY <2>0, <2>10
<1> HIDE DEF S
<1>3. \A m \in 0..MaxMinerId : m \in S
  BY <1>0, <1>1, <1>2, UpTo
<1>4. MaxMinerId \in S
  BY <1>0, <1>3
<1> QED BY <1>4 DEF S

LEMMA BlockKept ==
    ASSUME BlockInv, UNCHANGED <<shape, contexts, storage, work>>, MinedOK(shape, block')
    PROVE  BlockInv'
<1>1. shape' = shape /\ contexts' = contexts /\ storage' = storage /\ work' = work
  OBVIOUS
<1>2. /\ ShapeOK(shape) /\ ContextsOK(shape, contexts) /\ StorageOK(shape, Len(contexts), storage)
      /\ DOMAIN work = BMiners /\ \A m \in BMiners : work[m] = Gone \/ WorkOK(shape, Len(contexts), work[m])
  BY DEF BlockInv
<1>3. /\ ShapeOK(shape') /\ ContextsOK(shape', contexts') /\ StorageOK(shape', Len(contexts'), storage')
      /\ DOMAIN work' = BMiners /\ \A m \in BMiners : work'[m] = Gone \/ WorkOK(shape', Len(contexts'), work'[m])
      /\ MinedOK(shape', block')
  BY <1>1, <1>2
<1> QED BY <1>3 DEF BlockInv

LEMMA BlockSent ==
    ASSUME BlockInv, shape' = shape, block' = block, ContextsOK(shape, contexts'),
           NEW w, NEW here, SendOK(shape, Len(contexts'), w, here), SendJobs(w)
    PROVE  BlockInv'
<1>1. storage' = w.storage /\ work' = w.work
  BY DEF SendJobs
<1>2. ShapeOK(shape) /\ MinedOK(shape, block)
  BY DEF BlockInv
<1>3. StorageOK(shape, Len(contexts'), storage') /\ DOMAIN work' = BMiners
      /\ \A m \in BMiners : work'[m] = Gone \/ WorkOK(shape, Len(contexts'), work'[m])
  BY <1>1 DEF SendOK, StorageOK
<1>4. /\ ShapeOK(shape') /\ ContextsOK(shape', contexts') /\ StorageOK(shape', Len(contexts'), storage')
      /\ DOMAIN work' = BMiners /\ \A m \in BMiners : work'[m] = Gone \/ WorkOK(shape', Len(contexts'), work'[m])
      /\ MinedOK(shape', block')
  BY <1>2, <1>3
<1> QED BY <1>4 DEF BlockInv

LEMMA InstallStep ==
    ASSUME ~TaggedExtra, BlockInv, NEW reserved, NEW agrees, InstallTemplate(reserved, agrees)
    PROVE  BlockInv'
<1> DEFINE n == Len(contexts)
<1> DEFINE id == n + 1
<1> DEFINE original == Template(id)
<1> DEFINE nonce == parse(original).nonce
<1> DEFINE mutated == [original EXCEPT !.tx.extra[nonce].head = 100 + id, !.tx.extra[nonce].rest = 100 + id]
<1> DEFINE start == [storage |-> [job |-> NewJob(id, mutated), next |-> 0], keys |-> keys, work |-> work]
<1> DEFINE sent[m \in 0..MaxMinerId] ==
      IF m = 0 THEN start ELSE IF work[m] = Gone THEN sent[m - 1] ELSE sendTo(sent[m - 1], m)
<1> DEFINE here == {q \in BMiners : work[q] # Gone}
<1>0. /\ ShapeOK(shape) /\ ContextsOK(shape, contexts) /\ StorageOK(shape, n, storage)
      /\ DOMAIN work = BMiners /\ \A m \in BMiners : work[m] = Gone \/ WorkOK(shape, n, work[m])
  BY DEF BlockInv
<1>1. PICK A : contexts \in Seq(A)
  BY <1>0 DEF ContextsOK
<1>2. n \in Nat /\ id \in Nat /\ n <= id /\ id \in 1..id
  BY <1>1
<1>3. /\ nonce # 0 /\ contexts' = Append(contexts, mutated) /\ SendJobs(sent[MaxMinerId])
      /\ shape' = shape /\ block' = block
  BY DEF InstallTemplate
<1> HIDE DEF n, sent
<1>4. nonce = NonceAt(shape) /\ BlockIs(shape, original, TemplateTx(shape, id))
  BY TemplateIs
<1>5. BlockIs(shape, mutated, First(shape, id))
  <2> DEFINE k == 100 + id
  <2>1. mutated = [original EXCEPT !.tx.extra[nonce].head = k, !.tx.extra[nonce].rest = k]
    OBVIOUS
  <2> HIDE DEF mutated, original, nonce
  <2>2. k = 100 + id
    OBVIOUS
  <2> HIDE DEF k
  <2>3. BlockIs(shape, [original EXCEPT !.tx.extra[nonce].head = k, !.tx.extra[nonce].rest = k], First(shape, id))
    BY <1>4, <2>2, MutatedIs
  <2> QED BY <2>1, <2>3
<1> HIDE DEF mutated, original
<1>6. contexts' \in Seq(A \cup {mutated}) /\ Len(contexts') = id /\ contexts'[id] = mutated
      /\ \A g \in 1..n : contexts'[g] = contexts[g]
  BY <1>1, <1>3 DEF n
<1>7. ContextsOK(shape, contexts')
  <2>1. ASSUME NEW g \in 1..id PROVE BlockIs(shape, contexts'[g], First(shape, g)) /\ NonceAt(shape) # 0
    <3>1. CASE g = id
      BY <1>3, <1>4, <1>5, <1>6, <3>1
    <3>2. CASE g # id
      <4>1. g \in 1..n
        BY <1>2, <3>2
      <4>2. BlockIs(shape, contexts[g], First(shape, g)) /\ NonceAt(shape) # 0
        BY <1>0, <4>1 DEF ContextsOK, n
      <4> QED BY <1>6, <4>1, <4>2
    <3> QED BY <3>1, <3>2
  <2> QED BY <1>6, <2>1 DEF ContextsOK
<1> DEFINE job == NewJob(id, mutated)
<1>8. JobOK(shape, id, job)
  <2>1. parse(mutated).pubkey = PubkeyAt(shape) /\ parse(mutated).nonce = NonceAt(shape)
    BY <1>5, ParsedCoinbase DEF First
  <2>2. /\ DOMAIN job = JobFields /\ job.id = id /\ job.pubkey = PubkeyAt(shape) /\ job.nonce = NonceAt(shape)
        /\ job.raw = parse(mutated).root /\ job.branch = parse(mutated).branch /\ job.path = parse(mutated).path
        /\ job.prefix = mutated.tx
    BY <2>1 DEF NewJob, JobFields
  <2>3. mutated.tx = First(shape, id)
    BY <1>5 DEF BlockIs
  <2>4. PrefixOK(shape, id, First(shape, id))
    BY DEF PrefixOK, First
  <2> HIDE DEF job, id
  <2>5. NonceAt(shape) # 0
    BY <1>3, <1>4
  <2>6. JobOf(shape, id, mutated, job)
    BY <1>5, <2>2, <2>3, <2>4, <2>5 DEF JobOf
  <2> QED BY <1>2, <2>6 DEF JobOK
<1>9. SendOK(shape, id, start, here)
  <2>1. start.storage.next = 0 /\ start.storage.job = job /\ start.work = work
    OBVIOUS
  <2> HIDE DEF start, job, here
  <2>2. ASSUME NEW q \in BMiners PROVE IF q \in here THEN WorkOK(shape, id, work[q]) ELSE work[q] = Gone
    <3>1. CASE work[q] = Gone
      BY <3>1 DEF here
    <3>2. CASE work[q] # Gone
      <4>1. q \in here /\ WorkOK(shape, n, work[q])
        BY <1>0, <3>2 DEF here
      <4>2. WorkOK(shape, id, work[q])
        BY <1>2, <4>1, MoreContexts
      <4> QED BY <4>1, <4>2
    <3> QED BY <3>1, <3>2
  <2> QED BY <1>0, <1>8, <2>1, <2>2 DEF SendOK
<1> HIDE DEF start, job
<1>10. \A q \in BMiners : work[q] # Gone => q \in here
  OBVIOUS
<1> HIDE DEF here
<1>11. PICK f : SentUpTo(f, start, MaxMinerId) /\ SendOK(shape, id, f[MaxMinerId], here)
  <2> HIDE DEF id
  <2> QED BY <1>0, <1>2, <1>9, <1>10, SentToAll
<1>12. f = [q \in 0..MaxMinerId |-> IF q = 0 THEN start ELSE IF work[q] = Gone THEN f[q - 1] ELSE sendTo(f[q - 1], q)]
  BY <1>11 DEF SentUpTo
<1>13. sent = [q \in 0..MaxMinerId |->
                 IF q = 0 THEN start ELSE IF work[q] = Gone THEN sent[q - 1] ELSE sendTo(sent[q - 1], q)]
  BY <1>12 DEF sent
<1>14. sent[MaxMinerId] = f[MaxMinerId]
  <2> DEFINE S == {q \in 0..MaxMinerId : sent[q] = f[q]}
  <2>0. MaxMinerId \in Nat
    BY BlockAssumption
  <2>1. 0 \in S
    <3>1. 0 \in 0..MaxMinerId
      BY <2>0
    <3> QED BY <1>12, <1>13, <3>1
  <2>2. ASSUME NEW q \in 1..MaxMinerId, q - 1 \in S PROVE q \in S
    <3>1. q \in 0..MaxMinerId /\ q # 0 /\ sent[q - 1] = f[q - 1]
      BY <2>2
    <3>2. f[q] = IF work[q] = Gone THEN f[q - 1] ELSE sendTo(f[q - 1], q)
      BY <1>12, <3>1
    <3>3. sent[q] = IF work[q] = Gone THEN sent[q - 1] ELSE sendTo(sent[q - 1], q)
      BY <1>13, <3>1
    <3> QED BY <3>1, <3>2, <3>3
  <2> HIDE DEF S
  <2>3. \A q \in 0..MaxMinerId : q \in S
    BY <2>0, <2>1, <2>2, UpTo
  <2>4. MaxMinerId \in S
    BY <2>0, <2>3
  <2> QED BY <2>4 DEF S
<1>15. SendOK(shape, Len(contexts'), sent[MaxMinerId], here)
  BY <1>6, <1>11, <1>14
<1> QED BY <1>3, <1>7, <1>15, BlockSent

LEMMA NoWork == ASSUME NEW s, NEW n PROVE WorkOK(s, n, <<>>)
<1> DEFINE A == {}
<1>1. <<>> \in Seq(A) /\ \A t \in A : ToldOK(s, n, t)
  OBVIOUS
<1> HIDE DEF A
<1>2. \E B : <<>> \in Seq(B) /\ \A t \in B : ToldOK(s, n, t)
  BY <1>1, Zenon
<1> QED BY <1>2, Zenon DEF WorkOK

LEMMA JoinStep ==
    ASSUME ~TaggedExtra, BlockInv, NEW m \in BMiners, MinerJoins(m)
    PROVE  BlockInv'
<1> DEFINE n == Len(contexts)
<1> DEFINE in == [work EXCEPT ![m] = <<>>]
<1> DEFINE here == {q \in BMiners : work[q] # Gone} \cup {m}
<1>0. /\ ShapeOK(shape) /\ ContextsOK(shape, contexts) /\ StorageOK(shape, n, storage)
      /\ DOMAIN work = BMiners /\ (\A q \in BMiners : work[q] = Gone \/ WorkOK(shape, n, work[q])) /\ MinedOK(shape, block)
  BY DEF BlockInv
<1>1. /\ shape' = shape /\ contexts' = contexts /\ block' = block
      /\ IF storage.job = NoJob THEN work' = in /\ UNCHANGED <<storage, keys>>
         ELSE SendJobs(sendTo([storage |-> storage, keys |-> keys, work |-> in], m))
  BY DEF MinerJoins
<1>2. n \in Nat
  <2>1. PICK A : contexts \in Seq(A)
    BY <1>0 DEF ContextsOK
  <2> QED BY <2>1
<1>3. WorkOK(shape, n, <<>>)
  BY NoWork
<1>4. DOMAIN in = BMiners /\ in[m] = <<>> /\ \A q \in BMiners : q # m => in[q] = work[q]
  BY <1>0
<1>5. \A q \in BMiners : IF q \in here THEN WorkOK(shape, n, in[q]) ELSE in[q] = Gone
  BY <1>0, <1>3, <1>4
<1>6. m \in here
  OBVIOUS
<1> HIDE DEF in, n
<1>7. CASE storage.job = NoJob
  <2>1. work' = in /\ storage' = storage
    BY <1>1, <1>7
  <2>2. \A q \in BMiners : work'[q] = Gone \/ WorkOK(shape, n, work'[q])
    BY <1>5, <2>1
  <2>3. /\ ShapeOK(shape') /\ ContextsOK(shape', contexts') /\ StorageOK(shape', Len(contexts'), storage')
        /\ DOMAIN work' = BMiners /\ (\A q \in BMiners : work'[q] = Gone \/ WorkOK(shape', Len(contexts'), work'[q]))
        /\ MinedOK(shape', block')
    BY <1>0, <1>1, <1>4, <2>1, <2>2 DEF n
  <2> QED BY <2>3 DEF BlockInv
<1> HIDE DEF here
<1>8. CASE storage.job # NoJob
  <2> DEFINE w == [storage |-> storage, keys |-> keys, work |-> in]
  <2>1. w.storage = storage /\ w.work = in
    OBVIOUS
  <2>2. SendJobs(sendTo(w, m))
    BY <1>1, <1>8
  <2> HIDE DEF w
  <2>3. SendOK(shape, n, w, here)
    BY <1>0, <1>4, <1>5, <1>8, <2>1 DEF SendOK, StorageOK
  <2>4. SendOK(shape, Len(contexts'), sendTo(w, m), here)
    BY <1>0, <1>1, <1>2, <1>6, <2>3, SendToOK DEF n
  <2> QED BY <1>0, <1>1, <2>2, <2>4, BlockSent
<1> QED BY <1>7, <1>8

\* A coinbase that is not signed differs from the template's in the reserve.
LEMMA OneDifference ==
    ASSUME NEW s, ShapeOK(s), NonceAt(s) # 0, ~s.signed, NEW g \in Nat \ {0}, NEW k, NEW e
    PROVE  SameButOne(Mined(s, g, k, e), TemplateTx(s, g))
<1> DEFINE head == IF e >= 0 THEN e ELSE 100 + g
<1> DEFINE tx == Mined(s, g, k, e)
<1> DEFINE made == TemplateTx(s, g)
<1> DEFINE N == NonceAt(s)
<1> DEFINE D == DOMAIN s.extra
<1>0. N \in D
  BY PlacesOK
<1>1. tx = Coinbase(s, g, -g, -g, -g, head)
  BY DEF Mined
<1> HIDE DEF head, tx
<1>2. /\ tx.key = -g /\ tx.tag = -g /\ DOMAIN tx.extra = D
      /\ \A i \in D : tx.extra[i] = [kind |-> s.extra[i],
                                     head |-> IF i = N THEN head ELSE IF i = PubkeyAt(s) THEN -g ELSE -g,
                                     rest |-> IF i = N THEN 100 + g ELSE IF i = PubkeyAt(s) THEN -g ELSE -g]
  BY <1>1 DEF Coinbase
<1>3. made.key = -g /\ made.tag = -g /\ \A i \in D : made.extra[i] = [kind |-> s.extra[i], head |-> -g, rest |-> -g]
  BY DEF TemplateTx, TemplateFields
<1> HIDE DEF made, N, D
<1>4. tx.extra[N] # made.extra[N]
  <2>1. tx.extra[N] = [kind |-> s.extra[N], head |-> head, rest |-> 100 + g]
    BY <1>0, <1>2
  <2>2. made.extra[N] = [kind |-> s.extra[N], head |-> -g, rest |-> -g]
    BY <1>0, <1>3
  <2>3. tx.extra[N].rest = 100 + g
    BY <2>1
  <2>4. made.extra[N].rest = -g
    BY <2>2
  <2> QED BY <2>3, <2>4
<1>5. \A i \in D : i # N => tx.extra[i] = made.extra[i]
  BY <1>2, <1>3
<1>6. {i \in DOMAIN tx.extra : tx.extra[i] # made.extra[i]} = {N}
  BY <1>0, <1>2, <1>4, <1>5
<1>7. Cardinality({N}) = 1
  BY FS_Singleton
<1>8. SameButOne(tx, made)
  BY <1>2, <1>3, <1>6, <1>7 DEF SameButOne
<1> QED BY <1>8 DEF tx, made

LEMMA SubmitStep ==
    ASSUME BlockInv, NEW m \in BMiners, NEW i \in DOMAIN work[m], SubmitBlock(m, i)
    PROVE  BlockInv'
<1> DEFINE t == work[m][i]
<1> DEFINE final == finalBlock(contexts[t.id], t)
<1> DEFINE g == t.id
<1>0. /\ ShapeOK(shape) /\ ContextsOK(shape, contexts) /\ \A q \in BMiners : work[q] = Gone \/ WorkOK(shape, Len(contexts), work[q])
  BY DEF BlockInv
<1>1. /\ work[m] # Gone /\ block' = [sent |-> final, root |-> t.root, id |-> t.id]
      /\ UNCHANGED <<shape, contexts, storage, work>>
  BY DEF SubmitBlock
<1>2. ToldOK(shape, Len(contexts), t)
  <2>1. PICK A : work[m] \in Seq(A) /\ \A u \in A : ToldOK(shape, Len(contexts), u)
    BY <1>0, <1>1 DEF WorkOK
  <2>2. t \in A
    BY <2>1
  <2> QED BY <2>1, <2>2
<1> HIDE DEF t, final
<1>3. g \in 1..Len(contexts) /\ t.root = TreeHash(hashesOf(BlockWith(shape, Mined(shape, g, t.key, t.extra))))
  BY <1>2 DEF ToldOK
<1>4. BlockIs(shape, contexts[g], First(shape, g)) /\ NonceAt(shape) # 0
  BY <1>0, <1>3 DEF ContextsOK
<1>5. g \in Nat \ {0}
  <2>1. PICK A : contexts \in Seq(A)
    BY <1>0 DEF ContextsOK
  <2> QED BY <1>3, <2>1
<1>6. BlockIs(shape, final, Mined(shape, g, t.key, t.extra))
  BY <1>0, <1>4, FinalIs DEF final
<1>7. TreeHash(hashesOf(final)) = t.root
  <2>1. BlockIs(shape, BlockWith(shape, Mined(shape, g, t.key, t.extra)), Mined(shape, g, t.key, t.extra))
    BY BlockWithIs
  <2> QED BY <1>3, <1>6, <2>1, SameRoot
<1>8. final.tx = Mined(shape, g, t.key, t.extra)
  BY <1>6 DEF BlockIs
<1>9. block'.sent = final /\ block'.root = t.root /\ block'.id = g
  BY <1>1
<1>10. MinedOK(shape, block')
  <2> SUFFICES ASSUME ~shape.signed PROVE SameButOne(final.tx, TemplateTx(shape, g))
    BY <1>7, <1>9 DEF MinedOK
  <2> DEFINE k == t.key
  <2> DEFINE e == t.extra
  <2>1. ShapeOK(shape) /\ NonceAt(shape) # 0 /\ ~shape.signed /\ g \in Nat \ {0}
    BY <1>0, <1>4, <1>5
  <2> HIDE DEF k, e, g
  <2>2. final.tx = Mined(shape, g, k, e)
    BY <1>8 DEF k, e, g
  <2>3. SameButOne(Mined(shape, g, k, e), TemplateTx(shape, g))
    BY <2>1, OneDifference
  <2> QED BY <2>2, <2>3
<1> QED BY <1>1, <1>10, BlockKept

LEMMA BlockStart == BlockInit => BlockInv
<1> SUFFICES ASSUME BlockInit PROVE BlockInv
  OBVIOUS
<1>1. ShapeOK(shape)
  BY BlockAssumption DEF BlockInit, ShapeOK
<1>2. contexts = <<>> /\ storage.next = 0 /\ storage.job = NoJob /\ block.id = 0
      /\ work = [m \in BMiners |-> Gone]
  BY DEF BlockInit
<1>3. ContextsOK(shape, contexts)
  <2>1. contexts \in Seq({}) /\ Len(contexts) = 0
    BY <1>2
  <2>2. \A g \in 1..0 : FALSE
    OBVIOUS
  <2> QED BY <2>1, <2>2 DEF ContextsOK
<1>4. StorageOK(shape, Len(contexts), storage) /\ MinedOK(shape, block)
  BY <1>2 DEF StorageOK, MinedOK
<1>5. DOMAIN work = BMiners /\ \A m \in BMiners : work[m] = Gone
  BY <1>2
<1> QED BY <1>1, <1>3, <1>4, <1>5 DEF BlockInv

LEMMA BlockStep == ASSUME ~TaggedExtra, BlockInv, [BlockNext]_blockVars PROVE BlockInv'
<1>1. ASSUME UNCHANGED blockVars PROVE BlockInv'
  <2>1. UNCHANGED <<shape, contexts, storage, work>> /\ block' = block
    BY <1>1 DEF blockVars
  <2>2. MinedOK(shape, block')
    BY <2>1 DEF BlockInv
  <2> QED BY <2>1, <2>2, BlockKept
<1>2. ASSUME NEW i \in DOMAIN shape.extra, NEW agrees \in BOOLEAN, InstallTemplate(i, agrees) PROVE BlockInv'
  BY <1>2, InstallStep
<1>3. ASSUME NEW m \in BMiners, MinerJoins(m) PROVE BlockInv'
  BY <1>3, JoinStep
<1>4. ASSUME NEW m \in BMiners, NEW i \in DOMAIN work[m], SubmitBlock(m, i) PROVE BlockInv'
  BY <1>4, SubmitStep
<1> QED BY <1>1, <1>2, <1>3, <1>4 DEF BlockNext

LEMMA BlockTrue == BlockInv => BlockIsMined
<1> SUFFICES ASSUME BlockInv PROVE BlockIsMined
  OBVIOUS
<1>1. Template(block.id).tx = TemplateTx(shape, block.id)
  BY TemplateIs DEF BlockIs
<1>2. MinedOK(shape, block)
  BY DEF BlockInv
<1>3. SUFFICES ASSUME block.id # 0
               PROVE  /\ TreeHash(hashesOf(block.sent)) = block.root
                      /\ ~shape.signed => SameButOne(block.sent.tx, Template(block.id).tx)
  BY DEF BlockIsMined, SameButOne
<1> QED BY <1>1, <1>2, <1>3 DEF MinedOK
=============================================================================
