----------------------- MODULE GlobalShareCache_proofs -----------------------
(***************************************************************************)
(* Proofs about the duplicate-share cache, for every number of owners,     *)
(* sources, heights and shares.                                            *)
(***************************************************************************)
EXTENDS GlobalShareCache, FiniteSetTheorems, TLAPS

\* What erasing a set of buckets does to the fields of the cache.
LEMMA EraseFields ==
    ASSUME NEW c \in CacheState, NEW s \in Sources, NEW H \in SUBSET Heights
    PROVE  /\ eraseBuckets(c, s, H) \in CacheState
           /\ eraseBuckets(c, s, H).entries = c.entries \ entriesIn(c, s, H)
           /\ eraseBuckets(c, s, H).buckets =
                 [c.buckets EXCEPT ![s] = c.buckets[s] \ H]
           /\ eraseBuckets(c, s, H).owners =
                 [c.owners EXCEPT ![s] =
                    [h \in Heights |-> IF h \in H THEN 0 ELSE c.owners[s][h]]]
           /\ eraseBuckets(c, s, H).currentHeight = c.currentHeight
           /\ eraseBuckets(c, s, H).ownerHeights = c.ownerHeights
           /\ eraseBuckets(c, s, H).sequence = c.sequence
<1> DEFINE d == eraseBuckets(c, s, H)
<1>1. d.entries = c.entries \ entriesIn(c, s, H)
  BY DEF eraseBuckets, CacheState
<1>2. d.keys = [k \in Keys |->
                  IF \E e \in entriesIn(c, s, H) : e.key = k /\ e.token = c.keys[k]
                  THEN 0 ELSE c.keys[k]]
  BY DEF eraseBuckets, CacheState
<1>3. d.buckets = [c.buckets EXCEPT ![s] = c.buckets[s] \ H]
  BY DEF eraseBuckets, CacheState
<1>4. d.owners = [c.owners EXCEPT ![s] =
                    [h \in Heights |-> IF h \in H THEN 0 ELSE c.owners[s][h]]]
  BY DEF eraseBuckets, CacheState
<1>5. /\ d.currentHeight = c.currentHeight
      /\ d.ownerHeights = c.ownerHeights
      /\ d.sequence = c.sequence
  BY DEF eraseBuckets, CacheState
<1>6. d \in CacheState
  <2>1. d.keys \in [Keys -> Nat]
    BY <1>2 DEF CacheState
  <2>2. d.owners \in [Sources -> [Heights -> Nat]]
    BY <1>4 DEF CacheState
  <2>3. d.buckets \in [Sources -> SUBSET Heights]
    BY <1>3 DEF CacheState
  <2> QED
    BY <1>1, <1>5, <2>1, <2>2, <2>3 DEF CacheState, eraseBuckets
<1> QED
  BY <1>1, <1>2, <1>3, <1>4, <1>5, <1>6

\* ... and to the global index.
LEMMA EraseKeys ==
    ASSUME NEW c \in CacheState, NEW s \in Sources, NEW H \in SUBSET Heights
    PROVE  /\ eraseBuckets(c, s, H).entries = c.entries \ entriesIn(c, s, H)
           /\ \A k \in Keys : eraseBuckets(c, s, H).keys[k] =
                 IF \E e \in entriesIn(c, s, H) : e.key = k /\ e.token = c.keys[k]
                 THEN 0 ELSE c.keys[k]
  BY DEF eraseBuckets, CacheState

\* Erasing buckets keeps the index and the entries in agreement.
LEMMA EraseIndex ==
    ASSUME NEW c \in CacheState, NEW s \in Sources, NEW H \in SUBSET Heights,
           IndexMatches(c)
    PROVE  IndexMatches(eraseBuckets(c, s, H))
<1> DEFINE d == eraseBuckets(c, s, H)
<1>1. /\ d.entries = c.entries \ entriesIn(c, s, H)
      /\ \A k \in Keys : d.keys[k] =
            IF \E e \in entriesIn(c, s, H) : e.key = k /\ e.token = c.keys[k]
            THEN 0 ELSE c.keys[k]
  BY EraseKeys
<1> HIDE DEF d
<1>2. \A e \in c.entries : e.key \in Keys /\ e.token # 0
  BY DEF CacheState, Reservation
<1>3. \A e \in d.entries : d.keys[e.key] = e.token
  BY <1>1, <1>2 DEF IndexMatches, entriesIn
<1>4. \A k \in Keys : d.keys[k] # 0 => \E e \in d.entries : e.key = k
  BY <1>1, <1>2 DEF IndexMatches, entriesIn
<1>5. \A e, f \in d.entries : e.key = f.key => e = f
  BY <1>1 DEF IndexMatches
<1> QED
  BY <1>3, <1>4, <1>5 DEF IndexMatches, d

\* A bucket that is neither current nor referenced is erased; nothing else is.
LEMMA UnusedErased ==
    ASSUME NEW c \in CacheState, NEW s \in Sources, NEW H \in SUBSET Heights,
           IndexMatches(c),
           \A e \in c.entries : e.height \in c.buckets[e.sourceId]
    PROVE  /\ eraseUnused(c, s, H) \in CacheState
           /\ IndexMatches(eraseUnused(c, s, H))
           /\ \A e \in eraseUnused(c, s, H).entries :
                 e.height \in eraseUnused(c, s, H).buckets[e.sourceId]
           /\ \A e \in c.entries \ eraseUnused(c, s, H).entries :
                 e.height \notin eraseUnused(c, s, H).buckets[e.sourceId]
           /\ eraseUnused(c, s, H).entries \subseteq c.entries
           /\ \A t \in Sources, h \in Heights :
                 h \in eraseUnused(c, s, H).buckets[t] <=>
                    h \in c.buckets[t] /\ ~ (t = s /\ h \in Unused(c, s, H))
           /\ eraseUnused(c, s, H).owners = c.owners
           /\ eraseUnused(c, s, H).currentHeight = c.currentHeight
           /\ eraseUnused(c, s, H).ownerHeights = c.ownerHeights
           /\ eraseUnused(c, s, H).sequence = c.sequence
<1> DEFINE U == Unused(c, s, H)
           d == eraseBuckets(c, s, U)
<1>1. U \in SUBSET Heights
  BY DEF Unused
<1>2. eraseUnused(c, s, H) = d
  BY DEF eraseUnused
<1> HIDE DEF U
<1>3. /\ d \in CacheState
      /\ d.entries = c.entries \ entriesIn(c, s, U)
      /\ d.buckets = [c.buckets EXCEPT ![s] = c.buckets[s] \ U]
      /\ d.owners = [c.owners EXCEPT ![s] =
                       [h \in Heights |-> IF h \in U THEN 0 ELSE c.owners[s][h]]]
      /\ d.currentHeight = c.currentHeight
      /\ d.ownerHeights = c.ownerHeights
      /\ d.sequence = c.sequence
  BY <1>1, EraseFields
<1>4. IndexMatches(d)
  BY <1>1, EraseIndex
<1> HIDE DEF d
<1>5. /\ c.buckets \in [Sources -> SUBSET Heights]
      /\ c.owners \in [Sources -> [Heights -> Nat]]
      /\ \A e \in c.entries : e.sourceId \in Sources
  BY DEF CacheState, Reservation
<1>6. d.owners = c.owners
  <2>1. \A h \in U : c.owners[s][h] = 0
    BY DEF U, Unused
  <2>2. [h \in Heights |-> IF h \in U THEN 0 ELSE c.owners[s][h]] = c.owners[s]
    BY <1>5, <2>1
  <2> QED
    BY <1>3, <1>5, <2>2
<1>7. \A t \in Sources : d.buckets[t] =
          IF t = s THEN c.buckets[s] \ U ELSE c.buckets[t]
  BY <1>3, <1>5
<1>8. \A e \in d.entries : e.height \in d.buckets[e.sourceId]
  BY <1>3, <1>5, <1>7 DEF entriesIn
<1>9. \A e \in c.entries \ d.entries : e.height \notin d.buckets[e.sourceId]
  BY <1>3, <1>5, <1>7 DEF entriesIn
<1>10. \A t \in Sources, h \in Heights :
          h \in d.buckets[t] <=> h \in c.buckets[t] /\ ~ (t = s /\ h \in U)
  BY <1>7
<1> QED
  BY <1>2, <1>3, <1>4, <1>6, <1>8, <1>9, <1>10 DEF U

\* Buckets that lost their last reason to exist are the ones eraseUnused takes.
LEMMA UnusedExact ==
    ASSUME NEW c \in CacheState, NEW s \in Sources, NEW H \in SUBSET Heights,
           IndexMatches(c),
           \A e \in c.entries : e.height \in c.buckets[e.sourceId],
           \A t \in Sources, h \in Heights :
              (h = c.currentHeight[t] \/ c.owners[t][h] # 0) => h \in c.buckets[t],
           \A t \in Sources, h \in Heights :
              h \in c.buckets[t] =>
                 h = c.currentHeight[t] \/ c.owners[t][h] # 0 \/ (t = s /\ h \in H)
    PROVE  BucketsMatch(eraseUnused(c, s, H))
<1> DEFINE d == eraseUnused(c, s, H)
<1>1. /\ \A e \in d.entries : e.height \in d.buckets[e.sourceId]
      /\ \A t \in Sources, h \in Heights :
            h \in d.buckets[t] <=> h \in c.buckets[t] /\ ~ (t = s /\ h \in Unused(c, s, H))
      /\ d.owners = c.owners
      /\ d.currentHeight = c.currentHeight
  BY UnusedErased
<1> HIDE DEF d
<1>2. ASSUME NEW t \in Sources, NEW h \in Heights
      PROVE  h \in d.buckets[t] <=> (h = d.currentHeight[t] \/ d.owners[t][h] # 0)
  <2>1. CASE t = s
    BY <1>1, <2>1 DEF Unused
  <2>2. CASE t # s
    BY <1>1, <2>2
  <2> QED
    BY <2>1, <2>2
<1> QED
  BY <1>1, <1>2 DEF BucketsMatch, d

\* The part of the invariant that does not count owners.
Shape(c) ==
    /\ c \in CacheState
    /\ IndexMatches(c)
    /\ BucketsMatch(c)

\* Nothing is removed from c except the records of buckets d does not have.
Keeps(c, d) ==
    /\ d.entries \subseteq c.entries
    /\ d.sequence = c.sequence
    /\ \A e \in c.entries \ d.entries : e.height \notin d.buckets[e.sourceId]

\* What detachOwner does to a cache in which the owner's heights are counted.
LEMMA DetachOwner ==
    ASSUME NEW c, Shape(c), NEW o \in Owners, NEW s \in Sources,
           NEW P \in SUBSET Heights, P # {},
           c.ownerHeights[o] = [sourceId |-> s, heights |-> P],
           \A h \in P : c.owners[s][h] # 0
    PROVE  /\ Shape(detachOwner(c, o))
           /\ \A t \in Sources, h \in Heights : detachOwner(c, o).owners[t][h] =
                 IF t = s /\ h \in P THEN c.owners[t][h] - 1 ELSE c.owners[t][h]
           /\ \A p \in Owners : detachOwner(c, o).ownerHeights[p] =
                 IF p = o THEN NoHeights ELSE c.ownerHeights[p]
           /\ Keeps(c, detachOwner(c, o))
<1> DEFINE R == dropReferences(c, s, P)
           m == [c EXCEPT !.ownerHeights = [c.ownerHeights EXCEPT ![o] = NoHeights],
                          !.owners = R]
<1>1. detachOwner(c, o) = eraseUnused(m, s, P)
  BY DEF detachOwner
<1>2. /\ c \in CacheState
      /\ c.buckets \in [Sources -> SUBSET Heights]
      /\ c.owners \in [Sources -> [Heights -> Nat]]
      /\ c.ownerHeights \in [Owners -> OwnerHeights]
  BY DEF Shape, CacheState
<1>3. /\ R \in [Sources -> [Heights -> Nat]]
      /\ \A t \in Sources, h \in Heights : R[t][h] =
            IF t = s /\ h \in P THEN c.owners[t][h] - 1 ELSE c.owners[t][h]
  <2>1. \A h \in P : h \in c.buckets[s]
    BY DEF Shape, BucketsMatch
  <2> QED
    BY <1>2, <2>1 DEF dropReferences
<1> HIDE DEF R
<1>4. [c.ownerHeights EXCEPT ![o] = NoHeights] \in [Owners -> OwnerHeights]
  BY <1>2 DEF NoHeights, OwnerHeights
<1>5. /\ m.ownerHeights = [c.ownerHeights EXCEPT ![o] = NoHeights]
      /\ m.owners = R
      /\ m.entries = c.entries
      /\ m.keys = c.keys
      /\ m.buckets = c.buckets
      /\ m.currentHeight = c.currentHeight
      /\ m.sequence = c.sequence
  BY <1>2 DEF CacheState
<1>6. m \in CacheState
  BY <1>2, <1>3, <1>4 DEF CacheState
<1> HIDE DEF m
<1>7. IndexMatches(m)
  BY <1>5 DEF Shape, IndexMatches
<1>8. \A e \in m.entries : e.height \in m.buckets[e.sourceId]
  BY <1>5 DEF Shape, BucketsMatch
<1>9. \A t \in Sources, h \in Heights :
         (h = m.currentHeight[t] \/ m.owners[t][h] # 0) => h \in m.buckets[t]
  BY <1>2, <1>3, <1>5 DEF Shape, BucketsMatch
<1>10. \A t \in Sources, h \in Heights :
         h \in m.buckets[t] =>
            h = m.currentHeight[t] \/ m.owners[t][h] # 0 \/ (t = s /\ h \in P)
  BY <1>2, <1>3, <1>5 DEF Shape, BucketsMatch
<1>11. BucketsMatch(eraseUnused(m, s, P))
  BY <1>6, <1>7, <1>8, <1>9, <1>10, UnusedExact
<1>12. /\ eraseUnused(m, s, P) \in CacheState
       /\ IndexMatches(eraseUnused(m, s, P))
       /\ \A e \in m.entries \ eraseUnused(m, s, P).entries :
             e.height \notin eraseUnused(m, s, P).buckets[e.sourceId]
       /\ eraseUnused(m, s, P).entries \subseteq m.entries
       /\ eraseUnused(m, s, P).owners = m.owners
       /\ eraseUnused(m, s, P).ownerHeights = m.ownerHeights
       /\ eraseUnused(m, s, P).sequence = m.sequence
  BY <1>6, <1>7, <1>8, UnusedErased
<1>13. \A p \in Owners : m.ownerHeights[p] = IF p = o THEN NoHeights ELSE c.ownerHeights[p]
  BY <1>2, <1>5
<1>14. Keeps(c, eraseUnused(m, s, P))
  BY <1>5, <1>12 DEF Keeps
<1> QED
  BY <1>1, <1>3, <1>5, <1>11, <1>12, <1>13, <1>14 DEF Shape

-----------------------------------------------------------------------------
(* Counting owners                                                         *)

\* A connection is registered with some heights of one source, or not at all.
OwnersValid(c) ==
    \A o \in Owners :
        \/ c.ownerHeights[o] = NoHeights
        \/ /\ c.ownerHeights[o].sourceId \in Sources
           /\ c.ownerHeights[o].heights # {}

\* The inductive invariant of the cache.
CacheInv(c) ==
    /\ Shape(c)
    /\ OwnersValid(c)
    /\ CountsMatch(c)

\* The owners of a bucket are finitely many, and one of them makes the count positive.
LEMMA OwnersFinite ==
    ASSUME NEW c, NEW s, NEW h
    PROVE  /\ IsFiniteSet(OwnersOf(c, s, h))
           /\ Cardinality(OwnersOf(c, s, h)) \in Nat
           /\ \A o \in OwnersOf(c, s, h) : Cardinality(OwnersOf(c, s, h)) # 0
<1>1. OwnersOf(c, s, h) \subseteq Owners
  BY DEF OwnersOf
<1>2. IsFiniteSet(OwnersOf(c, s, h))
  BY <1>1, FS_Subset, CacheAssumption
<1> QED
  BY <1>2, FS_CardinalityType, FS_EmptySet

\* Replacing the registration of one owner moves each count by what it lists.
LEMMA CountStep ==
    ASSUME NEW c, NEW d, CountsMatch(c), NEW o \in Owners,
           c.owners \in [Sources -> [Heights -> Nat]],
           d.owners \in [Sources -> [Heights -> Nat]],
           \A p \in Owners : p # o => d.ownerHeights[p] = c.ownerHeights[p],
           \A t \in Sources, h \in Heights : d.owners[t][h] =
              c.owners[t][h] - (IF o \in OwnersOf(c, t, h) THEN 1 ELSE 0)
                             + (IF o \in OwnersOf(d, t, h) THEN 1 ELSE 0)
    PROVE  CountsMatch(d)
<1> SUFFICES ASSUME NEW t \in Sources, NEW h \in Heights
             PROVE  d.owners[t][h] = Cardinality(OwnersOf(d, t, h))
  BY DEF CountsMatch
<1> DEFINE A == OwnersOf(c, t, h)
           B == OwnersOf(d, t, h)
<1>1. /\ c.owners[t][h] = Cardinality(A)
      /\ IsFiniteSet(A) /\ Cardinality(A) \in Nat
      /\ IsFiniteSet(B) /\ Cardinality(B) \in Nat
  BY OwnersFinite DEF CountsMatch
<1>2. A \ {o} = B \ {o}
  BY DEF OwnersOf
<1>3. /\ Cardinality(A \ {o}) = IF o \in A THEN Cardinality(A) - 1 ELSE Cardinality(A)
      /\ Cardinality(B \ {o}) = IF o \in B THEN Cardinality(B) - 1 ELSE Cardinality(B)
  BY <1>1, FS_RemoveElement
<1>4. d.owners[t][h] = Cardinality(A) - (IF o \in A THEN 1 ELSE 0)
                                      + (IF o \in B THEN 1 ELSE 0)
  <2>1. d.owners[t][h] = c.owners[t][h] - (IF o \in OwnersOf(c, t, h) THEN 1 ELSE 0)
                                        + (IF o \in OwnersOf(d, t, h) THEN 1 ELSE 0)
    OBVIOUS
  <2> QED
    BY <1>1, <2>1
<1> HIDE DEF A, B
<1>5. Cardinality(A \ {o}) = Cardinality(B \ {o})
  BY <1>2
<1>6. d.owners[t][h] = Cardinality(B)
  <2>1. CASE o \in A /\ o \in B
    BY <1>1, <1>3, <1>4, <1>5, <2>1
  <2>2. CASE o \in A /\ o \notin B
    BY <1>1, <1>3, <1>4, <1>5, <2>2
  <2>3. CASE o \notin A /\ o \in B
    BY <1>1, <1>3, <1>4, <1>5, <2>3
  <2>4. CASE o \notin A /\ o \notin B
    BY <1>1, <1>3, <1>4, <1>5, <2>4
  <2> QED
    BY <2>1, <2>2, <2>3, <2>4
<1> QED
  BY <1>6 DEF B

\* removeOwner: the connection's references go, the others stay counted.
LEMMA RemoveOwnerInv ==
    ASSUME NEW c, CacheInv(c), NEW o \in Owners
    PROVE  /\ CacheInv(detachOwner(c, o))
           /\ Keeps(c, detachOwner(c, o))
<1> DEFINE d == detachOwner(c, o)
           s == c.ownerHeights[o].sourceId
           P == c.ownerHeights[o].heights
<1>0. c.ownerHeights \in [Owners -> OwnerHeights] /\ c \in CacheState
  BY DEF CacheInv, Shape, CacheState
<1>1. CASE c.ownerHeights[o] = NoHeights
  BY <1>1 DEF detachOwner, NoHeights, Keeps
<1>2. CASE c.ownerHeights[o] # NoHeights
  <2>1. /\ s \in Sources
        /\ P \in SUBSET Heights
        /\ P # {}
        /\ c.ownerHeights[o] = [sourceId |-> s, heights |-> P]
    BY <1>0, <1>2 DEF CacheInv, OwnersValid, OwnerHeights
  <2>2. \A t \in Sources, h \in Heights :
           o \in OwnersOf(c, t, h) <=> t = s /\ h \in P
    BY <2>1 DEF OwnersOf
  <2>3. \A h \in P : c.owners[s][h] # 0
    BY <2>1, <2>2, OwnersFinite DEF CacheInv, CountsMatch
  <2> HIDE DEF s, P
  <2>4. /\ Shape(d)
        /\ \A t \in Sources, h \in Heights : d.owners[t][h] =
              IF t = s /\ h \in P THEN c.owners[t][h] - 1 ELSE c.owners[t][h]
        /\ \A p \in Owners : d.ownerHeights[p] =
              IF p = o THEN NoHeights ELSE c.ownerHeights[p]
        /\ Keeps(c, d)
    BY <2>1, <2>3, DetachOwner DEF CacheInv
  <2> HIDE DEF d
  <2>5. OwnersValid(d)
    BY <1>0, <2>4 DEF CacheInv, OwnersValid
  <2>6. \A t \in Sources, h \in Heights : o \notin OwnersOf(d, t, h)
    BY <1>0, <2>4 DEF OwnersOf, NoHeights
  <2>7. /\ c.owners \in [Sources -> [Heights -> Nat]]
        /\ d.owners \in [Sources -> [Heights -> Nat]]
    BY <2>4 DEF CacheInv, Shape, CacheState
  <2>8. \A t \in Sources, h \in Heights : d.owners[t][h] =
              c.owners[t][h] - (IF o \in OwnersOf(c, t, h) THEN 1 ELSE 0)
                             + (IF o \in OwnersOf(d, t, h) THEN 1 ELSE 0)
    BY <2>2, <2>4, <2>6, <2>7
  <2>9. \A p \in Owners : p # o => d.ownerHeights[p] = c.ownerHeights[p]
    BY <1>0, <2>4
  <2>10. CountsMatch(d)
    BY <2>7, <2>8, <2>9, CountStep DEF CacheInv
  <2> QED
    BY <2>4, <2>5, <2>10 DEF CacheInv, d
<1> QED
  BY <1>1, <1>2

\* Taking references creates the buckets it needs and disturbs no other.
LEMMA AttachFields ==
    ASSUME NEW c, Shape(c), NEW s \in Sources, NEW H \in SUBSET Heights
    PROVE  /\ Shape(attachHeights(c, s, H))
           /\ \A t \in Sources, h \in Heights : attachHeights(c, s, H).owners[t][h] =
                 IF t = s /\ h \in H THEN c.owners[t][h] + 1 ELSE c.owners[t][h]
           /\ attachHeights(c, s, H).ownerHeights = c.ownerHeights
           /\ attachHeights(c, s, H).entries = c.entries
           /\ attachHeights(c, s, H).sequence = c.sequence
<1> DEFINE a == attachHeights(c, s, H)
<1>1. c \in CacheState
  BY DEF Shape
<1>2. /\ c.buckets \in [Sources -> SUBSET Heights]
      /\ c.owners \in [Sources -> [Heights -> Nat]]
      /\ \A e \in c.entries : e.sourceId \in Sources
  BY <1>1 DEF CacheState, Reservation
<1>3. a.buckets = [c.buckets EXCEPT ![s] = c.buckets[s] \cup H]
  BY <1>1 DEF attachHeights, CacheState
<1>4. a.owners = [c.owners EXCEPT ![s] =
                    [h \in Heights |-> IF h \in H THEN c.owners[s][h] + 1
                                                  ELSE c.owners[s][h]]]
  BY <1>1 DEF attachHeights, CacheState
<1>5. /\ a.ownerHeights = c.ownerHeights
      /\ a.entries = c.entries
      /\ a.keys = c.keys
      /\ a.sequence = c.sequence
      /\ a.currentHeight = c.currentHeight
  BY <1>1 DEF attachHeights, CacheState
<1>6. a.owners \in [Sources -> [Heights -> Nat]]
  BY <1>2, <1>4
<1>7. a.buckets \in [Sources -> SUBSET Heights]
  BY <1>2, <1>3
<1>8. a \in CacheState
  BY <1>1, <1>5, <1>6, <1>7 DEF CacheState, attachHeights
<1>9. \A t \in Sources, h \in Heights : a.owners[t][h] =
         IF t = s /\ h \in H THEN c.owners[t][h] + 1 ELSE c.owners[t][h]
  BY <1>2, <1>4
<1>10. \A t \in Sources, h \in Heights :
          h \in a.buckets[t] <=> h \in c.buckets[t] \/ (t = s /\ h \in H)
  BY <1>2, <1>3
<1> HIDE DEF a
<1>11. IndexMatches(a)
  BY <1>5 DEF Shape, IndexMatches
<1>12. \A e \in a.entries : e.height \in a.buckets[e.sourceId]
  <2>1. \A e \in c.entries : e.height \in c.buckets[e.sourceId] /\ e.height \in Heights
    BY <1>1 DEF Shape, BucketsMatch, CacheState, Reservation
  <2> QED
    BY <1>2, <1>5, <1>10, <2>1
<1>13. \A t \in Sources, h \in Heights :
          h \in a.buckets[t] <=> (h = a.currentHeight[t] \/ a.owners[t][h] # 0)
  <2>1. \A t \in Sources, h \in Heights :
          h \in c.buckets[t] <=> (h = c.currentHeight[t] \/ c.owners[t][h] # 0)
    BY DEF Shape, BucketsMatch
  <2>2. \A t \in Sources, h \in Heights : c.owners[t][h] \in Nat
    BY <1>2
  <2> QED
    BY <1>5, <1>9, <1>10, <2>1, <2>2
<1> QED
  BY <1>5, <1>8, <1>9, <1>11, <1>12, <1>13 DEF Shape, BucketsMatch, a

\* setOwnerHeights, where references are really replaced: old ones go after the
\* new ones were taken, so a bucket that stays referenced keeps its records.
LEMMA ReplaceInv ==
    ASSUME NEW c, CacheInv(c), NEW o \in Owners, NEW s \in Sources,
           NEW H \in SUBSET Heights, H # {},
           NEW d, d = registerOwner(detachOwner(attachHeights(c, s, H), o), o, s, H)
    PROVE  CacheInv(d) /\ Keeps(c, d)
<1> DEFINE a == attachHeights(c, s, H)
           b == detachOwner(a, o)
           q == c.ownerHeights[o].sourceId
           P == c.ownerHeights[o].heights
<1>1. /\ Shape(a)
      /\ \A t \in Sources, h \in Heights : a.owners[t][h] =
            IF t = s /\ h \in H THEN c.owners[t][h] + 1 ELSE c.owners[t][h]
      /\ a.ownerHeights = c.ownerHeights
      /\ a.entries = c.entries
      /\ a.sequence = c.sequence
  BY AttachFields DEF CacheInv
<1> HIDE DEF a
<1>2. /\ c.ownerHeights \in [Owners -> OwnerHeights]
      /\ c.owners \in [Sources -> [Heights -> Nat]]
  BY DEF CacheInv, Shape, CacheState
<1>3. \A t \in Sources, h \in Heights :
         o \in OwnersOf(c, t, h) <=> t = q /\ h \in P
  BY DEF OwnersOf
<1>4. /\ Shape(b)
      /\ \A t \in Sources, h \in Heights : b.owners[t][h] =
            IF t = q /\ h \in P THEN a.owners[t][h] - 1 ELSE a.owners[t][h]
      /\ \A p \in Owners : p # o => b.ownerHeights[p] = c.ownerHeights[p]
      /\ Keeps(c, b)
  <2>1. CASE c.ownerHeights[o] = NoHeights
    <3>1. b = a
      BY <1>1, <2>1 DEF detachOwner, NoHeights
    <3>2. P = {}
      BY <2>1 DEF NoHeights
    <3> QED
      BY <1>1, <3>1, <3>2 DEF Keeps
  <2>2. CASE c.ownerHeights[o] # NoHeights
    <3>1. /\ q \in Sources
          /\ P \in SUBSET Heights
          /\ P # {}
          /\ a.ownerHeights[o] = [sourceId |-> q, heights |-> P]
      BY <1>1, <1>2, <2>2 DEF CacheInv, OwnersValid, OwnerHeights
    <3>2. \A h \in P : c.owners[q][h] # 0
      BY <1>3, <3>1, OwnersFinite DEF CacheInv, CountsMatch
    <3>3. \A h \in P : a.owners[q][h] # 0
      BY <1>1, <1>2, <3>1, <3>2
    <3> HIDE DEF q, P
    <3>4. /\ Shape(b)
          /\ \A t \in Sources, h \in Heights : b.owners[t][h] =
                IF t = q /\ h \in P THEN a.owners[t][h] - 1 ELSE a.owners[t][h]
          /\ \A p \in Owners : b.ownerHeights[p] =
                IF p = o THEN NoHeights ELSE a.ownerHeights[p]
          /\ Keeps(a, b)
      <4>1. Shape(a)
        BY <1>1
      <4> QED
        BY <3>1, <3>3, <4>1, DetachOwner
    <3> HIDE DEF b
    <3>5. \A p \in Owners : p # o => b.ownerHeights[p] = c.ownerHeights[p]
      BY <1>1, <1>2, <3>4
    <3>6. Keeps(c, b)
      BY <1>1, <3>4 DEF Keeps
    <3> QED
      BY <3>4, <3>5, <3>6
  <2> QED
    BY <2>1, <2>2
<1>5. d = [b EXCEPT !.ownerHeights = [b.ownerHeights EXCEPT ![o] = [sourceId |-> s, heights |-> H]]]
  BY DEF a, registerOwner
<1> HIDE DEF b
<1>6. /\ b \in CacheState
      /\ b.ownerHeights \in [Owners -> OwnerHeights]
      /\ b.owners \in [Sources -> [Heights -> Nat]]
  BY <1>4 DEF Shape, CacheState
<1>7. [b.ownerHeights EXCEPT ![o] = [sourceId |-> s, heights |-> H]] \in [Owners -> OwnerHeights]
  BY <1>6 DEF OwnerHeights
<1>8. /\ d.ownerHeights = [b.ownerHeights EXCEPT ![o] = [sourceId |-> s, heights |-> H]]
      /\ d.entries = b.entries
      /\ d.keys = b.keys
      /\ d.buckets = b.buckets
      /\ d.owners = b.owners
      /\ d.currentHeight = b.currentHeight
      /\ d.sequence = b.sequence
  BY <1>5, <1>6 DEF CacheState
<1>9. d \in CacheState
  BY <1>5, <1>6, <1>7 DEF CacheState
<1>10. Shape(d)
  BY <1>4, <1>8, <1>9 DEF Shape, IndexMatches, BucketsMatch
<1>11. Keeps(c, d)
  BY <1>4, <1>8 DEF Keeps
<1>12. OwnersValid(d)
  BY <1>4, <1>6, <1>8 DEF CacheInv, OwnersValid
<1>13. \A p \in Owners : p # o => d.ownerHeights[p] = c.ownerHeights[p]
  BY <1>4, <1>6, <1>8
<1>14. \A t \in Sources, h \in Heights :
          o \in OwnersOf(d, t, h) <=> t = s /\ h \in H
  BY <1>6, <1>8 DEF OwnersOf
<1> HIDE DEF q, P
<1>15. \A t \in Sources, h \in Heights : d.owners[t][h] =
              c.owners[t][h] - (IF o \in OwnersOf(c, t, h) THEN 1 ELSE 0)
                             + (IF o \in OwnersOf(d, t, h) THEN 1 ELSE 0)
  <2> SUFFICES ASSUME NEW t \in Sources, NEW h \in Heights
               PROVE  d.owners[t][h] =
                        c.owners[t][h] - (IF o \in OwnersOf(c, t, h) THEN 1 ELSE 0)
                                       + (IF o \in OwnersOf(d, t, h) THEN 1 ELSE 0)
    OBVIOUS
  <2>1. /\ d.owners[t][h] = IF t = q /\ h \in P THEN a.owners[t][h] - 1 ELSE a.owners[t][h]
        /\ a.owners[t][h] = IF t = s /\ h \in H THEN c.owners[t][h] + 1 ELSE c.owners[t][h]
        /\ c.owners[t][h] \in Nat
    BY <1>1, <1>2, <1>4, <1>8
  <2>2. /\ o \in OwnersOf(c, t, h) <=> t = q /\ h \in P
        /\ o \in OwnersOf(d, t, h) <=> t = s /\ h \in H
    BY <1>3, <1>14
  <2> QED
    BY <2>1, <2>2
<1>16. CountsMatch(d)
  <2>1. d.owners \in [Sources -> [Heights -> Nat]]
    BY <1>6, <1>8
  <2> QED
    BY <1>2, <1>13, <1>15, <2>1, CountStep DEF CacheInv
<1> QED
  BY <1>10, <1>11, <1>12, <1>16 DEF CacheInv

\* setOwnerHeights as a whole.
LEMMA SetOwnerHeightsInv ==
    ASSUME NEW c, CacheInv(c), NEW o \in Owners, NEW s \in Sources,
           NEW heights \in SUBSET Heights
    PROVE  /\ CacheInv(setOwnerHeights(c, o, s, heights))
           /\ Keeps(c, setOwnerHeights(c, o, s, heights))
<1>1. heights \ {0} = heights /\ s # 0
  BY CacheAssumption
<1>2. CASE o = 0
  BY <1>2 DEF setOwnerHeights, Keeps
<1>3. CASE o # 0 /\ heights = {}
  BY <1>1, <1>3, RemoveOwnerInv DEF setOwnerHeights
<1>4. CASE o # 0 /\ heights # {}
  <2>1. setOwnerHeights(c, o, s, heights) =
          registerOwner(detachOwner(attachHeights(c, s, heights), o), o, s, heights)
    BY <1>1, <1>4 DEF setOwnerHeights
  <2> QED
    BY <1>4, <2>1, ReplaceInv
<1> QED
  BY <1>2, <1>3, <1>4

\* Fields the owner counts depend on: a step that keeps them keeps the counts.
LEMMA SameOwners ==
    ASSUME NEW c, NEW d, CountsMatch(c), OwnersValid(c),
           d.owners = c.owners, d.ownerHeights = c.ownerHeights
    PROVE  CountsMatch(d) /\ OwnersValid(d)
  BY DEF CountsMatch, OwnersValid, OwnersOf

\* observeHeight: the new current bucket exists, unreferenced others are gone.
LEMMA ObserveHeightInv ==
    ASSUME NEW c, CacheInv(c), NEW s \in Sources, NEW h \in Heights
    PROVE  CacheInv(observeHeight(c, s, h)) /\ Keeps(c, observeHeight(c, s, h))
<1> DEFINE m == [c EXCEPT !.currentHeight = [c.currentHeight EXCEPT ![s] = h],
                          !.buckets = [c.buckets EXCEPT ![s] = c.buckets[s] \cup {h}]]
           d == eraseUnused(m, s, Heights)
<1>1. observeHeight(c, s, h) = d
  BY CacheAssumption DEF observeHeight
<1>2. /\ c \in CacheState
      /\ c.currentHeight \in [Sources -> Heights \cup {0}]
      /\ c.buckets \in [Sources -> SUBSET Heights]
      /\ \A e \in c.entries : e.sourceId \in Sources
  BY DEF CacheInv, Shape, CacheState, Reservation
<1>3. /\ m.currentHeight = [c.currentHeight EXCEPT ![s] = h]
      /\ m.buckets = [c.buckets EXCEPT ![s] = c.buckets[s] \cup {h}]
      /\ m.owners = c.owners
      /\ m.entries = c.entries
      /\ m.keys = c.keys
      /\ m.ownerHeights = c.ownerHeights
      /\ m.sequence = c.sequence
  BY <1>2 DEF CacheState
<1>4. m \in CacheState
  <2>1. [c.currentHeight EXCEPT ![s] = h] \in [Sources -> Heights \cup {0}]
    BY <1>2
  <2>2. [c.buckets EXCEPT ![s] = c.buckets[s] \cup {h}] \in [Sources -> SUBSET Heights]
    BY <1>2
  <2> QED
    BY <1>2, <2>1, <2>2 DEF CacheState
<1> HIDE DEF m
<1>5. IndexMatches(m)
  BY <1>3 DEF CacheInv, Shape, IndexMatches
<1>6. \A e \in m.entries : e.height \in m.buckets[e.sourceId]
  BY <1>2, <1>3 DEF CacheInv, Shape, BucketsMatch
<1>7. \A t \in Sources, g \in Heights :
         (g = m.currentHeight[t] \/ m.owners[t][g] # 0) => g \in m.buckets[t]
  BY <1>2, <1>3 DEF CacheInv, Shape, BucketsMatch
<1>8. \A t \in Sources, g \in Heights :
         g \in m.buckets[t] =>
            g = m.currentHeight[t] \/ m.owners[t][g] # 0 \/ (t = s /\ g \in Heights)
  BY <1>2, <1>3 DEF CacheInv, Shape, BucketsMatch
<1>9. BucketsMatch(d)
  BY <1>4, <1>5, <1>6, <1>7, <1>8, UnusedExact
<1>10. /\ d \in CacheState
       /\ IndexMatches(d)
       /\ \A e \in m.entries \ d.entries : e.height \notin d.buckets[e.sourceId]
       /\ d.entries \subseteq m.entries
       /\ d.owners = m.owners
       /\ d.ownerHeights = m.ownerHeights
       /\ d.sequence = m.sequence
  BY <1>4, <1>5, <1>6, UnusedErased
<1> HIDE DEF d
<1>11. CountsMatch(d) /\ OwnersValid(d)
  BY <1>3, <1>10, SameOwners DEF CacheInv
<1>12. Keeps(c, d)
  BY <1>3, <1>10 DEF Keeps
<1> QED
  BY <1>1, <1>9, <1>10, <1>11, <1>12 DEF CacheInv, Shape

\* removeSource: everything of the source goes, its owners too.
LEMMA RemoveSourceInv ==
    ASSUME NEW c, CacheInv(c), NEW s \in Sources
    PROVE  CacheInv(removeSource(c, s)) /\ Keeps(c, removeSource(c, s))
<1> DEFINE b == eraseBuckets(c, s, Heights)
           d == removeSource(c, s)
           O == [o \in Owners |-> IF c.ownerHeights[o].sourceId = s
                                  THEN NoHeights ELSE c.ownerHeights[o]]
<1>1. c \in CacheState /\ IndexMatches(c) /\ BucketsMatch(c)
  BY DEF CacheInv, Shape
<1>2. /\ c.currentHeight \in [Sources -> Heights \cup {0}]
      /\ c.buckets \in [Sources -> SUBSET Heights]
      /\ c.owners \in [Sources -> [Heights -> Nat]]
      /\ c.ownerHeights \in [Owners -> OwnerHeights]
      /\ \A e \in c.entries : e.sourceId \in Sources /\ e.height \in Heights
  BY <1>1 DEF CacheState, Reservation
<1>3. /\ b \in CacheState
      /\ b.entries = c.entries \ entriesIn(c, s, Heights)
      /\ b.buckets = [c.buckets EXCEPT ![s] = c.buckets[s] \ Heights]
      /\ b.owners = [c.owners EXCEPT ![s] =
                       [h \in Heights |-> IF h \in Heights THEN 0 ELSE c.owners[s][h]]]
      /\ b.currentHeight = c.currentHeight
      /\ b.ownerHeights = c.ownerHeights
      /\ b.sequence = c.sequence
  BY <1>1, EraseFields
<1>4. IndexMatches(b)
  BY <1>1, EraseIndex
<1>5. d = [b EXCEPT !.currentHeight = [c.currentHeight EXCEPT ![s] = 0], !.ownerHeights = O]
  BY DEF removeSource
<1> HIDE DEF b, d
<1>6. O \in [Owners -> OwnerHeights]
  BY <1>2 DEF NoHeights, OwnerHeights
<1>7. [c.currentHeight EXCEPT ![s] = 0] \in [Sources -> Heights \cup {0}]
  BY <1>2
<1>8. /\ d.currentHeight = [c.currentHeight EXCEPT ![s] = 0]
      /\ d.ownerHeights = O
      /\ d.buckets = b.buckets
      /\ d.owners = b.owners
      /\ d.entries = b.entries
      /\ d.keys = b.keys
      /\ d.sequence = b.sequence
  BY <1>3, <1>5 DEF CacheState
<1>9. d \in CacheState
  BY <1>3, <1>5, <1>6, <1>7 DEF CacheState
<1>10. IndexMatches(d)
  BY <1>4, <1>8 DEF IndexMatches
<1>11. \A t \in Sources, h \in Heights :
          /\ h \in d.buckets[t] <=> h \in c.buckets[t] /\ t # s
          /\ d.owners[t][h] = IF t = s THEN 0 ELSE c.owners[t][h]
          /\ d.currentHeight[t] = IF t = s THEN 0 ELSE c.currentHeight[t]
  BY <1>2, <1>3, <1>8
<1>12. BucketsMatch(d)
  <2>1. \A e \in d.entries : e \in c.entries /\ e.sourceId # s
    BY <1>2, <1>3, <1>8 DEF entriesIn
  <2>2. \A e \in d.entries : e.height \in d.buckets[e.sourceId]
    BY <1>1, <1>2, <1>11, <2>1 DEF BucketsMatch
  <2>3. \A t \in Sources, h \in Heights :
           h \in d.buckets[t] <=> (h = d.currentHeight[t] \/ d.owners[t][h] # 0)
    BY <1>1, <1>11, CacheAssumption DEF BucketsMatch
  <2> QED
    BY <2>2, <2>3 DEF BucketsMatch
<1>13. OwnersValid(d)
  BY <1>2, <1>8 DEF CacheInv, OwnersValid
<1>14. CountsMatch(d)
  <2> SUFFICES ASSUME NEW t \in Sources, NEW h \in Heights
               PROVE  d.owners[t][h] = Cardinality(OwnersOf(d, t, h))
    BY DEF CountsMatch
  <2>1. CASE t = s
    <3>1. OwnersOf(d, t, h) = {}
      BY <1>2, <1>8, <2>1, CacheAssumption DEF OwnersOf, NoHeights
    <3> QED
      BY <1>11, <2>1, <3>1, FS_EmptySet
  <2>2. CASE t # s
    <3>1. OwnersOf(d, t, h) = OwnersOf(c, t, h)
      BY <1>2, <1>8, <2>2, CacheAssumption DEF OwnersOf, NoHeights
    <3> QED
      BY <1>11, <2>2, <3>1 DEF CacheInv, CountsMatch
  <2> QED
    BY <2>1, <2>2
<1>15. Keeps(c, d)
  <2>1. \A e \in c.entries \ d.entries : e.sourceId = s /\ e.height \in Heights
    BY <1>2, <1>3, <1>8 DEF entriesIn
  <2> QED
    BY <1>3, <1>8, <1>11, <2>1 DEF Keeps
<1> QED
  BY <1>9, <1>10, <1>12, <1>13, <1>14, <1>15 DEF CacheInv, Shape, d

\* release removes at most the record whose token it carries.
LEMMA ReleaseInv ==
    ASSUME NEW c, CacheInv(c), NEW r \in Reservation
    PROVE  /\ CacheInv(release(c, r))
           /\ release(c, r).entries = c.entries \ {r}
           /\ release(c, r).sequence = c.sequence
<1> DEFINE d == release(c, r)
           K == [k \in Keys |-> IF k = r.key /\ c.keys[k] = r.token THEN 0 ELSE c.keys[k]]
<1>1. CASE r \notin c.entries
  BY <1>1 DEF release
<1>2. CASE r \in c.entries
  <2>1. c \in CacheState /\ IndexMatches(c) /\ BucketsMatch(c)
    BY DEF CacheInv, Shape
  <2>2. d = [c EXCEPT !.entries = c.entries \ {r}, !.keys = K]
    BY <1>2 DEF release
  <2>3. /\ d.entries = c.entries \ {r}
        /\ d.keys = K
        /\ d.buckets = c.buckets
        /\ d.owners = c.owners
        /\ d.currentHeight = c.currentHeight
        /\ d.ownerHeights = c.ownerHeights
        /\ d.sequence = c.sequence
    BY <2>1, <2>2 DEF CacheState
  <2>4. c.keys \in [Keys -> Nat] /\ c.entries \subseteq Reservation
    BY <2>1 DEF CacheState
  <2>5. K \in [Keys -> Nat]
    BY <2>4
  <2>6. d \in CacheState
    BY <2>1, <2>2, <2>5 DEF CacheState
  <2> HIDE DEF d
  <2>7. IndexMatches(d)
    <3>1. \A e \in c.entries : e.key \in Keys
      BY <2>4 DEF Reservation
    <3>2. \A e \in d.entries : d.keys[e.key] = e.token
      BY <1>2, <2>1, <2>3, <3>1 DEF IndexMatches
    <3>3. \A k \in Keys : d.keys[k] # 0 => \E e \in d.entries : e.key = k
      BY <1>2, <2>1, <2>3, <3>1 DEF IndexMatches
    <3>4. \A e, f \in d.entries : e.key = f.key => e = f
      BY <2>1, <2>3 DEF IndexMatches
    <3> QED
      BY <3>2, <3>3, <3>4 DEF IndexMatches
  <2>8. BucketsMatch(d)
    BY <2>1, <2>3 DEF BucketsMatch
  <2>9. CountsMatch(d) /\ OwnersValid(d)
    BY <2>3, SameOwners DEF CacheInv
  <2> QED
    BY <2>3, <2>6, <2>7, <2>8, <2>9 DEF CacheInv, Shape, d
<1> QED
  BY <1>1, <1>2

\* reserve adds exactly one record, for a key that had none, in an existing bucket.
LEMMA ReserveInv ==
    ASSUME NEW c, CacheInv(c), NEW s \in Sources, NEW h \in Heights, NEW k \in Keys,
           reserveResult(c, s, h, k) = "Accepted"
    PROVE  /\ CacheInv(reserve(c, s, h, k))
           /\ newReservation(c, s, h, k) \in Reservation
           /\ reserve(c, s, h, k).entries = c.entries \cup {newReservation(c, s, h, k)}
           /\ reserve(c, s, h, k).sequence = c.sequence + 1
           /\ newReservation(c, s, h, k).token = c.sequence + 1
<1> DEFINE d == reserve(c, s, h, k)
           n == newReservation(c, s, h, k)
<1>1. c \in CacheState /\ IndexMatches(c) /\ BucketsMatch(c)
  BY DEF CacheInv, Shape
<1>2. h \in c.buckets[s] /\ c.keys[k] = 0
  BY DEF reserveResult, hasHeight
<1>3. c.keys \in [Keys -> Nat] /\ c.entries \subseteq Reservation /\ c.sequence \in Nat
  BY <1>1 DEF CacheState
<1>4. n \in Reservation /\ n.key = k /\ n.token = c.sequence + 1 /\ n.sourceId = s /\ n.height = h
  BY <1>3 DEF newReservation, Reservation
<1>5. d = [c EXCEPT !.sequence = c.sequence + 1, !.entries = c.entries \cup {n},
                    !.keys = [c.keys EXCEPT ![k] = c.sequence + 1]]
  BY DEF reserve
<1> HIDE DEF n, d
<1>6. /\ d.entries = c.entries \cup {n}
      /\ d.keys = [c.keys EXCEPT ![k] = c.sequence + 1]
      /\ d.sequence = c.sequence + 1
      /\ d.buckets = c.buckets
      /\ d.owners = c.owners
      /\ d.currentHeight = c.currentHeight
      /\ d.ownerHeights = c.ownerHeights
  BY <1>1, <1>5 DEF CacheState
<1>7. d \in CacheState
  <2>1. [c.keys EXCEPT ![k] = c.sequence + 1] \in [Keys -> Nat]
    BY <1>3
  <2>2. c.entries \cup {n} \in SUBSET Reservation
    BY <1>3, <1>4
  <2>3. c.sequence + 1 \in Nat
    BY <1>3
  <2> QED
    BY <1>1, <1>5, <2>1, <2>2, <2>3 DEF CacheState
<1>8. IndexMatches(d)
  <2>1. \A e \in c.entries : e.key \in Keys /\ e.token # 0 /\ c.keys[e.key] = e.token
    BY <1>1, <1>3 DEF Reservation, IndexMatches
  <2>2. \A e \in c.entries : e.key # k
    BY <1>2, <2>1
  <2>3. \A e \in d.entries : d.keys[e.key] = e.token
    BY <1>3, <1>4, <1>6, <2>1, <2>2
  <2>4. \A j \in Keys : d.keys[j] # 0 => \E e \in d.entries : e.key = j
    BY <1>1, <1>3, <1>4, <1>6 DEF IndexMatches
  <2>5. \A e, f \in d.entries : e.key = f.key => e = f
    BY <1>1, <1>4, <1>6, <2>2 DEF IndexMatches
  <2> QED
    BY <2>3, <2>4, <2>5 DEF IndexMatches
<1>9. BucketsMatch(d)
  BY <1>1, <1>2, <1>4, <1>6 DEF BucketsMatch
<1>10. CountsMatch(d) /\ OwnersValid(d)
  BY <1>6, SameOwners DEF CacheInv
<1> QED
  BY <1>4, <1>6, <1>7, <1>8, <1>9, <1>10 DEF CacheInv, Shape, n, d

-----------------------------------------------------------------------------
(* The specification                                                       *)

\* The inductive invariant: the cache's own, plus what makes a late release
\* harmless: a forgotten reservation has no record any more, and no future
\* reservation can carry its token.
IInv ==
    /\ CacheInv(cache)
    /\ held \subseteq Reservation
    /\ spent \subseteq Reservation
    /\ spent \cap cache.entries = {}
    /\ \A r \in held \cup spent : r.token <= cache.sequence

LEMMA EmptyInv == CacheInv(EmptyCache) /\ EmptyCache.entries = {}
<1>1. EmptyCache \in CacheState
  BY DEF EmptyCache, CacheState, NoHeights, OwnerHeights
<1>2. IndexMatches(EmptyCache)
  BY DEF EmptyCache, IndexMatches
<1>3. BucketsMatch(EmptyCache)
  BY CacheAssumption DEF EmptyCache, BucketsMatch
<1>4. OwnersValid(EmptyCache)
  BY DEF EmptyCache, OwnersValid
<1>5. CountsMatch(EmptyCache)
  <2> SUFFICES ASSUME NEW s \in Sources, NEW h \in Heights
               PROVE  EmptyCache.owners[s][h] = Cardinality(OwnersOf(EmptyCache, s, h))
    BY DEF CountsMatch
  <2>1. OwnersOf(EmptyCache, s, h) = {}
    BY DEF OwnersOf, EmptyCache, NoHeights
  <2>2. EmptyCache.owners[s][h] = 0
    BY DEF EmptyCache
  <2> QED
    BY <2>1, <2>2, FS_EmptySet
<1>6. EmptyCache.entries = {}
  BY DEF EmptyCache
<1> QED
  BY <1>1, <1>2, <1>3, <1>4, <1>5, <1>6 DEF CacheInv, Shape

\* Initially nothing is cached.
LEMMA InitIInv == Init => IInv
  BY EmptyInv DEF Init, IInv

\* A step that only drops records of buckets it drops preserves the invariant.
LEMMA KeepsIInv ==
    ASSUME IInv, CacheInv(cache'), Keeps(cache, cache'), UNCHANGED <<held, spent>>
    PROVE  IInv'
  BY DEF IInv, Keeps

\* Every operation preserves the inductive invariant and loses no record.
LEMMA NextIInv ==
    ASSUME IInv, [Next]_vars
    PROVE  /\ IInv'
           /\ \A e \in cache.entries \ cache'.entries : RecordLost(e)
<1>0. CacheInv(cache) /\ cache.sequence \in Nat
  BY DEF IInv, CacheInv, Shape, CacheState
<1>1. CASE UNCHANGED vars
  <2>1. cache' = cache /\ held' = held /\ spent' = spent
    BY <1>1 DEF vars
  <2> QED
    BY <2>1 DEF IInv
<1>2. ASSUME NEW s \in Sources, NEW h \in Heights, ObserveHeight(s, h)
      PROVE  IInv' /\ \A e \in cache.entries \ cache'.entries : RecordLost(e)
  <2>1. CacheInv(cache') /\ Keeps(cache, cache')
    BY <1>0, <1>2, ObserveHeightInv DEF ObserveHeight
  <2> QED
    BY <1>2, <2>1, KeepsIInv DEF ObserveHeight, RecordLost, Keeps
<1>3. ASSUME NEW o \in Owners, NEW s \in Sources, NEW H \in SUBSET Heights,
             SetOwnerHeights(o, s, H)
      PROVE  IInv' /\ \A e \in cache.entries \ cache'.entries : RecordLost(e)
  <2>1. CacheInv(cache') /\ Keeps(cache, cache')
    BY <1>0, <1>3, SetOwnerHeightsInv DEF SetOwnerHeights
  <2> QED
    BY <1>3, <2>1, KeepsIInv DEF SetOwnerHeights, RecordLost, Keeps
<1>4. ASSUME NEW o \in Owners, RemoveOwner(o)
      PROVE  IInv' /\ \A e \in cache.entries \ cache'.entries : RecordLost(e)
  <2>1. CacheInv(cache') /\ Keeps(cache, cache')
    <3>1. CASE o = 0
      BY <1>0, <1>4, <3>1 DEF RemoveOwner, removeOwner, Keeps
    <3>2. CASE o # 0
      BY <1>0, <1>4, <3>2, RemoveOwnerInv DEF RemoveOwner, removeOwner
    <3> QED
      BY <3>1, <3>2
  <2> QED
    BY <1>4, <2>1, KeepsIInv DEF RemoveOwner, RecordLost, Keeps
<1>5. ASSUME NEW s \in Sources, RemoveSource(s)
      PROVE  IInv' /\ \A e \in cache.entries \ cache'.entries : RecordLost(e)
  <2>1. CacheInv(cache') /\ Keeps(cache, cache')
    BY <1>0, <1>5, RemoveSourceInv DEF RemoveSource
  <2> QED
    BY <1>5, <2>1, KeepsIInv DEF RemoveSource, RecordLost, Keeps
<1>6. ASSUME NEW s \in Sources, NEW h \in Heights, NEW k \in Keys, Reserve(s, h, k)
      PROVE  IInv' /\ \A e \in cache.entries \ cache'.entries : RecordLost(e)
  <2> DEFINE n == newReservation(cache, s, h, k)
  <2>1. /\ CacheInv(cache')
        /\ n \in Reservation
        /\ cache'.entries = cache.entries \cup {n}
        /\ cache'.sequence = cache.sequence + 1
        /\ n.token = cache.sequence + 1
    BY <1>0, <1>6, ReserveInv DEF Reserve
  <2>2. held' = held \cup {n} /\ spent' = spent
    BY <1>6 DEF Reserve
  <2> HIDE DEF n
  <2>3. \A r \in held \cup spent : r.token \in Nat /\ r.token <= cache.sequence
    BY DEF IInv, Reservation
  <2>4. n \notin spent
    BY <1>0, <2>1, <2>3
  <2> QED
    BY <1>0, <2>1, <2>2, <2>3, <2>4 DEF IInv
<1>7. ASSUME NEW r \in held, Retain(r)
      PROVE  IInv' /\ \A e \in cache.entries \ cache'.entries : RecordLost(e)
  BY <1>7 DEF Retain, IInv
<1>8. ASSUME NEW r \in held, Forget(r)
      PROVE  IInv' /\ \A e \in cache.entries \ cache'.entries : RecordLost(e)
  <2>1. r \in Reservation
    BY DEF IInv
  <2>2. /\ CacheInv(cache')
        /\ cache'.entries = cache.entries \ {r}
        /\ cache'.sequence = cache.sequence
    BY <1>0, <1>8, <2>1, ReleaseInv DEF Forget
  <2> QED
    BY <1>8, <2>1, <2>2 DEF Forget, IInv, RecordLost
<1>9. ASSUME NEW r \in held \cup spent, Destroy(r)
      PROVE  IInv' /\ \A e \in cache.entries \ cache'.entries : RecordLost(e)
  <2>1. r \in Reservation
    BY DEF IInv
  <2>2. /\ CacheInv(cache')
        /\ cache'.entries = cache.entries \ {r}
        /\ cache'.sequence = cache.sequence
    BY <1>0, <1>9, <2>1, ReleaseInv DEF Destroy
  <2> QED
    BY <1>9, <2>1, <2>2 DEF Destroy, IInv, RecordLost
<1> QED
  BY <1>1, <1>2, <1>3, <1>4, <1>5, <1>6, <1>7, <1>8, <1>9 DEF Next

\* The inductive invariant holds in every reachable state.
LEMMA Inductive == Spec => []IInv
<1>1. IInv /\ [Next]_vars => IInv'
  BY NextIInv
<1> QED
  BY InitIInv, <1>1, PTL DEF Spec

\* Every variable keeps its type, for any number of connections, sources, heights and shares.
THEOREM TypeCorrect == Spec => []TypeOK
<1>1. IInv => TypeOK
  BY DEF IInv, CacheInv, Shape, TypeOK
<1> QED
  BY Inductive, <1>1, PTL

\* The containers of the cache always agree: the key index has exactly the
\* buckets' entries, a bucket exists exactly while it is current or referenced,
\* and its reference count is the number of connections that list it.
THEOREM CacheExactTheorem == Spec => []CacheExact
<1>1. IInv => KeyIndexConsistent
  BY DEF IInv, CacheInv, Shape, KeyIndexConsistent
<1>2. IInv => BucketsExact
  BY DEF IInv, CacheInv, Shape, BucketsExact
<1>3. IInv => RefCountExact
  BY DEF IInv, CacheInv, RefCountExact
<1>4. IInv => CacheExact
  BY <1>1, <1>2, <1>3 DEF CacheExact
<1> QED
  BY Inductive, <1>4, PTL

\* No record is lost while its bucket lives, except through its own holder.
THEOREM NoRecordLostTheorem == Spec => NoRecordLost
<1>1. IInv /\ [Next]_vars => [\A e \in cache.entries \ cache'.entries : RecordLost(e)]_vars
  BY NextIInv
<1> QED
  BY Inductive, <1>1, PTL DEF Spec, NoRecordLost
=============================================================================
