-------------------------- MODULE GlobalShareCache --------------------------
(***************************************************************************)
(* The process-wide duplicate-share cache (proxy/GlobalShareCache.cpp).    *)
(*                                                                         *)
(* A share is identified by a key (template entropy + PoW result).  A key  *)
(* is reserved in a bucket (source, height); the bucket only decides when  *)
(* the record is cleaned up, the key lookup is global.  Buckets are        *)
(* reference counted by the connections ("owners") that may still submit   *)
(* at their height.                                                        *)
(*                                                                         *)
(* The whole static state of the class is one record, c, and every member  *)
(* function is an operator from such a record to such a record, so that    *)
(* callers compose them inside one callback of the event loop.             *)
(***************************************************************************)
EXTENDS Naturals, FiniteSets

CONSTANTS
    Owners,                 \* keys of Storage<Miner>; 0 means "no owner"
    Sources,                \* ids of daemon template sources
    Heights,                \* block heights
    Keys,                   \* share identities
    kMaxEntries,            \* capacity of the whole cache
    kMaxEntriesPerSource,   \* capacity of one source
    MaxToken                \* bound on the reservations made in a behaviour

ASSUME CacheAssumption ==
    /\ Owners \subseteq Nat /\ IsFiniteSet(Owners)
    /\ Sources \subseteq Nat \ {0}
    /\ Heights \subseteq Nat \ {0}
    /\ kMaxEntries \in Nat
    /\ kMaxEntriesPerSource \in Nat
    /\ MaxToken \in Nat

Reservation ==
    [key : Keys, sourceId : Sources, height : Heights, token : Nat \ {0}]

\* An owner absent from s_owners; a stored owner never has an empty list.
NoHeights == [sourceId |-> 0, heights |-> {}]

OwnerHeights == [sourceId : Sources \cup {0}, heights : SUBSET Heights]

(***************************************************************************)
(* The fields of the cache.  A source absent from s_sources has height 0   *)
(* and no bucket; a key absent from s_keys has token 0; owners counts 0    *)
(* where there is no bucket.                                               *)
(***************************************************************************)
CacheState ==
    [ currentHeight : [Sources -> Heights \cup {0}],
      buckets       : [Sources -> SUBSET Heights],
      owners        : [Sources -> [Heights -> Nat]],
      entries       : SUBSET Reservation,
      keys          : [Keys -> Nat],
      ownerHeights  : [Owners -> OwnerHeights],
      sequence      : Nat ]

EmptyCache ==
    [ currentHeight |-> [s \in Sources |-> 0],
      buckets       |-> [s \in Sources |-> {}],
      owners        |-> [s \in Sources |-> [h \in Heights |-> 0]],
      entries       |-> {},
      keys          |-> [k \in Keys |-> 0],
      ownerHeights  |-> [o \in Owners |-> NoHeights],
      sequence      |-> 0 ]

-----------------------------------------------------------------------------
(* Internal helpers                                                        *)

entriesIn(c, s, H) == {e \in c.entries : e.sourceId = s /\ e.height \in H}

\* Mutation: the bucket goes, its keys stay in the global index.
eraseBuckets_KeepsKeys(c, s, H) ==
    [c EXCEPT
       !.entries = @ \ entriesIn(c, s, H),
       !.buckets = [c.buckets EXCEPT ![s] = c.buckets[s] \ H],
       !.owners  = [c.owners EXCEPT ![s] =
                      [h \in Heights |-> IF h \in H THEN 0 ELSE c.owners[s][h]]]]

\* eraseEntries and the erasure of the bucket that always follows it: a key
\* leaves the global index only if the token still matches.
eraseBuckets(c, s, H) ==
    [c EXCEPT
       !.entries = @ \ entriesIn(c, s, H),
       !.keys    = [k \in Keys |->
                      IF \E e \in entriesIn(c, s, H) :
                            e.key = k /\ e.token = c.keys[k]
                      THEN 0 ELSE c.keys[k]],
       !.buckets = [c.buckets EXCEPT ![s] = c.buckets[s] \ H],
       !.owners  = [c.owners EXCEPT ![s] =
                      [h \in Heights |-> IF h \in H THEN 0 ELSE c.owners[s][h]]]]

\* eraseHeightIfUnused for each height of H.
Unused(c, s, H) ==
    {h \in H \cap c.buckets[s] : h # c.currentHeight[s] /\ c.owners[s][h] = 0}

eraseUnused(c, s, H) == eraseBuckets(c, s, Unused(c, s, H))

\* The reference counts after an owner of the heights H of source s left.
dropReferences(c, s, H) ==
    [c.owners EXCEPT ![s] =
        [h \in Heights |->
            IF h \in H /\ h \in c.buckets[s] /\ c.owners[s][h] # 0
            THEN c.owners[s][h] - 1
            ELSE c.owners[s][h]]]

\* Mutation: the references go, the buckets left without one stay.
detachOwner_KeepsBuckets(c, o) ==
    LET previous == c.ownerHeights[o]
    IN  [c EXCEPT !.ownerHeights = [c.ownerHeights EXCEPT ![o] = NoHeights],
                  !.owners = IF previous.heights = {} THEN c.owners
                             ELSE dropReferences(c, previous.sourceId, previous.heights)]

detachOwner(c, o) ==
    LET previous == c.ownerHeights[o]
        s        == previous.sourceId
    IN  IF previous.heights = {}
        THEN c
        ELSE eraseUnused([c EXCEPT
                            !.ownerHeights = [c.ownerHeights EXCEPT ![o] = NoHeights],
                            !.owners = dropReferences(c, s, previous.heights)],
                         s, previous.heights)

\* The replacement references of setOwnerHeights, taken before the old ones go.
attachHeights(c, s, H) ==
    [c EXCEPT
       !.buckets = [c.buckets EXCEPT ![s] = c.buckets[s] \cup H],
       !.owners  = [c.owners EXCEPT ![s] = [h \in Heights |->
                                       IF h \in H THEN c.owners[s][h] + 1
                                                  ELSE c.owners[s][h]]]]

registerOwner(c, o, s, H) ==
    [c EXCEPT !.ownerHeights =
        [c.ownerHeights EXCEPT ![o] = [sourceId |-> s, heights |-> H]]]

-----------------------------------------------------------------------------
(* The public operations                                                   *)

observeHeight(c, s, h) ==
    IF s = 0 \/ h = 0
    THEN c
    ELSE eraseUnused([c EXCEPT !.currentHeight = [c.currentHeight EXCEPT ![s] = h],
                               !.buckets = [c.buckets EXCEPT ![s] = c.buckets[s] \cup {h}]],
                     s, Heights)

\* Mutations: the old references go first, or not at all.
setOwnerHeights_DetachFirst(c, o, s, heights) ==
    LET H == heights \ {0}
    IN  IF o = 0 THEN c
        ELSE IF s = 0 \/ H = {} THEN detachOwner(c, o)
        ELSE registerOwner(attachHeights(detachOwner(c, o), s, H), o, s, H)

setOwnerHeights_NoDetach(c, o, s, heights) ==
    LET H == heights \ {0}
    IN  IF o = 0 THEN c
        ELSE IF s = 0 \/ H = {} THEN detachOwner(c, o)
        ELSE registerOwner(attachHeights(c, s, H), o, s, H)

setOwnerHeights(c, o, s, heights) ==
    LET H == heights \ {0}
    IN  IF o = 0
        THEN c
        ELSE IF s = 0 \/ H = {}
        THEN detachOwner(c, o)
        ELSE registerOwner(detachOwner(attachHeights(c, s, H), o), o, s, H)

removeOwner(c, o) == IF o = 0 THEN c ELSE detachOwner(c, o)

release(c, r) ==
    IF r \in c.entries
    THEN [c EXCEPT !.entries = @ \ {r},
                   !.keys = [k \in Keys |->
                               IF k = r.key /\ c.keys[k] = r.token
                               THEN 0 ELSE c.keys[k]]]
    ELSE c

hasHeight(c, s, h) == s # 0 /\ h # 0 /\ h \in c.buckets[s]

size(c) == Cardinality({k \in Keys : c.keys[k] # 0})

sourceSize(c, s) == Cardinality({e \in c.entries : e.sourceId = s})

\* Mutation: the limits are compared with > instead of >=.
reserveResult_OffByOne(c, s, h, k) ==
    IF ~ hasHeight(c, s, h) THEN "Invalid"
    ELSE IF c.keys[k] # 0 THEN "Duplicate"
    ELSE IF size(c) > kMaxEntries \/ sourceSize(c, s) > kMaxEntriesPerSource THEN "Capacity"
    ELSE "Accepted"

reserveResult(c, s, h, k) ==
    IF ~ hasHeight(c, s, h)
    THEN "Invalid"
    ELSE IF c.keys[k] # 0
    THEN "Duplicate"
    ELSE IF size(c) >= kMaxEntries \/ sourceSize(c, s) >= kMaxEntriesPerSource
    THEN "Capacity"
    ELSE "Accepted"

\* The reservation handed to the caller, and the cache that holds it.
newReservation(c, s, h, k) ==
    [key |-> k, sourceId |-> s, height |-> h, token |-> c.sequence + 1]

reserve(c, s, h, k) ==
    [c EXCEPT !.sequence = @ + 1,
              !.entries  = @ \cup {newReservation(c, s, h, k)},
              !.keys     = [c.keys EXCEPT ![k] = c.sequence + 1]]

removeSource(c, s) ==
    [eraseBuckets(c, s, Heights) EXCEPT
       !.currentHeight = [c.currentHeight EXCEPT ![s] = 0],
       !.ownerHeights  = [o \in Owners |->
                            IF c.ownerHeights[o].sourceId = s
                            THEN NoHeights ELSE c.ownerHeights[o]]]

-----------------------------------------------------------------------------
(***************************************************************************)
(* The cache with arbitrary callers.  held are the reservations callers    *)
(* still own, spent those they forgot explicitly while the PendingShare    *)
(* that carries them is still alive: its destructor releases them again.   *)
(***************************************************************************)
VARIABLES cache, held, spent

vars == <<cache, held, spent>>

Init ==
    /\ cache = EmptyCache
    /\ held = {}
    /\ spent = {}

ObserveHeight(s, h) ==
    /\ cache' = observeHeight(cache, s, h)
    /\ UNCHANGED <<held, spent>>

SetOwnerHeights(o, s, heights) ==
    /\ cache' = setOwnerHeights(cache, o, s, heights)
    /\ UNCHANGED <<held, spent>>

RemoveOwner(o) ==
    /\ cache' = removeOwner(cache, o)
    /\ UNCHANGED <<held, spent>>

RemoveSource(s) ==
    /\ cache' = removeSource(cache, s)
    /\ UNCHANGED <<held, spent>>

Reserve(s, h, k) ==
    /\ cache.sequence < MaxToken
    /\ reserveResult(cache, s, h, k) = "Accepted"
    /\ cache' = reserve(cache, s, h, k)
    /\ held' = held \cup {newReservation(cache, s, h, k)}
    /\ UNCHANGED spent

\* The share was answered for good: its record stays (retainSubmission).
Retain(r) ==
    /\ r \in held
    /\ held' = held \ {r}
    /\ UNCHANGED <<cache, spent>>

\* forgetSubmission: the exact share may be tried again.
Forget(r) ==
    /\ r \in held
    /\ cache' = release(cache, r)
    /\ held' = held \ {r}
    /\ spent' = spent \cup {r}

\* ~PendingShare without retainSubmission, possibly after Forget.
Destroy(r) ==
    /\ r \in held \cup spent
    /\ cache' = release(cache, r)
    /\ held' = held \ {r}
    /\ spent' = spent \ {r}

Next ==
    \/ \E s \in Sources, h \in Heights : ObserveHeight(s, h)
    \/ \E o \in Owners, s \in Sources, H \in SUBSET Heights : SetOwnerHeights(o, s, H)
    \/ \E o \in Owners : RemoveOwner(o)
    \/ \E s \in Sources : RemoveSource(s)
    \/ \E s \in Sources, h \in Heights, k \in Keys : Reserve(s, h, k)
    \/ \E r \in held : Retain(r)
    \/ \E r \in held : Forget(r)
    \/ \E r \in held \cup spent : Destroy(r)

Spec == Init /\ [][Next]_vars

-----------------------------------------------------------------------------
(* Properties                                                              *)

\* Every variable keeps the type the containers of GlobalShareCache.cpp give it.
TypeOK ==
    /\ cache \in CacheState
    /\ held \subseteq Reservation
    /\ spent \subseteq Reservation

\* The per-bucket maps and the global index never disagree: every entry is
\* indexed with its own token, every indexed key has an entry, and no key has
\* two (eraseEntries, release and reserve each update both containers).
IndexMatches(c) ==
    /\ \A e \in c.entries : c.keys[e.key] = e.token
    /\ \A k \in Keys : c.keys[k] # 0 => \E e \in c.entries : e.key = k
    /\ \A e, f \in c.entries : e.key = f.key => e = f

KeyIndexConsistent == IndexMatches(cache)

\* An entry always sits in an existing bucket, and a bucket exists exactly
\* while it is the source's current one or some owner references it: no record
\* is lost while its height is owned and none is leaked afterwards.
BucketsMatch(c) ==
    /\ \A e \in c.entries : e.height \in c.buckets[e.sourceId]
    /\ \A s \in Sources, h \in Heights :
          h \in c.buckets[s] <=> (h = c.currentHeight[s] \/ c.owners[s][h] # 0)

BucketsExact == BucketsMatch(cache)

OwnersOf(c, s, h) ==
    {o \in Owners : c.ownerHeights[o].sourceId = s /\ h \in c.ownerHeights[o].heights}

\* The reference count of a bucket is the number of owners that list it, so the
\* decrement of detachOwner never meets a zero or an erased bucket.
CountsMatch(c) ==
    \A s \in Sources, h \in Heights :
        c.owners[s][h] = Cardinality(OwnersOf(c, s, h))

RefCountExact == CountsMatch(cache)

\* The four containers of the cache agree after every operation: the key index
\* with the buckets' entries, the buckets with the current heights and the
\* references, and the reference counts with the owners' lists.
CacheExact == KeyIndexConsistent /\ BucketsExact /\ RefCountExact

\* The two capacity limits of reserve hold in every state.
WithinCapacity ==
    /\ size(cache) <= kMaxEntries
    /\ \A s \in Sources : sourceSize(cache, s) <= kMaxEntriesPerSource

\* A record disappears only with its bucket, or because the caller that still
\* held that very reservation released it: not through a stale or repeated
\* release, and not in the middle of a same-height refresh, where the bucket
\* exists before and after (the comment at GlobalShareCache.cpp:222).
RecordLost(e) ==
    \/ e \in held /\ e \notin held'
    \/ e.height \notin cache'.buckets[e.sourceId]

NoRecordLost ==
    [][\A e \in cache.entries \ cache'.entries : RecordLost(e)]_vars
=============================================================================
