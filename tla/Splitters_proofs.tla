-------------------------- MODULE Splitters_proofs --------------------------
(***************************************************************************)
(* Proofs about the splitters of all modes: in every mode no two miners    *)
(* search the same nonces of a job (WorkDisjoint), shares and answers go   *)
(* where they belong (SharesRouted), mappers and miners agree              *)
(* (MappersMatchMiners), and the counts of connections are exact           *)
(* (CountsExact), for any number of miners, pools, jobs and shares.  The   *)
(* nicehash mode comes first, then the simple mode, the extra nonces and   *)
(* the donate route, each with an inductive invariant of its own; the      *)
(* connections are MinerConnections_proofs; the composition is last.       *)
(***************************************************************************)
EXTENDS Splitters, MinerConnections_proofs

(***************************************************************************)
(* The nicehash mode: the inductive invariant                              *)
(***************************************************************************)

NJobType == [id : Nat, client : Nat, restored : BOOLEAN]

ContextType == [seq : Int, req : Nat, miner : Miners]

PoolLinkType   == [st : {"stopped", "connecting", "up"}, session : Nat]
DonateLinkType == [st : {"off", "connecting", "active"}, session : Nat]

MapperType ==
    [suspended : Nat, active : BOOLEAN, job : NJobType, prevJob : NJobType,
     used : [Slots -> Int], index : Slots, miners : SUBSET Miners,
     results : SUBSET ContextType, strategy : PoolLinkType,
     donate : DonateLinkType, saved : NJobType]

PlaceType == [st : {"new", "in", "closed"}, mapper : Nat, byte : Slots]

NShareType == [miner : Miners, answers : SUBSET (Miners \X Nat \X BOOLEAN)]

NRequestType ==
    [seq : Nat, req : Nat, job : Nat, session : Nat, donation : BOOLEAN,
     restored : BOOLEAN]

\* The types of the state of the splitter.
NonceTypeOK ==
    /\ upstreams \in Seq(MapperType)
    /\ miner \in [Miners -> PlaceType]
    /\ jobs \in Seq(Nat) /\ sessions \in Nat /\ sequence \in Nat
    /\ shares \in Seq(NShareType)
    /\ inflight \in SUBSET NRequestType
    /\ work \in SUBSET (Nat \X Slots \X Miners)

\* A byte in use is that of a connected miner of the mapper, and a suspended
\* mapper has no byte in use.
ByteOf(k, b) ==
    LET u == upstreams[k].used[b]
    IN  /\ u > 0 => u \in Miners /\ miner[u] = [st |-> "in", mapper |-> k, byte |-> b]
        /\ u # 0 => ~IsSuspended(upstreams[k])

\* The converse of MinersPlaced.
Placement ==
    /\ upstreams # <<>> => ~IsSuspended(upstreams[1])
    /\ \A k \in DOMAIN upstreams :
          /\ \A b \in Slots : ByteOf(k, b)
          /\ \A m \in upstreams[k].miners : miner[m].st = "in" /\ miner[m].mapper = k

\* Every job a mapper has is one that was received, from that client.
JobKnown(j) == j = NoJob \/ (j.id \in DOMAIN jobs /\ jobs[j.id] = j.client)

JobsKnown ==
    /\ \A i \in DOMAIN jobs : jobs[i] \in 1..sessions
    /\ \A k \in DOMAIN upstreams :
          /\ JobKnown(upstreams[k].job) /\ JobKnown(upstreams[k].prevJob)
          /\ JobKnown(upstreams[k].saved)

\* Mappers have jobs of their own.
Held(mp) == {mp.job.id, mp.saved.id}

JobsOwned ==
    \A k, l \in DOMAIN upstreams : k # l =>
        Held(upstreams[k]) \cap Held(upstreams[l]) \subseteq {0}

\* A mapper that may hand out its job again.
Attached(mp) == mp.active \/ mp.donate.st = "active"

\* The ranges of the job that a mapper may hand out again are still reserved,
\* for their miners or on behalf of the ones that left, and a job is not handed
\* out as long as it is saved.
WorkOf(mp) ==
    /\ Attached(mp) =>
          /\ mp.job.id # 0
          /\ \A w \in work : w[1] = mp.job.id => mp.used[w[2]] \in {w[3], -w[3]}
    /\ mp.donate.st # "off" /\ mp.saved.id # 0 =>
          /\ mp.saved.id # mp.job.id
          /\ \A w \in work : w[1] # mp.saved.id

WorkKept ==
    /\ \A w \in work : w[1] \in DOMAIN jobs
    /\ \A k \in DOMAIN upstreams : WorkOf(upstreams[k])

\* The sessions of a mapper: those of its two connections differ, and the job
\* saved is of its pool, of this session or of an earlier one.
LinksOK(mp) ==
    /\ mp.strategy.session <= sessions /\ mp.donate.session <= sessions
    /\ mp.strategy.st = "up" <=> mp.strategy.session # 0
    /\ mp.donate.st = "active" <=> mp.donate.session # 0
    /\ mp.strategy.session # 0 =>
          /\ mp.strategy.session # mp.donate.session
          /\ mp.saved.client <= mp.strategy.session
    /\ mp.donate.session # 0 => mp.saved.client # mp.donate.session

\* The jobs a mapper accepts shares for are those of the connection that its
\* shares go to, unless the job was restored.
IssuedOK(mp) ==
    /\ mp.prevJob # NoJob => mp.prevJob.client = mp.job.client /\ ~mp.job.restored
    /\ mp.donate.session # 0 => mp.job.client = mp.donate.session /\ ~mp.job.restored
    /\ mp.active /\ mp.donate.session = 0 /\ mp.strategy.session # 0 =>
          \/ mp.job.client = mp.strategy.session
          \/ mp.job.restored /\ mp.job.client < mp.strategy.session

Issued == \A k \in DOMAIN upstreams : LinksOK(upstreams[k]) /\ IssuedOK(upstreams[k])

\* A request and the context filed under its sequence are of the same share.
Contexts ==
    /\ \A k \in DOMAIN upstreams : \A r \in upstreams[k].results :
          /\ r.seq < sequence
          /\ r.req \in DOMAIN shares /\ r.miner = shares[r.req].miner
    /\ \A p \in inflight :
          /\ p.seq < sequence
          /\ p.req \in DOMAIN shares /\ p.job \in DOMAIN jobs
          /\ \A k \in DOMAIN upstreams : \A r \in upstreams[k].results :
                r.seq = p.seq => r.req = p.req

\* What the properties need together: who has a byte, which ranges of nonces
\* are out, and where the jobs in use come from.
PlaceInv == Placement /\ MinersPlaced
WorkInv  == JobsKnown /\ JobsOwned /\ WorkKept /\ DisjointWork
RouteInv == Issued /\ Contexts /\ NonceRouting

NonceInv == NonceTypeOK /\ PlaceInv /\ WorkInv /\ RouteInv

(***************************************************************************)
(* The helpers of the model                                                *)
(***************************************************************************)

LEMMA SmallestElement ==
    ASSUME NEW S \in SUBSET Nat, S # {}
    PROVE  \E n \in S : \A m \in S : n <= m
<1> DEFINE less == OpToRel(<, Nat)
<1>1. less = {ss \in Nat \X Nat : ss[1] < ss[2]}
  BY DEF OpToRel
<1>2. IsWellFoundedOn(less, Nat)
  BY NatLessThanWellFounded
<1> HIDE DEF less
<1>3. PICK n \in S : \A m \in S : ~ (<<m, n>> \in less)
  BY <1>2, WFMin
<1>4. ASSUME NEW m \in S PROVE n <= m
  <2>1. m \in Nat /\ n \in Nat /\ ~ (<<m, n>> \in less)
    BY <1>3
  <2>2. ~ (m < n)
    BY <1>1, <2>1
  <2> QED BY <2>1, <2>2
<1> QED BY <1>4

LEMMA LargestElement ==
    ASSUME NEW S \in SUBSET Nat, S # {}, NEW top \in Nat, \A n \in S : n <= top
    PROVE  \E n \in S : \A m \in S : m <= n
<1> DEFINE T == {top - n : n \in S}
<1>1. T \in SUBSET Nat /\ T # {}
  <2>1. ASSUME NEW n \in S PROVE top - n \in Nat
    <3>1. n \in Nat /\ n <= top
      OBVIOUS
    <3> QED BY <3>1
  <2> QED BY <2>1
<1> HIDE DEF T
<1>2. PICK t \in T : \A u \in T : t <= u
  BY <1>1, SmallestElement
<1>3. PICK n \in S : t = top - n
  BY DEF T
<1>4. ASSUME NEW m \in S PROVE m <= n
  <2>1. t <= top - m
    BY <1>2 DEF T
  <2>2. m \in Nat /\ n \in Nat
    OBVIOUS
  <2> QED BY <1>3, <2>1, <2>2
<1> QED BY <1>4

LEMMA SlotFacts ==
    /\ NMiners \in Nat /\ NMiners > 0 /\ NSlots \in Nat /\ NSlots > 0
    /\ Slots \subseteq Nat /\ 0 \in Slots /\ Miners \subseteq Nat /\ 0 \notin Miners
BY NonceAssumption DEF Slots, Miners

\* nextIndex() gives a free byte, unless it gives -1.
LEMMA NextIndexFree ==
    ASSUME NEW mp \in MapperType
    PROVE  \/ NextIndex(mp) = -1 /\ \A b \in Slots : mp.used[b] # 0
           \/ NextIndex(mp) \in Slots /\ mp.used[NextIndex(mp)] = 0
<1> DEFINE free     == {b \in Slots : mp.used[b] = 0}
           after    == {b \in free : b >= mp.index}
           First(S) == CHOOSE b \in S : \A c \in S : b <= c
<1>1. ASSUME NEW S \in SUBSET Slots, S # {} PROVE First(S) \in S
  <2>1. S \in SUBSET Nat
    BY SlotFacts
  <2>2. \E b \in S : \A c \in S : b <= c
    BY <1>1, <2>1, SmallestElement
  <2> QED BY <2>2, Zenon
<1>2. NextIndex(mp) = IF after # {} THEN First(after)
                      ELSE IF free # {} THEN First(free) ELSE -1
  BY DEF NextIndex
<1>3. after \in SUBSET Slots /\ free \in SUBSET Slots
  OBVIOUS
<1> HIDE DEF First
<1>4. CASE after # {}
  <2>1. First(after) \in after
    BY <1>1, <1>3, <1>4
  <2> QED BY <1>2, <1>4, <2>1
<1>5. CASE after = {} /\ free # {}
  <2>1. First(free) \in free
    BY <1>1, <1>3, <1>5
  <2> QED BY <1>2, <1>5, <2>1
<1>6. CASE after = {} /\ free = {}
  BY <1>2, <1>6
<1> QED BY <1>4, <1>5, <1>6

(***************************************************************************)
(* The steps of the pools                                                  *)
(***************************************************************************)

\* A step that changes mapper k alone, and neither its miners nor its contexts.
Moved(k, new) ==
    /\ new \in MapperType
    /\ upstreams' = [upstreams EXCEPT ![k] = new]
    /\ new.suspended = upstreams[k].suspended /\ new.index = upstreams[k].index
    /\ new.miners = upstreams[k].miners /\ new.results = upstreams[k].results
    /\ inflight' \subseteq inflight
    /\ UNCHANGED <<miner, sequence, shares>>

\* The storage keeps its jobs.
Keeps(k, new) ==
    /\ new.job = upstreams[k].job /\ new.prevJob = upstreams[k].prevJob
    /\ new.used = upstreams[k].used
    /\ work' = work

\* The storage gets job j, which it hands out.
Gets(k, new, j) ==
    /\ new.job = j
    /\ new.prevJob = IF upstreams[k].job.client = j.client THEN upstreams[k].job ELSE NoJob
    /\ new.used = [b \in Slots |-> IF upstreams[k].used[b] < 0 THEN 0 ELSE upstreams[k].used[b]]
    /\ new.saved = upstreams[k].saved
    /\ work' \subseteq work \cup HandedOut(new)

\* Job j is new, from session c.
Fresh(j, c) ==
    /\ j = JobOf(Len(jobs) + 1, c, FALSE)
    /\ jobs' = Append(jobs, c)

\* The types of the parts that the steps below replace.
LEMMA EditType ==
    ASSUME NEW mp \in MapperType
    PROVE  /\ \A link \in DonateLinkType : [mp EXCEPT !.donate = link] \in MapperType
           /\ \A link \in PoolLinkType, a \in BOOLEAN :
                 [mp EXCEPT !.active = a, !.strategy = link] \in MapperType
           /\ \A link \in DonateLinkType, a \in BOOLEAN :
                 [mp EXCEPT !.active = a, !.donate = link] \in MapperType
           /\ \A j \in NJobType : [mp EXCEPT !.saved = j] \in MapperType
BY DEF MapperType

LEMMA SetJobType ==
    ASSUME NEW mp \in MapperType, NEW j \in NJobType
    PROVE  StorageSetJob(mp, j) \in MapperType
<1> DEFINE used == [b \in Slots |-> IF mp.used[b] < 0 THEN 0 ELSE mp.used[b]]
           prev == IF mp.job.client = j.client THEN mp.job ELSE NoJob
<1>1. used \in [Slots -> Int]
  BY DEF MapperType
<1>2. prev \in NJobType
  BY DEF MapperType, NJobType, NoJob, JobOf
<1>3. StorageSetJob(mp, j) = [mp EXCEPT !.used = used, !.prevJob = prev, !.job = j]
  BY DEF StorageSetJob
<1> HIDE DEF used, prev
<1> QED BY <1>1, <1>2, <1>3 DEF MapperType

LEMMA HandedOutType ==
    ASSUME NEW mp \in MapperType
    PROVE  HandedOut(mp) \in SUBSET (Nat \X Slots \X Miners)
BY DEF HandedOut, MapperType, NJobType

\* onJob: the job is saved, or the storage gets it.
LEMMA OnJobShape ==
    ASSUME NEW mp \in MapperType, NEW j \in NJobType,
           NEW fromDonate \in BOOLEAN, NEW over \in BOOLEAN
    PROVE  /\ OnJob(mp, j, fromDonate, over) \in MapperType
           /\ \/ /\ mp.donate.st = "active" /\ ~fromDonate
                 /\ OnJob(mp, j, fromDonate, over) = [mp EXCEPT !.saved = j]
              \/ /\ mp.donate.st = "active" /\ ~fromDonate
                 /\ OnJob(mp, j, fromDonate, over) =
                      [StorageSetJob(mp, j) EXCEPT !.donate = [st |-> "off", session |-> 0]]
              \/ /\ mp.donate.st # "active" \/ fromDonate
                 /\ OnJob(mp, j, fromDonate, over) = StorageSetJob(mp, j)
<1>1. StorageSetJob(mp, j) \in MapperType
  BY SetJobType
<1>2. [StorageSetJob(mp, j) EXCEPT !.donate = [st |-> "off", session |-> 0]] \in MapperType
  <2>1. [st |-> "off", session |-> 0] \in DonateLinkType
    BY DEF DonateLinkType
  <2>2. \A s \in MapperType, link \in DonateLinkType : [s EXCEPT !.donate = link] \in MapperType
    BY EditType
  <2> HIDE DEF StorageSetJob
  <2> QED BY <1>1, <2>1, <2>2, Zenon
<1>3. [mp EXCEPT !.saved = j] \in MapperType
  BY EditType
<1> QED BY <1>1, <1>2, <1>3 DEF OnJob

\* What Handing makes of the ranges.
Hands(k, new) ==
    /\ upstreams' = [upstreams EXCEPT ![k] = new]
    /\ new.job = upstreams[k].job => work' = work
    /\ work' \subseteq work \cup HandedOut(new)

LEMMA HandingWork ==
    ASSUME NEW k, NEW mp, Handing(k, mp)
    PROVE  Hands(k, mp)
BY DEF Handing, Live, Hands

LinkOff == [st |-> "off", session |-> 0]

\* What onJob makes of a new job of the pool: saved, or handed out.
PoolJob(k, new, j) ==
    \/ /\ upstreams[k].donate.st = "active" /\ new.donate = upstreams[k].donate
       /\ Keeps(k, new) /\ new.saved = j
    \/ /\ Gets(k, new, j)
       /\ IF upstreams[k].donate.st = "active"
            THEN new.donate = LinkOff
            ELSE new.donate = upstreams[k].donate

\* Mapper mp is old but for the strategy and what it tells the storage.
OnlyStrategy(mp, old) ==
    /\ mp.donate = old.donate /\ mp.job = old.job /\ mp.prevJob = old.prevJob
    /\ mp.used = old.used /\ mp.saved = old.saved /\ mp.suspended = old.suspended
    /\ mp.index = old.index /\ mp.miners = old.miners /\ mp.results = old.results

LEMMA PoolJobShape ==
    ASSUME NonceTypeOK, NEW k \in DOMAIN upstreams,
           NEW mp \in MapperType, OnlyStrategy(mp, upstreams[k]),
           NEW j \in NJobType, NEW over \in BOOLEAN, Hands(k, OnJob(mp, j, FALSE, over)),
           inflight' \subseteq inflight, UNCHANGED <<miner, sequence, shares>>
    PROVE  \E new \in MapperType :
              /\ Moved(k, new) /\ PoolJob(k, new, j)
              /\ new.active = mp.active /\ new.strategy = mp.strategy
<1> DEFINE new == OnJob(mp, j, FALSE, over)
           old == upstreams[k]
<1>2. mp \in MapperType
  OBVIOUS
<1>3. /\ mp.donate = old.donate
      /\ mp.job = old.job /\ mp.prevJob = old.prevJob /\ mp.used = old.used
      /\ mp.saved = old.saved /\ mp.suspended = old.suspended /\ mp.index = old.index
      /\ mp.miners = old.miners /\ mp.results = old.results
  BY DEF OnlyStrategy
<1>4. /\ new \in MapperType
      /\ \/ mp.donate.st = "active" /\ new = [mp EXCEPT !.saved = j]
         \/ mp.donate.st = "active" /\ new = [StorageSetJob(mp, j) EXCEPT !.donate = LinkOff]
         \/ mp.donate.st # "active" /\ new = StorageSetJob(mp, j)
  BY <1>2, OnJobShape DEF LinkOff
<1>5. /\ upstreams' = [upstreams EXCEPT ![k] = new]
      /\ new.job = old.job => work' = work
      /\ work' \subseteq work \cup HandedOut(new)
  BY DEF Hands
<1> HIDE DEF new
<1>6. CASE mp.donate.st = "active" /\ new = [mp EXCEPT !.saved = j]
  <2>1. /\ new.saved = j /\ new.active = mp.active /\ new.strategy = mp.strategy
        /\ new.donate = mp.donate /\ new.job = mp.job /\ new.prevJob = mp.prevJob
        /\ new.used = mp.used /\ new.suspended = mp.suspended /\ new.index = mp.index
        /\ new.miners = mp.miners /\ new.results = mp.results
    BY <1>2, <1>6 DEF MapperType
  <2>2. Moved(k, new)
    BY <1>3, <1>4, <1>5, <2>1 DEF Moved
  <2>3. PoolJob(k, new, j)
    BY <1>3, <1>5, <1>6, <2>1 DEF PoolJob, Keeps
  <2>4. new.active = mp.active /\ new.strategy = mp.strategy
    BY <2>1
  <2> QED BY <1>4, <2>2, <2>3, <2>4
<1>7. CASE /\ mp.donate.st = "active"
           /\ new = [StorageSetJob(mp, j) EXCEPT !.donate = LinkOff]
  <2>1. /\ new.saved = mp.saved /\ new.active = mp.active /\ new.strategy = mp.strategy
        /\ new.donate = LinkOff /\ new.job = j
        /\ new.prevJob = IF mp.job.client = j.client THEN mp.job ELSE NoJob
        /\ new.used = [b \in Slots |-> IF mp.used[b] < 0 THEN 0 ELSE mp.used[b]]
        /\ new.suspended = mp.suspended /\ new.index = mp.index
        /\ new.miners = mp.miners /\ new.results = mp.results
    BY <1>2, <1>7 DEF MapperType, StorageSetJob
  <2>2. Moved(k, new)
    BY <1>3, <1>4, <1>5, <2>1 DEF Moved
  <2>3. PoolJob(k, new, j)
    BY <1>3, <1>5, <1>7, <2>1 DEF PoolJob, Gets
  <2>4. new.active = mp.active /\ new.strategy = mp.strategy
    BY <2>1
  <2> QED BY <1>4, <2>2, <2>3, <2>4
<1>8. CASE mp.donate.st # "active" /\ new = StorageSetJob(mp, j)
  <2>1. /\ new.saved = mp.saved /\ new.active = mp.active /\ new.strategy = mp.strategy
        /\ new.donate = mp.donate /\ new.job = j
        /\ new.prevJob = IF mp.job.client = j.client THEN mp.job ELSE NoJob
        /\ new.used = [b \in Slots |-> IF mp.used[b] < 0 THEN 0 ELSE mp.used[b]]
        /\ new.suspended = mp.suspended /\ new.index = mp.index
        /\ new.miners = mp.miners /\ new.results = mp.results
    BY <1>2, <1>8 DEF MapperType, StorageSetJob
  <2>2. Moved(k, new)
    BY <1>3, <1>4, <1>5, <2>1 DEF Moved
  <2>3. PoolJob(k, new, j)
    BY <1>3, <1>5, <1>8, <2>1 DEF PoolJob, Gets
  <2>4. new.active = mp.active /\ new.strategy = mp.strategy
    BY <2>1
  <2> QED BY <1>4, <2>2, <2>3, <2>4
<1> QED BY <1>4, <1>6, <1>7, <1>8

LEMMA StrategyLoginShape ==
    ASSUME NonceTypeOK, NEW k \in DOMAIN upstreams, StrategyLogin(k)
    PROVE  /\ sessions' = sessions + 1
           /\ \E new \in MapperType, j \in NJobType :
                 /\ Moved(k, new) /\ PoolJob(k, new, j) /\ Fresh(j, sessions + 1)
                 /\ new.active = TRUE /\ new.strategy = [st |-> "up", session |-> sessions + 1]
<1> DEFINE j    == JobOf(Len(jobs) + 1, sessions + 1, FALSE)
           link == [st |-> "up", session |-> sessions + 1]
           mp   == [upstreams[k] EXCEPT !.active = TRUE, !.strategy = link]
<1>1. /\ sessions' = sessions + 1 /\ jobs' = Append(jobs, sessions + 1)
      /\ UNCHANGED <<miner, sequence, shares>>
  BY DEF StrategyLogin
<1>2. Len(jobs') = Len(jobs) + 1
  BY <1>1 DEF NonceTypeOK
<1>3. PICK over \in BOOLEAN : /\ Hands(k, OnJob(mp, j, FALSE, over))
                              /\ inflight' \subseteq inflight
  <2> DEFINE link2 == [st |-> "up", session |-> sessions']
             mp2   == [upstreams[k] EXCEPT !.active = TRUE, !.strategy = link2]
             j2    == JobOf(Len(jobs'), sessions', FALSE)
  <2>1. \E over \in BOOLEAN : /\ Handing(k, OnJob(mp2, j2, FALSE, over))
                              /\ inflight' \subseteq inflight
    BY DEF StrategyLogin, Drop
  <2>2. mp2 = mp /\ j2 = j
    BY <1>1, <1>2
  <2> HIDE DEF mp2, j2, mp, j
  <2>3. \E over \in BOOLEAN : /\ Hands(k, OnJob(mp2, j2, FALSE, over))
                              /\ inflight' \subseteq inflight
    BY <2>1, HandingWork
  <2> QED BY <2>2, <2>3
<1>4. j \in NJobType /\ link \in PoolLinkType
  BY DEF NJobType, PoolLinkType, JobOf, NonceTypeOK
<1>5. Fresh(j, sessions + 1)
  BY <1>1 DEF Fresh
<1>6. mp \in MapperType
  <2>1. upstreams[k] \in MapperType
    BY DEF NonceTypeOK
  <2> HIDE DEF link
  <2> QED BY <1>4, <2>1, EditType, Zenon
<1>7. mp.active = TRUE /\ mp.strategy = link /\ OnlyStrategy(mp, upstreams[k])
  BY DEF NonceTypeOK, MapperType, OnlyStrategy
<1> HIDE DEF j, link, mp
<1>8. \E new \in MapperType :
         Moved(k, new) /\ PoolJob(k, new, j) /\ new.active = TRUE /\ new.strategy = link
  BY <1>1, <1>3, <1>4, <1>6, <1>7, PoolJobShape
<1> QED BY <1>1, <1>4, <1>5, <1>8 DEF link

LEMMA StrategyJobShape ==
    ASSUME NonceTypeOK, NEW k \in DOMAIN upstreams, StrategyJob(k)
    PROVE  /\ sessions' = sessions /\ upstreams[k].strategy.st = "up"
           /\ \E new \in MapperType, j \in NJobType :
                 /\ Moved(k, new) /\ PoolJob(k, new, j)
                 /\ Fresh(j, upstreams[k].strategy.session)
                 /\ new.active = upstreams[k].active /\ new.strategy = upstreams[k].strategy
<1> DEFINE old == upstreams[k]
           j   == JobOf(Len(jobs) + 1, old.strategy.session, FALSE)
<1>1. /\ sessions' = sessions /\ jobs' = Append(jobs, old.strategy.session)
      /\ old.strategy.st = "up" /\ UNCHANGED <<miner, sequence, shares>>
  BY DEF StrategyJob
<1>2. Len(jobs') = Len(jobs) + 1
  BY <1>1 DEF NonceTypeOK
<1>3. PICK over \in BOOLEAN : /\ Hands(k, OnJob(old, j, FALSE, over))
                              /\ inflight' \subseteq inflight
  <2> DEFINE j2 == JobOf(Len(jobs'), old.strategy.session, FALSE)
  <2>1. \E over \in BOOLEAN : /\ Handing(k, OnJob(old, j2, FALSE, over))
                              /\ inflight' \subseteq inflight
    BY DEF StrategyJob, Drop
  <2>2. j2 = j
    BY <1>2
  <2> HIDE DEF j2, j
  <2>3. \E over \in BOOLEAN : /\ Hands(k, OnJob(old, j2, FALSE, over))
                              /\ inflight' \subseteq inflight
    BY <2>1, HandingWork
  <2> QED BY <2>2, <2>3
<1>4. old \in MapperType
  BY DEF NonceTypeOK
<1>5. j \in NJobType
  <2>1. old.strategy \in PoolLinkType
    BY <1>4 DEF MapperType
  <2>2. old.strategy.session \in Nat
    BY <2>1 DEF PoolLinkType
  <2>3. Len(jobs) + 1 \in Nat
    BY DEF NonceTypeOK
  <2> QED BY <2>2, <2>3 DEF NJobType, JobOf
<1>6. OnlyStrategy(old, old)
  BY DEF OnlyStrategy
<1>7. Fresh(j, old.strategy.session)
  BY <1>1 DEF Fresh
<1> HIDE DEF j
<1>8. \E new \in MapperType :
         /\ Moved(k, new) /\ PoolJob(k, new, j)
         /\ new.active = old.active /\ new.strategy = old.strategy
  BY <1>1, <1>3, <1>4, <1>5, <1>6, PoolJobShape
<1> QED BY <1>1, <1>5, <1>7, <1>8

LEMMA StrategyPauseShape ==
    ASSUME NonceTypeOK, NEW k \in DOMAIN upstreams, StrategyPause(k)
    PROVE  /\ jobs' = jobs /\ sessions' = sessions
           /\ \E new \in MapperType :
                 /\ Moved(k, new) /\ Keeps(k, new)
                 /\ new.active = FALSE /\ new.strategy = [st |-> "connecting", session |-> 0]
                 /\ new.donate = upstreams[k].donate /\ new.saved = upstreams[k].saved
<1> DEFINE link == [st |-> "connecting", session |-> 0]
           new  == [upstreams[k] EXCEPT !.active = FALSE, !.strategy = link]
<1>1. link \in PoolLinkType
  BY DEF PoolLinkType
<1>2. upstreams[k] \in MapperType
  BY DEF NonceTypeOK
<1>3. new \in MapperType
  <2> HIDE DEF link
  <2> QED BY <1>1, <1>2, EditType, Zenon
<1>4. /\ new.active = FALSE /\ new.strategy = link
      /\ OnlyStrategy(new, upstreams[k])
  BY <1>2 DEF MapperType, OnlyStrategy
<1>5. /\ upstreams' = [upstreams EXCEPT ![k] = new]
      /\ inflight' \subseteq inflight
      /\ UNCHANGED <<miner, jobs, sessions, sequence, shares, work>>
  BY DEF StrategyPause, Drop
<1> HIDE DEF new, link
<1> QED BY <1>3, <1>4, <1>5 DEF Moved, Keeps, OnlyStrategy, link

\* What the donation leaves alone.
OnlyDonate(mp, old) ==
    /\ mp.strategy = old.strategy /\ mp.job = old.job /\ mp.prevJob = old.prevJob
    /\ mp.used = old.used /\ mp.suspended = old.suspended
    /\ mp.index = old.index /\ mp.miners = old.miners /\ mp.results = old.results

LEMMA DonateStartShape ==
    ASSUME NonceTypeOK, NEW k \in DOMAIN upstreams, DonateStart(k),
           upstreams[k].donate.session = 0
    PROVE  /\ jobs' = jobs /\ sessions' = sessions /\ upstreams[k].donate.st = "off"
           /\ \E new \in MapperType :
                 /\ Moved(k, new) /\ Keeps(k, new)
                 /\ new.active = upstreams[k].active /\ new.strategy = upstreams[k].strategy
                 /\ new.donate = [st |-> "connecting", session |-> 0] /\ new.saved = NoJob
<1> DEFINE old  == upstreams[k]
           link == [old.donate EXCEPT !.st = "connecting"]
           new  == [[old EXCEPT !.saved = NoJob] EXCEPT !.donate = link]
<1>1. old \in MapperType
  BY DEF NonceTypeOK
<1>2. old.donate \in DonateLinkType
  BY <1>1 DEF MapperType
<1>3. link \in DonateLinkType /\ link = [st |-> "connecting", session |-> 0]
  BY <1>2 DEF DonateLinkType
<1>4. NoJob \in NJobType
  BY DEF NoJob, JobOf, NJobType
<1>5. new \in MapperType
  <2>1. [old EXCEPT !.saved = NoJob] \in MapperType
    BY <1>1, <1>4, EditType, Zenon
  <2> HIDE DEF link
  <2> QED BY <1>3, <2>1, EditType, Zenon
<1>6. /\ new.donate = link /\ new.saved = NoJob /\ new.active = old.active
      /\ OnlyDonate(new, old)
  BY <1>1 DEF MapperType, OnlyDonate
<1>7. /\ upstreams' = [upstreams EXCEPT ![k] = new]
      /\ old.donate.st = "off" /\ inflight' \subseteq inflight
      /\ UNCHANGED <<miner, jobs, sessions, sequence, shares, work>>
  BY DEF DonateStart
<1> HIDE DEF new, link
<1> QED BY <1>3, <1>5, <1>6, <1>7 DEF Moved, Keeps, OnlyDonate

LEMMA DonateLostShape ==
    ASSUME NonceTypeOK, NEW k \in DOMAIN upstreams, DonateLost(k)
    PROVE  /\ jobs' = jobs /\ sessions' = sessions /\ upstreams[k].donate.st = "active"
           /\ \E new \in MapperType :
                 /\ Moved(k, new) /\ Keeps(k, new)
                 /\ new.active = FALSE /\ new.strategy = upstreams[k].strategy
                 /\ new.donate = [st |-> "connecting", session |-> 0]
                 /\ new.saved = upstreams[k].saved
<1> DEFINE link == [st |-> "connecting", session |-> 0]
           new  == [upstreams[k] EXCEPT !.active = FALSE, !.donate = link]
<1>1. link \in DonateLinkType
  BY DEF DonateLinkType
<1>2. upstreams[k] \in MapperType
  BY DEF NonceTypeOK
<1>3. new \in MapperType
  <2> HIDE DEF link
  <2> QED BY <1>1, <1>2, EditType, Zenon
<1>4. /\ new.active = FALSE /\ new.donate = link /\ new.saved = upstreams[k].saved
      /\ OnlyDonate(new, upstreams[k])
  BY <1>2 DEF MapperType, OnlyDonate
<1>5. /\ upstreams' = [upstreams EXCEPT ![k] = new]
      /\ upstreams[k].donate.st = "active" /\ inflight' \subseteq inflight
      /\ UNCHANGED <<miner, jobs, sessions, sequence, shares, work>>
  BY DEF DonateLost, Drop
<1> HIDE DEF new, link
<1> QED BY <1>3, <1>4, <1>5 DEF Moved, Keeps, OnlyDonate, link

LEMMA DonateJobShape ==
    ASSUME NonceTypeOK, NEW k \in DOMAIN upstreams, DonateJob(k)
    PROVE  LET old == upstreams[k]
               s   == IF old.donate.st = "connecting" THEN sessions + 1 ELSE old.donate.session
           IN  /\ old.donate.st # "off"
               /\ sessions' = IF old.donate.st = "connecting" THEN s ELSE sessions
               /\ \E new \in MapperType, j \in NJobType :
                     /\ Moved(k, new) /\ Gets(k, new, j) /\ Fresh(j, s)
                     /\ new.active = IF old.donate.st = "connecting" THEN TRUE ELSE old.active
                     /\ new.strategy = old.strategy
                     /\ new.donate = [st |-> "active", session |-> s]
<1> DEFINE old   == upstreams[k]
           first == old.donate.st = "connecting"
           s     == IF first THEN sessions + 1 ELSE old.donate.session
           a     == IF first THEN TRUE ELSE old.active
           link  == [st |-> "active", session |-> s]
           mp    == [old EXCEPT !.active = a, !.donate = link]
           j     == JobOf(Len(jobs) + 1, s, FALSE)
           new   == StorageSetJob(mp, j)
<1>1. old \in MapperType
  BY DEF NonceTypeOK
<1>2. s \in Nat /\ a \in BOOLEAN
  <2>1. old.donate \in DonateLinkType /\ old.active \in BOOLEAN
    BY <1>1 DEF MapperType
  <2>2. old.donate.session \in Nat /\ sessions \in Nat
    BY <2>1 DEF NonceTypeOK, DonateLinkType
  <2>3. CASE first
    BY <2>2, <2>3
  <2>4. CASE ~first
    BY <2>1, <2>2, <2>4
  <2> QED BY <2>3, <2>4
<1>3. link \in DonateLinkType
  BY <1>2 DEF DonateLinkType
<1>4. /\ old.donate.st # "off"
      /\ sessions' = IF first THEN s ELSE sessions
      /\ jobs' = Append(jobs, s)
      /\ UNCHANGED <<miner, sequence, shares, inflight>>
  BY DEF DonateJob
<1>5. Len(jobs') = Len(jobs) + 1
  BY <1>2, <1>4 DEF NonceTypeOK
<1>6. j \in NJobType /\ Fresh(j, s)
  <2>1. Len(jobs) + 1 \in Nat
    BY DEF NonceTypeOK
  <2> HIDE DEF s
  <2> QED BY <1>2, <1>4, <2>1 DEF NJobType, JobOf, Fresh
<1>7. mp \in MapperType
  <2> HIDE DEF link, a
  <2> QED BY <1>1, <1>2, <1>3, EditType, Zenon
<1>8. Hands(k, OnJob(mp, j, TRUE, FALSE))
  <2> DEFINE mp2 == [old EXCEPT !.active = IF first THEN TRUE ELSE @, !.donate = link]
             j2  == JobOf(Len(jobs'), s, FALSE)
  <2>1. Handing(k, OnJob(mp2, j2, TRUE, FALSE))
    BY DEF DonateJob
  <2>2. mp2 = mp /\ j2 = j
    BY <1>5
  <2> HIDE DEF mp2, j2, mp, j
  <2>3. Hands(k, OnJob(mp2, j2, TRUE, FALSE))
    BY <2>1, HandingWork
  <2> QED BY <2>2, <2>3
<1>9. /\ mp.active = a /\ mp.donate = link /\ mp.saved = old.saved
      /\ OnlyDonate(mp, old)
  <2> HIDE DEF a, link
  <2> QED BY <1>1 DEF MapperType, OnlyDonate
<1>10. /\ new.saved = mp.saved /\ new.active = mp.active /\ new.strategy = mp.strategy
       /\ new.donate = mp.donate /\ new.job = j
       /\ new.prevJob = IF mp.job.client = j.client THEN mp.job ELSE NoJob
       /\ new.used = [b \in Slots |-> IF mp.used[b] < 0 THEN 0 ELSE mp.used[b]]
       /\ new.suspended = mp.suspended /\ new.index = mp.index
       /\ new.miners = mp.miners /\ new.results = mp.results
  <2> HIDE DEF mp, j
  <2> QED BY <1>7 DEF MapperType, StorageSetJob
<1>11. new \in MapperType
  <2> HIDE DEF mp, j
  <2> QED BY <1>6, <1>7, SetJobType
<1>12. OnJob(mp, j, TRUE, FALSE) = new
  <2> HIDE DEF mp, j
  <2> QED BY DEF OnJob
<1> HIDE DEF new, mp, j, link, s, a
<1>13. /\ upstreams' = [upstreams EXCEPT ![k] = new]
       /\ work' \subseteq work \cup HandedOut(new)
  BY <1>8, <1>12 DEF Hands
<1>14. Moved(k, new)
  BY <1>4, <1>9, <1>10, <1>11, <1>13 DEF Moved, OnlyDonate
<1>15. Gets(k, new, j)
  BY <1>9, <1>10, <1>13 DEF Gets, OnlyDonate
<1>16. new.active = a /\ new.strategy = old.strategy /\ new.donate = link
  BY <1>9, <1>10 DEF OnlyDonate
<1>17. \E nw \in MapperType, jj \in NJobType :
          /\ Moved(k, nw) /\ Gets(k, nw, jj) /\ Fresh(jj, s)
          /\ nw.active = a /\ nw.strategy = old.strategy /\ nw.donate = link
  BY <1>6, <1>11, <1>14, <1>15, <1>16
<1> QED BY <1>4, <1>17 DEF s, a, link

LEMMA DonateEndShape ==
    ASSUME NonceTypeOK, NEW k \in DOMAIN upstreams, DonateEnd(k)
    PROVE  /\ jobs' = jobs /\ sessions' = sessions
           /\ upstreams[k].donate.st = "active" /\ upstreams[k].saved # NoJob
           /\ \E new \in MapperType :
                 /\ Moved(k, new) /\ Gets(k, new, Restored(upstreams[k]))
                 /\ new.active = upstreams[k].active /\ new.strategy = upstreams[k].strategy
                 /\ new.donate = LinkOff
<1> DEFINE old == upstreams[k]
           j   == Restored(old)
           mp  == StorageSetJob(old, j)
           new == [mp EXCEPT !.donate = LinkOff]
<1>1. old \in MapperType
  BY DEF NonceTypeOK
<1>2. j \in NJobType
  BY <1>1 DEF MapperType, NJobType, Restored, JobOf
<1>3. mp \in MapperType
  BY <1>1, <1>2, SetJobType
<1>4. new \in MapperType
  <2>1. LinkOff \in DonateLinkType
    BY DEF LinkOff, DonateLinkType
  <2> HIDE DEF mp
  <2> QED BY <1>3, <2>1, EditType, Zenon
<1>5. /\ old.donate.st = "active" /\ old.saved # NoJob
      /\ Handing(k, new) /\ inflight' \subseteq inflight
      /\ UNCHANGED <<miner, jobs, sessions, sequence, shares>>
  BY DEF DonateEnd, Drop, LinkOff
<1>6. /\ new.saved = old.saved /\ new.active = old.active /\ new.strategy = old.strategy
      /\ new.donate = LinkOff /\ new.job = j
      /\ new.prevJob = IF old.job.client = j.client THEN old.job ELSE NoJob
      /\ new.used = [b \in Slots |-> IF old.used[b] < 0 THEN 0 ELSE old.used[b]]
      /\ new.suspended = old.suspended /\ new.index = old.index
      /\ new.miners = old.miners /\ new.results = old.results
  <2> HIDE DEF j
  <2> QED BY <1>1 DEF MapperType, StorageSetJob
<1> HIDE DEF new, mp, j
<1>7. /\ upstreams' = [upstreams EXCEPT ![k] = new]
      /\ work' \subseteq work \cup HandedOut(new)
  BY <1>5, HandingWork DEF Hands
<1>8. Moved(k, new)
  BY <1>4, <1>5, <1>6, <1>7 DEF Moved
<1>9. Gets(k, new, j)
  BY <1>6, <1>7 DEF Gets
<1> QED BY <1>4, <1>5, <1>6, <1>8, <1>9 DEF j

\* The pool actions leave types and placement alone.
PoolStep(k) ==
    \/ StrategyLogin(k) \/ StrategyJob(k) \/ StrategyPause(k)
    \/ DonateStart(k) \/ DonateJob(k) \/ DonateLost(k) \/ DonateEnd(k)

LEMMA MovedFacts ==
    ASSUME NonceTypeOK, NEW k \in DOMAIN upstreams, NEW new, Moved(k, new)
    PROVE  /\ DOMAIN upstreams' = DOMAIN upstreams /\ Len(upstreams') = Len(upstreams)
           /\ upstreams' \in Seq(MapperType)
           /\ upstreams'[k] = new
           /\ \A l \in DOMAIN upstreams : l # k => upstreams'[l] = upstreams[l]
BY DEF NonceTypeOK, Moved

LEMMA MovedType ==
    ASSUME NonceTypeOK, NEW k \in DOMAIN upstreams, NEW new, Moved(k, new),
           jobs' \in Seq(Nat), sessions' \in Nat, work' \subseteq work \cup HandedOut(new)
    PROVE  NonceTypeOK'
<1>1. HandedOut(new) \in SUBSET (Nat \X Slots \X Miners)
  BY HandedOutType DEF Moved
<1>2. work' \in SUBSET (Nat \X Slots \X Miners)
  BY <1>1 DEF NonceTypeOK
<1>3. upstreams' \in Seq(MapperType)
  BY MovedFacts
<1>4. inflight' \in SUBSET NRequestType /\ UNCHANGED <<miner, sequence, shares>>
  BY DEF NonceTypeOK, Moved
<1> QED BY <1>2, <1>3, <1>4 DEF NonceTypeOK

LEMMA MovedPlace ==
    ASSUME NonceTypeOK, PlaceInv, NEW k \in DOMAIN upstreams, NEW new, Moved(k, new),
           \A b \in Slots : \/ new.used[b] = upstreams[k].used[b]
                            \/ upstreams[k].used[b] < 0 /\ new.used[b] = 0
    PROVE  PlaceInv'
<1>1. /\ DOMAIN upstreams' = DOMAIN upstreams /\ upstreams'[k] = new
      /\ \A l \in DOMAIN upstreams : l # k => upstreams'[l] = upstreams[l]
  BY MovedFacts
<1>2. /\ new.suspended = upstreams[k].suspended /\ new.miners = upstreams[k].miners
      /\ miner' = miner
  BY DEF Moved
<1>3. \A l \in DOMAIN upstreams :
         /\ upstreams'[l].suspended = upstreams[l].suspended
         /\ upstreams'[l].miners = upstreams[l].miners
         /\ \A b \in Slots : \/ upstreams'[l].used[b] = upstreams[l].used[b]
                             \/ upstreams[l].used[b] < 0 /\ upstreams'[l].used[b] = 0
  BY <1>1, <1>2
<1>4. ASSUME NEW l \in DOMAIN upstreams', NEW b \in Slots PROVE ByteOf(l, b)'
  <2>1. ByteOf(l, b)
    BY <1>1 DEF PlaceInv, Placement
  <2>2. \/ upstreams'[l].used[b] = upstreams[l].used[b]
        \/ upstreams[l].used[b] < 0 /\ upstreams'[l].used[b] = 0
    BY <1>1, <1>3
  <2>3. upstreams'[l].suspended = upstreams[l].suspended
    BY <1>1, <1>3
  <2> QED BY <1>2, <2>1, <2>2, <2>3 DEF ByteOf, IsSuspended
<1>5. upstreams' # <<>> => ~IsSuspended(upstreams'[1])
  <2>1. upstreams \in Seq(MapperType) /\ upstreams' \in Seq(MapperType)
    BY MovedFacts DEF NonceTypeOK
  <2>2. upstreams' # <<>> => upstreams # <<>> /\ 1 \in DOMAIN upstreams
    BY <1>1, <2>1
  <2>3. upstreams # <<>> => ~IsSuspended(upstreams[1])
    BY DEF PlaceInv, Placement
  <2>4. 1 \in DOMAIN upstreams => upstreams'[1].suspended = upstreams[1].suspended
    BY <1>3
  <2> QED BY <2>2, <2>3, <2>4 DEF IsSuspended
<1>6. Placement'
  BY <1>1, <1>2, <1>3, <1>4, <1>5 DEF PlaceInv, Placement
<1>7. ASSUME NEW m \in Miners, miner[m].st = "in"
      PROVE  /\ miner[m].mapper \in DOMAIN upstreams
             /\ ~IsSuspended(upstreams'[miner[m].mapper])
             /\ m \in upstreams'[miner[m].mapper].miners
             /\ upstreams'[miner[m].mapper].used[miner[m].byte] = m
  <2>1. /\ miner[m].mapper \in DOMAIN upstreams
        /\ ~IsSuspended(upstreams[miner[m].mapper])
        /\ m \in upstreams[miner[m].mapper].miners
        /\ upstreams[miner[m].mapper].used[miner[m].byte] = m
    BY <1>7 DEF PlaceInv, MinersPlaced
  <2>2. miner[m].byte \in Slots /\ m \in Nat /\ m > 0
    BY SlotFacts DEF NonceTypeOK, PlaceType, Miners
  <2>3. \A l \in DOMAIN upstreams, b \in Slots : upstreams[l].used[b] = m => upstreams'[l].used[b] = m
    BY <1>3, <2>2
  <2>4. \A l \in DOMAIN upstreams :
           /\ IsSuspended(upstreams'[l]) = IsSuspended(upstreams[l])
           /\ upstreams'[l].miners = upstreams[l].miners
    BY <1>3 DEF IsSuspended
  <2> QED BY <2>1, <2>2, <2>3, <2>4, Zenon
<1>8. MinersPlaced'
  BY <1>1, <1>2, <1>7 DEF MinersPlaced
<1> QED BY <1>6, <1>8 DEF PlaceInv

(***************************************************************************)
(* The steps of the pools and the ranges that are handed out               *)
(***************************************************************************)

\* The four things a pool can do to the jobs of mapper k: keep them, perhaps
\* forgetting the one saved; save a new one; hand out a new one; hand out the
\* one saved.
JobStep(k, new) ==
    LET old == upstreams[k]
    IN  \/ /\ Keeps(k, new) /\ jobs' = jobs
           /\ new.saved \in {old.saved, NoJob}
           /\ Attached(new) => Attached(old)
           /\ new.donate.st # "off" => old.donate.st # "off" \/ new.saved = NoJob
        \/ \E j \in NJobType, c \in 1..sessions' :
              /\ Fresh(j, c) /\ Keeps(k, new) /\ new.saved = j
              /\ Attached(new) => Attached(old)
        \/ \E j \in NJobType, c \in 1..sessions' :
              /\ Fresh(j, c) /\ Gets(k, new, j)
              /\ new.donate.st # "off" => old.donate.st # "off"
        \/ /\ Gets(k, new, Restored(old)) /\ jobs' = jobs
           /\ old.donate.st = "active" /\ old.saved # NoJob
           /\ new.donate.st = "off"

\* Ids of jobs count the jobs received.
LEMMA JobIds ==
    ASSUME NonceTypeOK, JobsKnown
    PROVE  /\ DOMAIN jobs = 1..Len(jobs) /\ Len(jobs) \in Nat
           /\ \A l \in DOMAIN upstreams : \A j :
                 j \in {upstreams[l].job, upstreams[l].prevJob, upstreams[l].saved} =>
                    /\ JobKnown(j) /\ j.id \in 0..Len(jobs)
                    /\ j.id = 0 <=> j = NoJob
<1>1. DOMAIN jobs = 1..Len(jobs) /\ Len(jobs) \in Nat
  BY DEF NonceTypeOK
<1>2. ASSUME NEW j, JobKnown(j)
      PROVE  j.id \in 0..Len(jobs) /\ (j.id = 0 <=> j = NoJob)
  BY <1>1, <1>2 DEF JobKnown, NoJob, JobOf
<1> QED BY <1>1, <1>2 DEF JobsKnown

LEMMA FreshJob ==
    ASSUME NonceTypeOK, NEW j \in NJobType, NEW c \in Nat, Fresh(j, c)
    PROVE  /\ jobs' \in Seq(Nat) /\ Len(jobs') = Len(jobs) + 1
           /\ DOMAIN jobs' = 1..(Len(jobs) + 1)
           /\ j.id = Len(jobs) + 1 /\ j.client = c /\ ~j.restored
           /\ jobs'[j.id] = c
           /\ \A i \in DOMAIN jobs : i \in DOMAIN jobs' /\ jobs'[i] = jobs[i]
BY DEF Fresh, NonceTypeOK, JobOf

LEMMA MovedKnown ==
    ASSUME NonceTypeOK, JobsKnown, NEW k \in DOMAIN upstreams, NEW new, Moved(k, new),
           JobStep(k, new), sessions' \in Nat, sessions <= sessions'
    PROVE  JobsKnown' /\ jobs' \in Seq(Nat)
<1> DEFINE old == upstreams[k]
           Known(j) == j = NoJob \/ (j.id \in DOMAIN jobs' /\ jobs'[j.id] = j.client)
<1>1. \/ jobs' = jobs
      \/ \E j \in NJobType, c \in 1..sessions' : Fresh(j, c)
  BY DEF JobStep
<1>2. ASSUME NEW j \in NJobType, NEW c \in 1..sessions', Fresh(j, c)
      PROVE  Known(j) /\ jobs'[Len(jobs) + 1] \in 1..sessions'
  BY <1>2, FreshJob
<1>3. ASSUME NEW j, JobKnown(j) PROVE Known(j)
  BY <1>1, <1>3, FreshJob DEF JobKnown
<1>4. \A i \in DOMAIN jobs' : jobs'[i] \in 1..sessions'
  <2>1. ASSUME NEW i \in DOMAIN jobs PROVE jobs[i] \in 1..sessions'
    BY DEF JobsKnown, NonceTypeOK
  <2>2. CASE jobs' = jobs
    BY <2>1, <2>2
  <2>3. CASE \E j \in NJobType, c \in 1..sessions' : Fresh(j, c)
    <3>1. PICK j \in NJobType, c \in 1..sessions' : Fresh(j, c)
      BY <2>3
    <3>2. /\ DOMAIN jobs' = 1..(Len(jobs) + 1) /\ jobs'[Len(jobs) + 1] = c
          /\ \A i \in DOMAIN jobs : jobs'[i] = jobs[i]
      BY <3>1, FreshJob
    <3>3. DOMAIN jobs = 1..Len(jobs) /\ Len(jobs) \in Nat
      BY DEF NonceTypeOK
    <3> QED BY <2>1, <3>2, <3>3
  <2> QED BY <1>1, <2>2, <2>3
<1>5. Known(new.job) /\ Known(new.prevJob) /\ Known(new.saved)
  <2>1. JobKnown(old.job) /\ JobKnown(old.prevJob) /\ JobKnown(old.saved)
    BY DEF JobsKnown
  <2>2. JobKnown(NoJob) /\ (JobKnown(Restored(old)) \/ old.saved = NoJob)
    BY <2>1 DEF JobKnown, Restored, JobOf
  <2>3. Known(old.job) /\ Known(old.prevJob) /\ Known(old.saved) /\ Known(NoJob)
    BY <1>3, <2>1
  <2>4. CASE Keeps(k, new) /\ new.saved \in {old.saved, NoJob}
    BY <2>3, <2>4 DEF Keeps
  <2>5. ASSUME NEW j \in NJobType, NEW c \in 1..sessions', Fresh(j, c), Keeps(k, new), new.saved = j
        PROVE  Known(new.job) /\ Known(new.prevJob) /\ Known(new.saved)
    BY <1>2, <2>3, <2>5 DEF Keeps
  <2>6. ASSUME NEW j, Known(j), Gets(k, new, j)
        PROVE  Known(new.job) /\ Known(new.prevJob) /\ Known(new.saved)
    BY <2>3, <2>6 DEF Gets
  <2>7. ASSUME old.saved # NoJob PROVE Known(Restored(old))
    BY <1>3, <2>2, <2>7
  <2> HIDE DEF Known
  <2> QED BY <1>2, <2>4, <2>5, <2>6, <2>7 DEF JobStep
<1>6. \A l \in DOMAIN upstreams' :
         Known(upstreams'[l].job) /\ Known(upstreams'[l].prevJob) /\ Known(upstreams'[l].saved)
  <2>1. \A l \in DOMAIN upstreams :
           Known(upstreams[l].job) /\ Known(upstreams[l].prevJob) /\ Known(upstreams[l].saved)
    BY <1>3 DEF JobsKnown
  <2> QED BY <1>5, <2>1, MovedFacts
<1>7. jobs' \in Seq(Nat)
  BY <1>1, FreshJob DEF NonceTypeOK
<1> QED BY <1>4, <1>6, <1>7 DEF JobsKnown, JobKnown

LEMMA MovedOwned ==
    ASSUME NonceTypeOK, JobsKnown, JobsOwned, NEW k \in DOMAIN upstreams, NEW new,
           Moved(k, new), JobStep(k, new)
    PROVE  JobsOwned'
<1> DEFINE old == upstreams[k]
<1>1. \/ Held(new) \subseteq Held(old) \cup {0}
      \/ Held(new) \subseteq Held(old) \cup {Len(jobs) + 1}
  <2>1. CASE Keeps(k, new) /\ new.saved \in {old.saved, NoJob}
    BY <2>1 DEF Keeps, Held, NoJob, JobOf
  <2>2. ASSUME NEW j \in NJobType, NEW c \in 1..sessions', Fresh(j, c), Keeps(k, new), new.saved = j
        PROVE  Held(new) \subseteq Held(old) \cup {Len(jobs) + 1}
    BY <2>2 DEF Keeps, Held, Fresh, JobOf
  <2>3. ASSUME NEW j \in NJobType, NEW c \in 1..sessions', Fresh(j, c), Gets(k, new, j)
        PROVE  Held(new) \subseteq Held(old) \cup {Len(jobs) + 1}
    BY <2>3 DEF Gets, Held, Fresh, JobOf
  <2>4. CASE Gets(k, new, Restored(old))
    BY <2>4 DEF Gets, Held, Restored, JobOf
  <2> QED BY <2>1, <2>2, <2>3, <2>4 DEF JobStep
<1>2. \A l \in DOMAIN upstreams : Len(jobs) + 1 \notin Held(upstreams[l])
  BY JobIds DEF Held
<1>3. \A l \in DOMAIN upstreams : l # k =>
         Held(upstreams[l]) \cap Held(new) \subseteq {0}
  BY <1>1, <1>2 DEF JobsOwned
<1>4. \A l, m \in DOMAIN upstreams' : l # m =>
         Held(upstreams'[l]) \cap Held(upstreams'[m]) \subseteq {0}
  <2> HIDE DEF old
  <2>1. /\ DOMAIN upstreams' = DOMAIN upstreams /\ upstreams'[k] = new
        /\ \A l \in DOMAIN upstreams : l # k => upstreams'[l] = upstreams[l]
    BY MovedFacts
  <2>2. TAKE l, m \in DOMAIN upstreams'
  <2>3. HAVE l # m
  <2>4. CASE l = k
    BY <1>3, <2>1, <2>3, <2>4
  <2>5. CASE m = k
    BY <1>3, <2>1, <2>3, <2>5
  <2>6. CASE l # k /\ m # k
    BY <2>1, <2>3, <2>6 DEF JobsOwned
  <2> QED BY <2>4, <2>5, <2>6
<1> QED BY <1>4 DEF JobsOwned, Held

\* Nobody has been given a range of a job that a pool makes a mapper hand out.
LEMMA NeverHandedOut ==
    ASSUME NonceTypeOK, JobsKnown, WorkKept, NEW k \in DOMAIN upstreams, NEW new, NEW j,
           Moved(k, new), Gets(k, new, j),
           \/ \E c \in Nat : j \in NJobType /\ Fresh(j, c)
           \/ /\ j = Restored(upstreams[k])
              /\ upstreams[k].donate.st = "active" /\ upstreams[k].saved # NoJob
    PROVE  /\ j.id # 0 /\ \A w \in work : w[1] # j.id
           /\ \A l \in DOMAIN upstreams : l # k /\ JobsOwned => j.id \notin Held(upstreams[l])
<1>1. CASE \E c \in Nat : j \in NJobType /\ Fresh(j, c)
  <2>1. j.id = Len(jobs) + 1
    BY <1>1, FreshJob
  <2>2. \A w \in work : w[1] \in 1..Len(jobs)
    BY JobIds DEF WorkKept
  <2>3. \A l \in DOMAIN upstreams : Len(jobs) + 1 \notin Held(upstreams[l])
    BY JobIds DEF Held
  <2> QED BY <2>1, <2>2, <2>3, JobIds
<1>2. CASE /\ j = Restored(upstreams[k])
           /\ upstreams[k].donate.st = "active" /\ upstreams[k].saved # NoJob
  <2>1. j.id = upstreams[k].saved.id /\ j.id # 0
    BY <1>2, JobIds DEF Restored, JobOf
  <2>2. \A w \in work : w[1] # j.id
    BY <1>2, <2>1 DEF WorkKept, WorkOf
  <2>3. j.id \in Held(upstreams[k])
    BY <2>1 DEF Held
  <2>4. \A l \in DOMAIN upstreams : l # k /\ JobsOwned => j.id \notin Held(upstreams[l])
    BY <2>1, <2>3 DEF JobsOwned
  <2> QED BY <2>1, <2>2, <2>4
<1> QED BY <1>1, <1>2

LEMMA HandedOutRange ==
    ASSUME NEW mp \in MapperType, NEW w \in HandedOut(mp)
    PROVE  w[1] = mp.job.id /\ w[2] \in Slots /\ w[3] = mp.used[w[2]] /\ w[3] \in Miners
BY DEF HandedOut, MapperType

LEMMA GetsRanges ==
    ASSUME NonceTypeOK, JobsKnown, JobsOwned, WorkKept, DisjointWork,
           NEW k \in DOMAIN upstreams, NEW new, NEW j, Moved(k, new), Gets(k, new, j),
           \/ \E c \in Nat : j \in NJobType /\ Fresh(j, c)
           \/ /\ j = Restored(upstreams[k]) /\ jobs' = jobs
              /\ upstreams[k].donate.st = "active" /\ upstreams[k].saved # NoJob,
           new.donate.st # "off" => /\ upstreams[k].donate.st # "off"
                                    /\ \E c \in Nat : j \in NJobType /\ Fresh(j, c)
    PROVE  WorkKept' /\ DisjointWork'
<1> DEFINE old == upstreams[k]
<1>1. /\ j.id # 0 /\ \A w \in work : w[1] # j.id
      /\ \A l \in DOMAIN upstreams : l # k => j.id \notin Held(upstreams[l])
  <2>1. \/ \E c \in Nat : j \in NJobType /\ Fresh(j, c)
        \/ /\ j = Restored(upstreams[k])
           /\ upstreams[k].donate.st = "active" /\ upstreams[k].saved # NoJob
    OBVIOUS
  <2> QED BY <2>1, NeverHandedOut
<1>2. /\ new.job = j /\ new.saved = old.saved /\ new \in MapperType
      /\ work' \subseteq work \cup HandedOut(new)
  BY DEF Gets, Moved
<1>3. ASSUME NEW w \in HandedOut(new)
      PROVE  w[1] = j.id /\ w[2] \in Slots /\ w[3] = new.used[w[2]]
  BY <1>2, <1>3, HandedOutRange
<1>4. DOMAIN jobs \subseteq DOMAIN jobs' /\ j.id \in DOMAIN jobs'
  <2>1. CASE \E c \in Nat : j \in NJobType /\ Fresh(j, c)
    <3>1. PICK c \in Nat : j \in NJobType /\ Fresh(j, c)
      BY <2>1
    <3> QED BY <3>1, FreshJob, JobIds
  <2>2. CASE j = Restored(old) /\ jobs' = jobs /\ old.saved # NoJob
    <3>1. j.id = old.saved.id /\ JobKnown(old.saved)
      BY <2>2, JobIds DEF Restored, JobOf
    <3> QED BY <2>2, <3>1 DEF JobKnown
  <2> QED BY <2>1, <2>2
<1>5. \A w \in work' : w[1] \in DOMAIN jobs'
  BY <1>2, <1>3, <1>4 DEF WorkKept
<1>6. WorkOf(new)'
  <2>1. \A w \in work' : w[1] = new.job.id => new.used[w[2]] \in {w[3], -w[3]}
    BY <1>1, <1>2, <1>3
  <2>2. ASSUME new.donate.st # "off", new.saved.id # 0
        PROVE  new.saved.id # new.job.id /\ \A w \in work' : w[1] # new.saved.id
    <3>1. old.saved.id # 0 /\ \A w \in work : w[1] # old.saved.id
      BY <1>2, <2>2 DEF WorkKept, WorkOf
    <3>2. j.id # old.saved.id
      BY <2>2, FreshJob, JobIds
    <3> QED BY <1>2, <1>3, <3>1, <3>2
  <2> QED BY <1>1, <1>2, <2>1, <2>2 DEF WorkOf
<1>7. ASSUME NEW l \in DOMAIN upstreams, l # k PROVE WorkOf(upstreams[l])'
  <2> DEFINE mp == upstreams[l]
  <2>1. upstreams'[l] = mp
    BY <1>7, MovedFacts
  <2>2. WorkOf(mp)
    BY DEF WorkKept
  <2>3. j.id # mp.job.id /\ j.id # mp.saved.id
    BY <1>1, <1>7 DEF Held
  <2>4. ASSUME NEW w \in work', w[1] = mp.job.id \/ w[1] = mp.saved.id PROVE w \in work
    BY <1>2, <1>3, <2>3, <2>4
  <2> QED BY <2>1, <2>2, <2>4 DEF WorkOf, Attached
<1>8. \A l \in DOMAIN upstreams' : WorkOf(upstreams[l])'
  BY <1>6, <1>7, MovedFacts
<1>9. DisjointWork'
  <2>1. SUFFICES ASSUME NEW v \in work', NEW w \in work', v[1] = w[1], v[2] = w[2]
                 PROVE  v[3] = w[3]
    BY DEF DisjointWork
  <2>2. CASE v \in work /\ w \in work
    BY <2>1, <2>2 DEF DisjointWork
  <2>3. CASE v[1] = j.id
    <3>1. v \in HandedOut(new) /\ w \in HandedOut(new)
      BY <1>1, <1>2, <2>1, <2>3
    <3> QED BY <1>3, <2>1, <3>1
  <2>4. CASE v[1] # j.id
    <3>1. v \in work /\ w \in work
      BY <1>2, <1>3, <2>1, <2>4
    <3> QED BY <2>2, <3>1
  <2> QED BY <2>3, <2>4
<1> QED BY <1>5, <1>8, <1>9 DEF WorkKept

LEMMA KeepsRanges ==
    ASSUME NonceTypeOK, JobsKnown, JobsOwned, WorkKept, DisjointWork,
           NEW k \in DOMAIN upstreams, NEW new, Moved(k, new), Keeps(k, new),
           Attached(new) => Attached(upstreams[k]),
           \/ /\ jobs' = jobs /\ new.saved \in {upstreams[k].saved, NoJob}
              /\ new.donate.st # "off" => upstreams[k].donate.st # "off" \/ new.saved = NoJob
           \/ \E c \in Nat, j \in NJobType : Fresh(j, c) /\ new.saved = j
    PROVE  WorkKept' /\ DisjointWork'
<1> DEFINE old == upstreams[k]
<1>1. new.job = old.job /\ new.used = old.used /\ work' = work
  BY DEF Keeps
<1>2. DOMAIN jobs \subseteq DOMAIN jobs'
  BY FreshJob
<1>3. \A w \in work' : w[1] \in DOMAIN jobs'
  BY <1>1, <1>2 DEF WorkKept
<1>4. ASSUME NEW l \in DOMAIN upstreams, l # k PROVE WorkOf(upstreams[l])'
  <2>1. upstreams'[l] = upstreams[l] /\ WorkOf(upstreams[l])
    BY <1>4, MovedFacts DEF WorkKept
  <2> QED BY <1>1, <2>1 DEF WorkOf, Attached
<1>5. WorkOf(new)'
  <2>1. WorkOf(old)
    BY DEF WorkKept
  <2>2. ASSUME new.donate.st # "off", new.saved.id # 0
        PROVE  new.saved.id # new.job.id /\ \A w \in work : w[1] # new.saved.id
    <3>1. CASE \E c \in Nat, j \in NJobType : Fresh(j, c) /\ new.saved = j
      <4>1. new.saved.id = Len(jobs) + 1
        BY <3>1, FreshJob
      <4> QED BY <1>1, <4>1, JobIds DEF WorkKept
    <3>2. CASE /\ new.saved \in {old.saved, NoJob}
               /\ new.donate.st # "off" => old.donate.st # "off" \/ new.saved = NoJob
      <4>1. new.saved = old.saved /\ old.donate.st # "off"
        BY <2>2, <3>2 DEF NoJob, JobOf
      <4> QED BY <1>1, <2>1, <2>2, <4>1 DEF WorkOf
    <3> QED BY <3>1, <3>2
  <2> QED BY <1>1, <2>1, <2>2 DEF WorkOf, Attached
<1>6. \A l \in DOMAIN upstreams' : WorkOf(upstreams[l])'
  BY <1>4, <1>5, MovedFacts
<1> QED BY <1>1, <1>3, <1>6 DEF WorkKept, DisjointWork

\* What a pool does to the jobs of a mapper keeps the ranges apart.
LEMMA JobStepWork ==
    ASSUME NonceTypeOK, PlaceInv, WorkInv, NEW k \in DOMAIN upstreams, NEW new,
           Moved(k, new), JobStep(k, new), sessions' \in Nat, sessions <= sessions'
    PROVE  NonceTypeOK' /\ PlaceInv' /\ WorkInv'
<1> DEFINE old == upstreams[k]
<1>1. JobsKnown' /\ JobsOwned' /\ jobs' \in Seq(Nat)
  BY MovedKnown, MovedOwned DEF WorkInv
<1>2. \/ Keeps(k, new)
      \/ \E j : Gets(k, new, j)
  BY DEF JobStep
<1>3. NonceTypeOK'
  <2>1. work' \subseteq work \cup HandedOut(new)
    BY <1>2 DEF Keeps, Gets
  <2> QED BY <1>1, <2>1, MovedType
<1>4. PlaceInv'
  <2>1. ASSUME NEW b \in Slots
        PROVE  \/ new.used[b] = old.used[b]
               \/ old.used[b] < 0 /\ new.used[b] = 0
    BY <1>2 DEF Keeps, Gets
  <2> QED BY <2>1, MovedPlace
<1>5. WorkKept' /\ DisjointWork'
  <2>1. JobsKnown /\ JobsOwned /\ WorkKept /\ DisjointWork
    BY DEF WorkInv
  <2>2. CASE /\ Keeps(k, new) /\ jobs' = jobs
             /\ new.saved \in {old.saved, NoJob}
             /\ Attached(new) => Attached(old)
             /\ new.donate.st # "off" => old.donate.st # "off" \/ new.saved = NoJob
    BY <2>1, <2>2, KeepsRanges
  <2>3. ASSUME NEW j \in NJobType, NEW c \in 1..sessions', Fresh(j, c), Keeps(k, new),
               new.saved = j, Attached(new) => Attached(old)
        PROVE  WorkKept' /\ DisjointWork'
    BY <2>1, <2>3, KeepsRanges
  <2>4. ASSUME NEW j \in NJobType, NEW c \in 1..sessions', Fresh(j, c), Gets(k, new, j),
               new.donate.st # "off" => old.donate.st # "off"
        PROVE  WorkKept' /\ DisjointWork'
    <3>1. \E d \in Nat : j \in NJobType /\ Fresh(j, d)
      BY <2>4
    <3> QED BY <2>1, <2>4, <3>1, GetsRanges
  <2>5. CASE /\ Gets(k, new, Restored(old)) /\ jobs' = jobs
             /\ old.donate.st = "active" /\ old.saved # NoJob /\ new.donate.st = "off"
    BY <2>1, <2>5, GetsRanges
  <2> QED BY <2>2, <2>3, <2>4, <2>5 DEF JobStep
<1> QED BY <1>1, <1>3, <1>4, <1>5 DEF WorkInv

(***************************************************************************)
(* The steps of the pools and the origin of jobs                           *)
(***************************************************************************)

LEMMA MapperFields ==
    ASSUME NEW mp \in MapperType
    PROVE  /\ mp.active \in BOOLEAN /\ mp.suspended \in Nat /\ mp.index \in Slots
           /\ mp.used \in [Slots -> Int] /\ mp.miners \in SUBSET Miners
           /\ mp.results \in SUBSET ContextType
           /\ mp.job \in NJobType /\ mp.prevJob \in NJobType /\ mp.saved \in NJobType
           /\ mp.strategy \in PoolLinkType /\ mp.donate \in DonateLinkType
BY DEF MapperType

LEMMA LinkFields ==
    ASSUME NEW mp \in MapperType
    PROVE  /\ mp.strategy.session \in Nat /\ mp.donate.session \in Nat
           /\ mp.strategy.st \in {"stopped", "connecting", "up"}
           /\ mp.donate.st \in {"off", "connecting", "active"}
           /\ mp.job.client \in Nat /\ mp.saved.client \in Nat /\ mp.prevJob.client \in Nat
<1>1. /\ mp.strategy \in PoolLinkType /\ mp.donate \in DonateLinkType
      /\ mp.job \in NJobType /\ mp.prevJob \in NJobType /\ mp.saved \in NJobType
  BY MapperFields
<1> QED BY <1>1 DEF PoolLinkType, DonateLinkType, NJobType

\* No job is of a session that has not begun.
LEMMA KnownClients ==
    ASSUME NonceTypeOK, JobsKnown, NEW l \in DOMAIN upstreams
    PROVE  /\ upstreams[l].job.client <= sessions /\ upstreams[l].saved.client <= sessions
           /\ upstreams[l] \in MapperType /\ sessions \in Nat
<1>1. ASSUME NEW j \in NJobType, JobKnown(j) PROVE j.client <= sessions
  <2>1. CASE j = NoJob
    BY <2>1 DEF NoJob, JobOf, NonceTypeOK
  <2>2. CASE j.id \in DOMAIN jobs /\ jobs[j.id] = j.client
    BY <2>2 DEF JobsKnown
  <2> QED BY <1>1, <2>1, <2>2 DEF JobKnown
<1>2. upstreams[l] \in MapperType
  BY DEF NonceTypeOK
<1>3. upstreams[l].job \in NJobType /\ upstreams[l].saved \in NJobType
  BY <1>2, MapperFields
<1>4. JobKnown(upstreams[l].job) /\ JobKnown(upstreams[l].saved)
  BY DEF JobsKnown
<1> QED BY <1>1, <1>2, <1>3, <1>4 DEF NonceTypeOK

LEMMA MovedIssued ==
    ASSUME NonceTypeOK, Issued, NEW k \in DOMAIN upstreams, NEW new, Moved(k, new),
           sessions' \in Nat, sessions <= sessions', LinksOK(new)', IssuedOK(new)
    PROVE  Issued'
<1>1. ASSUME NEW l \in DOMAIN upstreams, l # k
      PROVE  LinksOK(upstreams[l])' /\ IssuedOK(upstreams[l])'
  <2>1. upstreams'[l] = upstreams[l] /\ upstreams[l] \in MapperType
    BY <1>1, MovedFacts DEF NonceTypeOK
  <2>2. LinksOK(upstreams[l]) /\ IssuedOK(upstreams[l])
    BY DEF Issued
  <2>3. /\ upstreams[l].strategy.session \in Nat /\ upstreams[l].donate.session \in Nat
        /\ sessions \in Nat
    BY <2>1, LinkFields DEF NonceTypeOK
  <2> QED BY <2>1, <2>2, <2>3 DEF LinksOK, IssuedOK
<1>2. LinksOK(upstreams[k])' /\ IssuedOK(upstreams[k])'
  BY MovedFacts DEF LinksOK, IssuedOK
<1> QED BY <1>1, <1>2, MovedFacts DEF Issued

LEMMA PoolJobIssued ==
    ASSUME NonceTypeOK, JobsKnown, Issued, NEW k \in DOMAIN upstreams, NEW new \in MapperType,
           NEW j \in NJobType, NEW c \in 1..sessions', PoolJob(k, new, j), Fresh(j, c),
           new.strategy = [st |-> "up", session |-> c],
           upstreams[k].saved.client <= c, c # upstreams[k].donate.session,
           sessions' \in Nat, sessions <= sessions'
    PROVE  LinksOK(new)' /\ IssuedOK(new) /\ JobStep(k, new)
<1> DEFINE old == upstreams[k]
<1>1. old \in MapperType /\ LinksOK(old) /\ IssuedOK(old)
  BY DEF NonceTypeOK, Issued
<1>2. /\ old.strategy.session \in Nat /\ old.donate.session \in Nat /\ sessions \in Nat
      /\ old.saved.client \in Nat /\ old.donate.session <= sessions'
  BY <1>1, LinkFields DEF NonceTypeOK, LinksOK
<1>3. new.strategy.st = "up" /\ new.strategy.session = c
  OBVIOUS
<1>4. j.client = c /\ ~j.restored
  BY DEF Fresh, JobOf
<1>5. CASE /\ old.donate.st = "active" /\ new.donate = old.donate
           /\ Keeps(k, new) /\ new.saved = j
  <2>1. new.job = old.job /\ new.prevJob = old.prevJob
    BY <1>5 DEF Keeps
  <2>2. old.donate.session # 0
    BY <1>1, <1>5 DEF LinksOK
  <2>3. LinksOK(new)'
    BY <1>1, <1>2, <1>3, <1>4, <1>5, <2>2 DEF LinksOK
  <2>4. IssuedOK(new)
    BY <1>1, <1>5, <2>1, <2>2 DEF IssuedOK
  <2>5. Attached(old)
    BY <1>5 DEF Attached
  <2> QED BY <1>5, <2>3, <2>4, <2>5 DEF JobStep
<1>6. CASE /\ Gets(k, new, j)
           /\ IF old.donate.st = "active" THEN new.donate = LinkOff ELSE new.donate = old.donate
  <2>1. /\ new.job = j /\ new.saved = old.saved
        /\ new.prevJob = IF old.job.client = j.client THEN old.job ELSE NoJob
    BY <1>6 DEF Gets
  <2>2. new.donate.session = 0 /\ new.donate.st # "active"
    BY <1>1, <1>6 DEF LinkOff, LinksOK
  <2>3. LinksOK(new)'
    BY <1>2, <1>3, <2>1, <2>2 DEF LinksOK
  <2>4. IssuedOK(new)
    BY <1>3, <1>4, <2>1, <2>2 DEF IssuedOK
  <2>5. new.donate.st # "off" => old.donate.st # "off"
    BY <1>6 DEF LinkOff
  <2> QED BY <1>6, <2>3, <2>4, <2>5 DEF JobStep
<1> QED BY <1>5, <1>6 DEF PoolJob

\* Each action of a pool gives mapper k a value that fits.
PoolOutcome(k) ==
    /\ sessions' \in Nat /\ sessions <= sessions'
    /\ \E new \in MapperType :
          Moved(k, new) /\ LinksOK(new)' /\ IssuedOK(new) /\ JobStep(k, new)

LEMMA StrategyResult ==
    ASSUME NonceTypeOK, JobsKnown, Issued, NEW k \in DOMAIN upstreams,
           StrategyLogin(k) \/ StrategyJob(k) \/ StrategyPause(k)
    PROVE  PoolOutcome(k)
<1> DEFINE old == upstreams[k]
<1>1. old \in MapperType /\ LinksOK(old) /\ IssuedOK(old)
  BY DEF NonceTypeOK, Issued
<1>2. /\ old.saved.client <= sessions /\ sessions \in Nat
      /\ old.saved.client \in Nat /\ old.strategy.session \in Nat /\ old.donate.session \in Nat
  BY <1>1, KnownClients, LinkFields
<1>3. CASE StrategyLogin(k)
  <2>1. PICK new \in MapperType, j \in NJobType :
           /\ Moved(k, new) /\ PoolJob(k, new, j) /\ Fresh(j, sessions + 1)
           /\ new.strategy = [st |-> "up", session |-> sessions + 1]
    BY <1>3, StrategyLoginShape
  <2>2. sessions' = sessions + 1
    BY <1>3, StrategyLoginShape
  <2>3. sessions + 1 \in 1..sessions' /\ old.saved.client <= sessions + 1
        /\ sessions + 1 # old.donate.session
    BY <1>1, <1>2, <2>2 DEF LinksOK
  <2>4. LinksOK(new)' /\ IssuedOK(new) /\ JobStep(k, new)
    BY <1>2, <2>1, <2>2, <2>3, PoolJobIssued
  <2> QED BY <1>2, <2>1, <2>2, <2>4 DEF PoolOutcome
<1>4. CASE StrategyJob(k)
  <2> DEFINE c == old.strategy.session
  <2>1. PICK new \in MapperType, j \in NJobType :
           /\ Moved(k, new) /\ PoolJob(k, new, j) /\ Fresh(j, c)
           /\ new.strategy = old.strategy
    BY <1>4, StrategyJobShape
  <2>2. sessions' = sessions /\ old.strategy.st = "up"
    BY <1>4, StrategyJobShape
  <2>3. c # 0 /\ c <= sessions /\ c # old.donate.session /\ old.saved.client <= c
    BY <1>1, <2>2 DEF LinksOK
  <2>4. old.strategy = [st |-> "up", session |-> c]
    BY <1>1, <2>2, MapperFields DEF PoolLinkType
  <2>5. c \in 1..sessions'
    BY <1>2, <2>2, <2>3
  <2>6. LinksOK(new)' /\ IssuedOK(new) /\ JobStep(k, new)
    <3> HIDE DEF c
    <3> QED BY <1>2, <2>1, <2>2, <2>3, <2>4, <2>5, PoolJobIssued
  <2> QED BY <1>2, <2>1, <2>2, <2>6 DEF PoolOutcome
<1>5. CASE StrategyPause(k)
  <2>1. PICK new \in MapperType :
           /\ Moved(k, new) /\ Keeps(k, new)
           /\ new.active = FALSE /\ new.strategy = [st |-> "connecting", session |-> 0]
           /\ new.donate = old.donate /\ new.saved = old.saved
    BY <1>5, StrategyPauseShape
  <2>2. jobs' = jobs /\ sessions' = sessions
    BY <1>5, StrategyPauseShape
  <2>3. LinksOK(new)'
    BY <1>1, <1>2, <2>1, <2>2 DEF LinksOK
  <2>4. new.job = old.job /\ new.prevJob = old.prevJob
    BY <2>1 DEF Keeps
  <2>5. IssuedOK(new)
    BY <1>1, <2>1, <2>4 DEF IssuedOK
  <2>6. JobStep(k, new)
    BY <2>1, <2>2 DEF JobStep, Attached
  <2> QED BY <1>2, <2>1, <2>2, <2>3, <2>5, <2>6 DEF PoolOutcome
<1> QED BY <1>3, <1>4, <1>5

LEMMA DonateResult ==
    ASSUME NonceTypeOK, JobsKnown, Issued, NEW k \in DOMAIN upstreams,
           DonateStart(k) \/ DonateJob(k) \/ DonateLost(k) \/ DonateEnd(k)
    PROVE  PoolOutcome(k)
<1> DEFINE old == upstreams[k]
<1>1. old \in MapperType /\ LinksOK(old) /\ IssuedOK(old)
  BY DEF NonceTypeOK, Issued
<1>2. /\ old.saved.client <= sessions /\ old.job.client <= sessions /\ sessions \in Nat
      /\ old.saved.client \in Nat /\ old.job.client \in Nat
      /\ old.strategy.session \in Nat /\ old.donate.session \in Nat
      /\ old.donate.st \in {"off", "connecting", "active"}
  BY <1>1, KnownClients, LinkFields
<1>3. CASE DonateStart(k)
  <2>1. old.donate.session = 0
    BY <1>1, <1>3 DEF LinksOK, DonateStart
  <2>2. PICK new \in MapperType :
           /\ Moved(k, new) /\ Keeps(k, new)
           /\ new.active = old.active /\ new.strategy = old.strategy
           /\ new.donate = [st |-> "connecting", session |-> 0] /\ new.saved = NoJob
    BY <1>3, <2>1, DonateStartShape
  <2>3. jobs' = jobs /\ sessions' = sessions
    BY <1>3, <2>1, DonateStartShape
  <2>4. LinksOK(new)'
    BY <1>1, <1>2, <2>2, <2>3 DEF LinksOK, NoJob, JobOf
  <2>5. new.job = old.job /\ new.prevJob = old.prevJob
    BY <2>2 DEF Keeps
  <2>6. IssuedOK(new)
    BY <1>1, <2>1, <2>2, <2>5 DEF IssuedOK
  <2>7. JobStep(k, new)
    BY <2>2, <2>3 DEF JobStep, Attached
  <2> QED BY <1>2, <2>2, <2>3, <2>4, <2>6, <2>7 DEF PoolOutcome
<1>4. CASE DonateLost(k)
  <2>1. PICK new \in MapperType :
           /\ Moved(k, new) /\ Keeps(k, new)
           /\ new.active = FALSE /\ new.strategy = old.strategy
           /\ new.donate = [st |-> "connecting", session |-> 0] /\ new.saved = old.saved
    BY <1>4, DonateLostShape
  <2>2. jobs' = jobs /\ sessions' = sessions /\ old.donate.st = "active"
    BY <1>4, DonateLostShape
  <2>3. LinksOK(new)'
    BY <1>1, <1>2, <2>1, <2>2 DEF LinksOK
  <2>4. new.job = old.job /\ new.prevJob = old.prevJob
    BY <2>1 DEF Keeps
  <2>5. IssuedOK(new)
    BY <1>1, <2>1, <2>4 DEF IssuedOK
  <2>6. JobStep(k, new)
    BY <2>1, <2>2 DEF JobStep, Attached
  <2> QED BY <1>2, <2>1, <2>2, <2>3, <2>5, <2>6 DEF PoolOutcome
<1>5. CASE DonateEnd(k)
  <2>1. PICK new \in MapperType :
           /\ Moved(k, new) /\ Gets(k, new, Restored(old))
           /\ new.active = old.active /\ new.strategy = old.strategy
           /\ new.donate = LinkOff
    BY <1>5, DonateEndShape
  <2>2. /\ jobs' = jobs /\ sessions' = sessions
        /\ old.donate.st = "active" /\ old.saved # NoJob
    BY <1>5, DonateEndShape
  <2>3. /\ new.job = Restored(old) /\ new.saved = old.saved
        /\ new.prevJob = IF old.job.client = Restored(old).client THEN old.job ELSE NoJob
    BY <2>1 DEF Gets
  <2>4. Restored(old).client = old.saved.client /\ Restored(old).restored
    BY DEF Restored, JobOf
  <2>5. LinksOK(new)'
    BY <1>1, <1>2, <2>1, <2>2, <2>3 DEF LinksOK, LinkOff
  <2>6. new.prevJob = NoJob
    BY <1>1, <2>2, <2>3, <2>4 DEF LinksOK, IssuedOK
  <2>7. IssuedOK(new)
    BY <1>1, <1>2, <2>1, <2>3, <2>4, <2>6 DEF LinksOK, IssuedOK, LinkOff
  <2>8. JobStep(k, new)
    BY <2>1, <2>2 DEF JobStep, LinkOff
  <2> QED BY <1>2, <2>1, <2>2, <2>5, <2>7, <2>8 DEF PoolOutcome
<1>6. CASE DonateJob(k)
  <2> DEFINE first == old.donate.st = "connecting"
             s     == IF first THEN sessions + 1 ELSE old.donate.session
  <2>1. PICK new \in MapperType, j \in NJobType :
           /\ Moved(k, new) /\ Gets(k, new, j) /\ Fresh(j, s)
           /\ new.strategy = old.strategy
           /\ new.donate = [st |-> "active", session |-> s]
    BY <1>6, DonateJobShape
  <2>2. old.donate.st # "off" /\ sessions' = IF first THEN s ELSE sessions
    BY <1>6, DonateJobShape
  <2>3. ~first => old.donate.session # 0
    BY <1>1, <1>2, <2>2 DEF LinksOK
  <2>4. s \in 1..sessions' /\ sessions' \in Nat /\ sessions <= sessions'
    BY <1>1, <1>2, <2>2, <2>3 DEF LinksOK
  <2>5. s # old.saved.client /\ (old.strategy.session # 0 => s # old.strategy.session)
    BY <1>1, <1>2, <2>3 DEF LinksOK
  <2>6. old.job.client = s => ~first /\ ~old.job.restored
    BY <1>1, <1>2, <2>3 DEF IssuedOK
  <2>7. /\ new.job = j /\ new.saved = old.saved
        /\ new.prevJob = IF old.job.client = j.client THEN old.job ELSE NoJob
        /\ j.client = s /\ ~j.restored
    BY <2>1 DEF Gets, Fresh, JobOf
  <2> HIDE DEF s, first
  <2>8. LinksOK(new)'
    BY <1>1, <1>2, <2>1, <2>4, <2>5, <2>7 DEF LinksOK
  <2>9. IssuedOK(new)
    BY <2>1, <2>4, <2>7 DEF IssuedOK
  <2>10. JobStep(k, new)
    BY <2>1, <2>2, <2>4 DEF JobStep
  <2> QED BY <2>1, <2>4, <2>8, <2>9, <2>10 DEF PoolOutcome
<1> QED BY <1>3, <1>4, <1>5, <1>6

LEMMA PoolStepInv ==
    ASSUME NonceInv, NEW k \in DOMAIN upstreams, PoolStep(k)
    PROVE  NonceInv'
<1>1. NonceTypeOK /\ PlaceInv /\ WorkInv /\ JobsKnown /\ Issued /\ Contexts /\ NonceRouting
  BY DEF NonceInv, WorkInv, RouteInv
<1>2. PoolOutcome(k)
  BY <1>1, StrategyResult, DonateResult DEF PoolStep
<1>3. PICK new \in MapperType :
         Moved(k, new) /\ LinksOK(new)' /\ IssuedOK(new) /\ JobStep(k, new)
  BY <1>2 DEF PoolOutcome
<1>4. sessions' \in Nat /\ sessions <= sessions'
  BY <1>2 DEF PoolOutcome
<1>5. NonceTypeOK' /\ PlaceInv' /\ WorkInv'
  BY <1>1, <1>3, <1>4, JobStepWork
<1>6. Issued'
  BY <1>1, <1>3, <1>4, MovedIssued
<1>7. \A i \in DOMAIN jobs : i \in DOMAIN jobs' /\ jobs'[i] = jobs[i]
  <2>1. \/ jobs' = jobs
        \/ \E j \in NJobType, c \in 1..sessions' : Fresh(j, c)
    BY <1>3 DEF JobStep
  <2> QED BY <1>1, <2>1, FreshJob
<1>8. /\ \A l \in DOMAIN upstreams' : l \in DOMAIN upstreams /\ upstreams'[l].results = upstreams[l].results
      /\ inflight' \subseteq inflight /\ UNCHANGED <<sequence, shares>>
  BY <1>1, <1>3, MovedFacts DEF Moved
<1>9. Contexts'
  BY <1>1, <1>7, <1>8 DEF Contexts
<1>10. NonceRouting'
  BY <1>1, <1>7, <1>8 DEF NonceRouting, Contexts
<1> QED BY <1>5, <1>6, <1>9, <1>10 DEF NonceInv, RouteInv

(***************************************************************************)
(* The steps of the splitter                                               *)
(***************************************************************************)

LEMMA NewMapperType ==
    ASSUME NEW i \in Slots
    PROVE  NewMapper(i) \in MapperType
<1>1. NoJob \in NJobType
  BY DEF NoJob, JobOf, NJobType
<1>2. [st |-> "stopped", session |-> 0] \in PoolLinkType /\ LinkOff \in DonateLinkType
  BY DEF PoolLinkType, DonateLinkType, LinkOff
<1>3. [b \in Slots |-> 0] \in [Slots -> Int]
  OBVIOUS
<1> QED BY <1>1, <1>2, <1>3 DEF NewMapper, MapperType, LinkOff

\* A mapper that connects: in use, and its pool's connection begins.
LEMMA ConnectShape ==
    ASSUME NEW mp \in MapperType
    PROVE  /\ MapperConnect(mp) \in MapperType
           /\ MapperConnect(mp).suspended = 0
           /\ MapperConnect(mp).strategy = [st |-> "connecting", session |-> 0]
           /\ MapperConnect(mp).active = mp.active /\ MapperConnect(mp).donate = mp.donate
           /\ MapperConnect(mp).job = mp.job /\ MapperConnect(mp).prevJob = mp.prevJob
           /\ MapperConnect(mp).saved = mp.saved /\ MapperConnect(mp).used = mp.used
           /\ MapperConnect(mp).miners = mp.miners /\ MapperConnect(mp).results = mp.results
           /\ MapperConnect(mp).index = mp.index
<1> DEFINE link == [st |-> "connecting", session |-> 0]
<1>1. link \in PoolLinkType
  BY DEF PoolLinkType
<1>2. MapperConnect(mp) = [mp EXCEPT !.suspended = 0, !.strategy = link]
  BY DEF MapperConnect
<1> HIDE DEF link
<1>3. [mp EXCEPT !.suspended = 0, !.strategy = link] \in MapperType
  BY <1>1 DEF MapperType
<1> QED BY <1>2, <1>3 DEF MapperType, link

\* What the invariant says of mapper k, if mp is its value.
PlacedOK(k, mp) ==
    /\ k = 1 => ~IsSuspended(mp)
    /\ \A b \in Slots :
          /\ mp.used[b] > 0 => /\ mp.used[b] \in Miners
                               /\ miner[mp.used[b]] = [st |-> "in", mapper |-> k, byte |-> b]
          /\ mp.used[b] # 0 => ~IsSuspended(mp)
    /\ \A m \in mp.miners : miner[m].st = "in" /\ miner[m].mapper = k

KnownOK(mp) == JobKnown(mp.job) /\ JobKnown(mp.prevJob) /\ JobKnown(mp.saved)

OwnedOK(k, mp) ==
    \A l \in DOMAIN upstreams : l # k => Held(upstreams[l]) \cap Held(mp) \subseteq {0}

FiledOK(mp) ==
    \A r \in mp.results :
       /\ r.seq < sequence
       /\ r.req \in DOMAIN shares /\ r.miner = shares[r.req].miner
       /\ \A p \in inflight : r.seq = p.seq => r.req = p.req

Fits(k, mp) ==
    /\ mp \in MapperType /\ PlacedOK(k, mp) /\ KnownOK(mp) /\ OwnedOK(k, mp)
    /\ WorkOf(mp) /\ LinksOK(mp) /\ IssuedOK(mp) /\ FiledOK(mp)

LEMMA MapperFits ==
    ASSUME NonceInv, NEW k \in DOMAIN upstreams
    PROVE  Fits(k, upstreams[k])
<1>1. upstreams[k] \in MapperType
  BY DEF NonceInv, NonceTypeOK
<1>2. PlacedOK(k, upstreams[k])
  <2>1. upstreams # <<>> => ~IsSuspended(upstreams[1])
    BY DEF NonceInv, PlaceInv, Placement
  <2>2. \A b \in Slots : ByteOf(k, b)
    BY DEF NonceInv, PlaceInv, Placement
  <2>3. \A m \in upstreams[k].miners : miner[m].st = "in" /\ miner[m].mapper = k
    BY DEF NonceInv, PlaceInv, Placement
  <2>4. upstreams # <<>>
    OBVIOUS
  <2> QED BY <2>1, <2>2, <2>3, <2>4 DEF PlacedOK, ByteOf
<1>3. KnownOK(upstreams[k])
  BY DEF NonceInv, WorkInv, JobsKnown, KnownOK
<1>4. OwnedOK(k, upstreams[k])
  BY DEF NonceInv, WorkInv, JobsOwned, OwnedOK
<1>5. WorkOf(upstreams[k])
  BY DEF NonceInv, WorkInv, WorkKept
<1>6. LinksOK(upstreams[k]) /\ IssuedOK(upstreams[k])
  BY DEF NonceInv, RouteInv, Issued
<1>7. FiledOK(upstreams[k])
  BY DEF NonceInv, RouteInv, Contexts, FiledOK
<1> QED BY <1>1, <1>2, <1>3, <1>4, <1>5, <1>6, <1>7 DEF Fits

\* A new mapper that connects fits anywhere.
LEMMA NewMapperFits ==
    ASSUME NonceInv, NEW i \in Slots, NEW k
    PROVE  Fits(k, MapperConnect(NewMapper(i)))
<1> DEFINE mp == MapperConnect(NewMapper(i))
<1>1. NewMapper(i) \in MapperType
  BY NewMapperType
<1>2. /\ mp \in MapperType /\ mp.suspended = 0
      /\ mp.strategy = [st |-> "connecting", session |-> 0]
      /\ mp.active = FALSE /\ mp.donate = LinkOff
      /\ mp.job = NoJob /\ mp.prevJob = NoJob /\ mp.saved = NoJob
      /\ mp.used = [b \in Slots |-> 0] /\ mp.miners = {} /\ mp.results = {}
  BY <1>1, ConnectShape DEF NewMapper, LinkOff
<1> HIDE DEF mp
<1>3. PlacedOK(k, mp)
  BY <1>2 DEF PlacedOK, IsSuspended
<1>4. KnownOK(mp)
  BY <1>2 DEF KnownOK, JobKnown
<1>5. OwnedOK(k, mp)
  BY <1>2 DEF OwnedOK, Held, NoJob, JobOf
<1>6. WorkOf(mp)
  BY <1>2 DEF WorkOf, Attached, LinkOff
<1>7. sessions \in Nat
  BY DEF NonceInv, NonceTypeOK
<1>8. LinksOK(mp) /\ IssuedOK(mp)
  BY <1>2, <1>7 DEF LinksOK, IssuedOK, LinkOff
<1>9. FiledOK(mp)
  BY <1>2 DEF FiledOK
<1> QED BY <1>2, <1>3, <1>4, <1>5, <1>6, <1>8, <1>9 DEF Fits, mp

\* Mapper mp, after it took miner m on byte b.
Taken(mp, m, b) ==
    LET add == [mp EXCEPT !.used[b] = m, !.index = b, !.miners = @ \cup {m}]
    IN  IF IsSuspended(mp) THEN MapperConnect(add) ELSE add

LEMMA TakenShape ==
    ASSUME NEW mp \in MapperType, NEW m \in Miners, NEW b \in Slots
    PROVE  LET new == Taken(mp, m, b)
           IN  /\ new \in MapperType /\ ~IsSuspended(new) /\ new.index = b
               /\ new.used = [mp.used EXCEPT ![b] = m] /\ new.miners = mp.miners \cup {m}
               /\ new.active = mp.active /\ new.donate = mp.donate /\ new.job = mp.job
               /\ new.prevJob = mp.prevJob /\ new.saved = mp.saved /\ new.results = mp.results
               /\ \/ new.strategy = mp.strategy
                  \/ new.strategy = [st |-> "connecting", session |-> 0]
<1> DEFINE used == [mp.used EXCEPT ![b] = m]
           all  == mp.miners \cup {m}
           add  == [mp EXCEPT !.used[b] = m, !.index = b, !.miners = @ \cup {m}]
<1>1. used \in [Slots -> Int] /\ all \in SUBSET Miners
  BY MapperFields, SlotFacts
<1>2. add = [mp EXCEPT !.used = used, !.index = b, !.miners = all]
  BY DEF MapperType
<1> HIDE DEF used, all, add
<1>3. /\ add \in MapperType /\ add.index = b /\ add.used = used /\ add.miners = all
      /\ add.active = mp.active /\ add.donate = mp.donate /\ add.job = mp.job
      /\ add.prevJob = mp.prevJob /\ add.saved = mp.saved /\ add.results = mp.results
      /\ add.strategy = mp.strategy /\ add.suspended = mp.suspended
  BY <1>1, <1>2 DEF MapperType
<1>4. Taken(mp, m, b) = IF IsSuspended(mp) THEN MapperConnect(add) ELSE add
  BY DEF Taken, add
<1>5. CASE IsSuspended(mp)
  <2>1. Taken(mp, m, b) = MapperConnect(add)
    BY <1>4, <1>5
  <2>2. ~IsSuspended(MapperConnect(add))
    BY <1>3, ConnectShape DEF IsSuspended
  <2> QED BY <1>3, <2>1, <2>2, ConnectShape DEF used, all
<1>6. CASE ~IsSuspended(mp)
  <2>1. Taken(mp, m, b) = add
    BY <1>4, <1>6
  <2>2. ~IsSuspended(add)
    BY <1>3, <1>6 DEF IsSuspended
  <2> QED BY <1>3, <2>1, <2>2 DEF used, all
<1> QED BY <1>5, <1>6

\* What one step of the splitter makes of the list: mapper k is new, the others
\* stay, and k may be the next one.
Replaced(k, new) ==
    /\ DOMAIN upstreams' = DOMAIN upstreams \cup {k}
    /\ upstreams'[k] = new
    /\ \A l \in DOMAIN upstreams : l # k => upstreams'[l] = upstreams[l]
    /\ upstreams' \in Seq(MapperType)

LEMMA ReplaceOne ==
    ASSUME upstreams \in Seq(MapperType), NEW k \in DOMAIN upstreams, NEW new \in MapperType,
           upstreams' = [upstreams EXCEPT ![k] = new]
    PROVE  Replaced(k, new)
<1>1. upstreams' \in Seq(MapperType)
  OBVIOUS
<1>2. DOMAIN upstreams' = DOMAIN upstreams \cup {k}
  OBVIOUS
<1>3. upstreams'[k] = new /\ \A l \in DOMAIN upstreams : l # k => upstreams'[l] = upstreams[l]
  OBVIOUS
<1> QED BY <1>1, <1>2, <1>3 DEF Replaced

\* The placement on a mapper that a step leaves alone.
LEMMA PlacedStays ==
    ASSUME NEW l, NEW o \in MapperType, PlacedOK(l, o),
           \A x \in Miners : miner[x].st = "in" /\ miner[x].mapper = l => miner'[x] = miner[x]
    PROVE  PlacedOK(l, o)'
<1>1. o.miners \in SUBSET Miners
  BY MapperFields
<1>2. ASSUME NEW c \in Slots, o.used[c] > 0
      PROVE  o.used[c] \in Miners /\ miner'[o.used[c]] = [st |-> "in", mapper |-> l, byte |-> c]
  <2>1. o.used[c] \in Miners /\ miner[o.used[c]] = [st |-> "in", mapper |-> l, byte |-> c]
    BY <1>2 DEF PlacedOK
  <2> QED BY <2>1
<1>3. ASSUME NEW x \in o.miners PROVE miner'[x].st = "in" /\ miner'[x].mapper = l
  BY <1>1 DEF PlacedOK
<1>4. /\ l = 1 => ~IsSuspended(o)
      /\ \A c \in Slots : o.used[c] # 0 => ~IsSuspended(o)
  BY DEF PlacedOK
<1> QED BY <1>2, <1>3, <1>4 DEF PlacedOK, IsSuspended

LEMMA TakeInv ==
    ASSUME NonceInv, NEW m \in Miners, miner[m].st = "new", NEW k \in Nat, NEW mp, Fits(k, mp),
           k \in DOMAIN upstreams => mp = upstreams[k],
           NEW b \in Slots, mp.used[b] = 0, Replaced(k, Taken(mp, m, b)),
           miner' = [miner EXCEPT ![m] = [st |-> "in", mapper |-> k, byte |-> b]],
           work' = IF mp.active THEN work \cup {<<mp.job.id, b, m>>} ELSE work,
           UNCHANGED <<jobs, sessions, sequence, shares, inflight>>
    PROVE  NonceInv'
<1> DEFINE new  == Taken(mp, m, b)
           here == [st |-> "in", mapper |-> k, byte |-> b]
<1>1. /\ mp \in MapperType /\ PlacedOK(k, mp) /\ KnownOK(mp) /\ OwnedOK(k, mp)
      /\ WorkOf(mp) /\ LinksOK(mp) /\ IssuedOK(mp) /\ FiledOK(mp)
  BY DEF Fits
<1>2. /\ new \in MapperType /\ ~IsSuspended(new)
      /\ new.used = [mp.used EXCEPT ![b] = m] /\ new.miners = mp.miners \cup {m}
      /\ new.active = mp.active /\ new.donate = mp.donate /\ new.job = mp.job
      /\ new.prevJob = mp.prevJob /\ new.saved = mp.saved /\ new.results = mp.results
      /\ \/ new.strategy = mp.strategy
         \/ new.strategy = [st |-> "connecting", session |-> 0]
  BY <1>1, TakenShape
<1>3. /\ DOMAIN upstreams' = DOMAIN upstreams \cup {k} /\ upstreams'[k] = new
      /\ \A l \in DOMAIN upstreams : l # k => upstreams'[l] = upstreams[l]
      /\ upstreams' \in Seq(MapperType)
  BY DEF Replaced
<1> HIDE DEF new
<1>4. NonceTypeOK
  BY DEF NonceInv
<1>5. mp.used \in [Slots -> Int] /\ mp.job \in NJobType /\ mp.miners \in SUBSET Miners
  BY <1>1, MapperFields
<1>6. miner' \in [Miners -> PlaceType] /\ miner'[m] = here /\ m \in Nat /\ m > 0
      /\ \A x \in Miners : x # m => miner'[x] = miner[x]
  BY <1>4, SlotFacts DEF NonceTypeOK, PlaceType
<1>7. NonceTypeOK'
  <2>1. mp.job.id \in Nat
    BY <1>5 DEF NJobType
  <2>2. work' \in SUBSET (Nat \X Slots \X Miners)
    BY <1>4, <2>1 DEF NonceTypeOK
  <2> QED BY <1>3, <1>4, <1>6, <2>2 DEF NonceTypeOK
<1>8. PlacedOK(k, new)'
  <2>1. ASSUME NEW c \in Slots
        PROVE  /\ new.used[c] > 0 => new.used[c] \in Miners
                                     /\ miner'[new.used[c]] = [st |-> "in", mapper |-> k, byte |-> c]
               /\ new.used[c] # 0 => ~IsSuspended(new)
    <3>1. CASE c = b
      BY <1>2, <1>5, <1>6, <3>1
    <3>2. CASE c # b
      <4>1. new.used[c] = mp.used[c]
        BY <1>2, <1>5, <3>2
      <4>2. mp.used[c] > 0 => mp.used[c] \in Miners /\ mp.used[c] # m
                              /\ miner[mp.used[c]] = [st |-> "in", mapper |-> k, byte |-> c]
        BY <1>1 DEF PlacedOK
      <4> QED BY <1>2, <1>6, <4>1, <4>2
    <3> QED BY <3>1, <3>2
  <2>2. ASSUME NEW x \in new.miners PROVE miner'[x].st = "in" /\ miner'[x].mapper = k
    <3>1. CASE x = m
      BY <1>6, <3>1
    <3>2. CASE x # m
      BY <1>1, <1>2, <1>5, <1>6, <3>2 DEF PlacedOK
    <3> QED BY <3>1, <3>2
  <2> QED BY <1>2, <2>1, <2>2 DEF PlacedOK
<1>9. ASSUME NEW l \in DOMAIN upstreams, l # k PROVE PlacedOK(l, upstreams[l])'
  <2>1. PICK o : o = upstreams[l]
    OBVIOUS
  <2>2. PlacedOK(l, o) /\ o \in MapperType
    BY <2>1, MapperFits DEF Fits
  <2>3. upstreams'[l] = o
    BY <1>3, <1>9, <2>1
  <2>4. PlacedOK(l, o)'
    BY <1>6, <2>2, PlacedStays
  <2> QED BY <2>3, <2>4
<1>10. PlaceInv'
  <2>1. \A l \in DOMAIN upstreams' : PlacedOK(l, upstreams[l])'
    BY <1>3, <1>8, <1>9
  <2>2. Placement'
    BY <2>1 DEF Placement, PlacedOK, ByteOf
  <2>3. ASSUME NEW x \in Miners, miner'[x].st = "in"
        PROVE  /\ miner'[x].mapper \in DOMAIN upstreams'
               /\ ~IsSuspended(upstreams'[miner'[x].mapper])
               /\ x \in upstreams'[miner'[x].mapper].miners
               /\ upstreams'[miner'[x].mapper].used[miner'[x].byte] = x
    <3>1. CASE x = m
      BY <1>2, <1>3, <1>5, <1>6, <3>1
    <3>2. CASE x # m
      <4>1. /\ miner'[x] = miner[x] /\ miner[x].mapper \in DOMAIN upstreams
            /\ ~IsSuspended(upstreams[miner[x].mapper])
            /\ x \in upstreams[miner[x].mapper].miners
            /\ upstreams[miner[x].mapper].used[miner[x].byte] = x
        BY <1>6, <2>3, <3>2 DEF NonceInv, PlaceInv, MinersPlaced
      <4>2. CASE miner[x].mapper # k
        BY <1>3, <4>1, <4>2
      <4>3. CASE miner[x].mapper = k
        <5>1. mp = upstreams[k] /\ x # 0
          BY <4>1, <4>3, SlotFacts
        <5>2. miner[x].byte # b
          BY <4>1, <4>3, <5>1
        <5>3. new.used[miner[x].byte] = mp.used[miner[x].byte]
          BY <1>2, <1>5, <5>2
        <5> QED BY <1>2, <1>3, <4>1, <4>3, <5>1, <5>3
      <4> QED BY <4>2, <4>3
    <3> QED BY <3>1, <3>2
  <2>4. MinersPlaced'
    BY <2>3 DEF MinersPlaced
  <2> QED BY <2>2, <2>4 DEF PlaceInv
<1>11. /\ JobsKnown /\ JobsOwned /\ WorkKept /\ DisjointWork
       /\ Issued /\ Contexts /\ NonceRouting
  BY DEF NonceInv, WorkInv, RouteInv
<1>12. JobsKnown'
  <2>1. \A l \in DOMAIN upstreams' :
           /\ JobKnown(upstreams'[l].job) /\ JobKnown(upstreams'[l].prevJob)
           /\ JobKnown(upstreams'[l].saved)
    BY <1>1, <1>2, <1>3, <1>11 DEF JobsKnown, KnownOK
  <2> QED BY <1>11, <2>1 DEF JobsKnown, JobKnown
<1>13. JobsOwned'
  <2>1. Held(new) = Held(mp)
    BY <1>2 DEF Held
  <2>2. \A l \in DOMAIN upstreams : l # k => Held(upstreams[l]) \cap Held(new) \subseteq {0}
    BY <1>1, <2>1 DEF OwnedOK
  <2>3. \A l, n \in DOMAIN upstreams' : l # n =>
           Held(upstreams'[l]) \cap Held(upstreams'[n]) \subseteq {0}
    <3>1. TAKE l, n \in DOMAIN upstreams'
    <3>2. HAVE l # n
    <3>3. CASE l = k
      BY <1>3, <2>2, <3>2, <3>3
    <3>4. CASE n = k
      BY <1>3, <2>2, <3>2, <3>4
    <3>5. CASE l # k /\ n # k
      BY <1>3, <1>11, <3>2, <3>5 DEF JobsOwned
    <3> QED BY <3>3, <3>4, <3>5
  <2> QED BY <2>3 DEF JobsOwned, Held
<1>14. ASSUME mp.active
       PROVE  /\ work' = work \cup {<<mp.job.id, b, m>>}
              /\ mp.job.id # 0 /\ mp.job.id \in DOMAIN jobs
              /\ \A w \in work : w[1] = mp.job.id => w[2] # b
  <2>1. mp.job.id # 0 /\ \A w \in work : w[1] = mp.job.id => mp.used[w[2]] \in {w[3], -w[3]}
    BY <1>1, <1>14 DEF WorkOf, Attached
  <2>2. \A w \in work : w[3] \in Nat /\ w[3] # 0
    BY <1>4, SlotFacts DEF NonceTypeOK
  <2>3. mp.job.id \in DOMAIN jobs
    BY <1>1, <2>1 DEF KnownOK, JobKnown, NoJob, JobOf
  <2>4. ASSUME NEW w \in work, w[1] = mp.job.id PROVE w[2] # b
    BY <2>1, <2>2, <2>4
  <2> QED BY <1>14, <2>1, <2>3, <2>4
<1>15. WorkOf(new)'
  <2>1. ASSUME Attached(mp), NEW w \in work', w[1] = mp.job.id
        PROVE  new.used[w[2]] \in {w[3], -w[3]}
    <3>1. CASE w \in work
      <4>1. mp.used[w[2]] \in {w[3], -w[3]} /\ w[3] \in Nat /\ w[3] # 0 /\ w[2] \in Slots
        BY <1>1, <1>4, <2>1, <3>1, SlotFacts DEF WorkOf, NonceTypeOK
      <4>2. w[2] # b
        BY <4>1
      <4>3. new.used[w[2]] = mp.used[w[2]]
        BY <1>2, <1>5, <4>1, <4>2
      <4> QED BY <4>1, <4>3
    <3>2. CASE w \notin work
      <4>1. w = <<mp.job.id, b, m>>
        BY <2>1, <3>2
      <4>2. new.used[b] = m
        BY <1>2, <1>5
      <4> QED BY <4>1, <4>2
    <3> QED BY <3>1, <3>2
  <2>2. ASSUME mp.donate.st # "off", mp.saved.id # 0
        PROVE  mp.saved.id # mp.job.id /\ \A w \in work' : w[1] # mp.saved.id
    BY <1>1, <2>2 DEF WorkOf
  <2>3. Attached(new) = Attached(mp)
    BY <1>2 DEF Attached
  <2>4. Attached(mp) => mp.job.id # 0
    BY <1>1 DEF WorkOf
  <2> QED BY <1>2, <2>1, <2>2, <2>3, <2>4 DEF WorkOf, Attached
<1>16. ASSUME NEW l \in DOMAIN upstreams, l # k PROVE WorkOf(upstreams[l])'
  <2>1. upstreams'[l] = upstreams[l] /\ WorkOf(upstreams[l])
    BY <1>3, <1>11, <1>16 DEF WorkKept
  <2>2. Held(upstreams[l]) \cap Held(mp) \subseteq {0}
    BY <1>1, <1>16 DEF OwnedOK
  <2>3. ASSUME NEW w \in work', w[1] \in Held(upstreams[l]), w[1] # 0 PROVE w \in work
    <3>1. CASE ~mp.active
      BY <2>3, <3>1
    <3>2. CASE mp.active
      <4>1. w \in work \/ w = <<mp.job.id, b, m>>
        BY <1>14, <3>2
      <4>2. ASSUME w = <<mp.job.id, b, m>> PROVE FALSE
        <5>1. w[1] = mp.job.id
          BY <4>2
        <5>2. w[1] \in Held(mp)
          BY <5>1 DEF Held
        <5> QED BY <2>2, <2>3, <5>2
      <4> QED BY <4>1, <4>2
    <3> QED BY <3>1, <3>2
  <2> QED BY <2>1, <2>3 DEF WorkOf, Attached, Held
<1>17. WorkKept'
  <2>1. \A w \in work' : w[1] \in DOMAIN jobs
    BY <1>11, <1>14 DEF WorkKept
  <2> QED BY <1>3, <1>15, <1>16, <2>1 DEF WorkKept
<1>18. DisjointWork'
  <2>1. CASE ~mp.active
    BY <1>11, <2>1 DEF DisjointWork
  <2>2. CASE mp.active
    BY <1>11, <1>14, <2>2 DEF DisjointWork
  <2> QED BY <2>1, <2>2
<1>19. Issued'
  <2>1. sessions \in Nat /\ new.strategy.session \in Nat
    BY <1>2, <1>4, LinkFields DEF NonceTypeOK
  <2>2. LinksOK(new) /\ IssuedOK(new)
    BY <1>1, <1>2, <2>1 DEF LinksOK, IssuedOK
  <2>3. \A l \in DOMAIN upstreams' : LinksOK(upstreams'[l]) /\ IssuedOK(upstreams'[l])
    BY <1>3, <1>11, <2>2 DEF Issued
  <2> QED BY <2>3 DEF Issued, LinksOK, IssuedOK
<1>20. Contexts'
  <2>1. \A l \in DOMAIN upstreams' : \A r :
           r \in upstreams'[l].results =>
              /\ r.seq < sequence /\ r.req \in DOMAIN shares /\ r.miner = shares[r.req].miner
              /\ \A p \in inflight : r.seq = p.seq => r.req = p.req
    BY <1>1, <1>2, <1>3, <1>11 DEF Contexts, FiledOK
  <2> QED BY <1>11, <2>1 DEF Contexts
<1>21. NonceRouting'
  BY <1>11 DEF NonceRouting
<1> QED BY <1>7, <1>10, <1>12, <1>13, <1>17, <1>18, <1>19, <1>20, <1>21 DEF NonceInv, WorkInv, RouteInv

LEMMA PlaceShape ==
    ASSUME NEW ups, NEW k, NEW mp \in MapperType, mp = ups[k], NEW m \in Miners,
           NextIndex(mp) \in Slots, Place(ups, k, m)
    PROVE  LET b == NextIndex(mp)
           IN  /\ upstreams' = [ups EXCEPT ![k] = Taken(mp, m, b)]
               /\ miner' = [miner EXCEPT ![m] = [st |-> "in", mapper |-> k, byte |-> b]]
               /\ work' = IF mp.active THEN work \cup {<<mp.job.id, b, m>>} ELSE work
<1> DEFINE b   == NextIndex(mp)
           add == [mp EXCEPT !.used[b] = m, !.index = b, !.miners = @ \cup {m}]
           new == IF IsSuspended(add) THEN MapperConnect(add) ELSE add
<1>1. /\ upstreams' = [ups EXCEPT ![k] = new]
      /\ miner' = [miner EXCEPT ![m] = [st |-> "in", mapper |-> k, byte |-> add.index]]
      /\ work' = IF add.active THEN work \cup {<<add.job.id, add.index, m>>} ELSE work
  BY DEF Place, StorageAdd
<1> HIDE DEF b
<1>2. /\ add.index = b /\ add.active = mp.active /\ add.job = mp.job
      /\ add.suspended = mp.suspended
  BY DEF MapperType
<1>3. Taken(mp, m, b) = new
  <2>1. Taken(mp, m, b) = IF IsSuspended(mp) THEN MapperConnect(add) ELSE add
    BY DEF Taken
  <2> HIDE DEF add
  <2> QED BY <1>2, <2>1 DEF IsSuspended
<1> HIDE DEF add, new
<1> QED BY <1>1, <1>2, <1>3 DEF b

LEMMA LoginInv ==
    ASSUME NonceInv, NEW m \in Miners, Login(m)
    PROVE  NonceInv'
<1> DEFINE free(susp) == {k \in DOMAIN upstreams :
                             /\ IsSuspended(upstreams[k]) = susp
                             /\ NextIndex(upstreams[k]) # -1}
           First(S) == CHOOSE k \in S : \A l \in S : k <= l
           Into(ups, k) == Place(ups, k, m)
<1>1. /\ miner[m].st = "new" /\ upstreams \in Seq(MapperType) /\ miner \in [Miners -> PlaceType]
      /\ UNCHANGED <<jobs, sessions, sequence, shares, inflight>>
  BY DEF NonceInv, NonceTypeOK, Login
<1>2. ASSUME NEW S \in SUBSET (DOMAIN upstreams), S # {} PROVE First(S) \in S
  <2>1. S \in SUBSET Nat
    BY <1>1
  <2>2. \E k \in S : \A l \in S : k <= l
    BY <1>2, <2>1, SmallestElement
  <2> QED BY <2>2, Zenon
<1>3. \/ \E k \in DOMAIN upstreams : NextIndex(upstreams[k]) # -1 /\ Place(upstreams, k, m)
      \/ \E i \in Slots :
            Place(Append(upstreams, MapperConnect(NewMapper(i))), Len(upstreams) + 1, m)
  <2>1. IF free(FALSE) # {} THEN Place(upstreams, First(free(FALSE)), m)
        ELSE IF free(TRUE) # {} THEN Place(upstreams, First(free(TRUE)), m)
        ELSE \E i \in Slots :
                Place(Append(upstreams, MapperConnect(NewMapper(i))), Len(upstreams) + 1, m)
    BY DEF Login
  <2>2. ASSUME NEW susp \in BOOLEAN, free(susp) # {}
        PROVE  /\ First(free(susp)) \in DOMAIN upstreams
               /\ NextIndex(upstreams[First(free(susp))]) # -1
    <3>1. free(susp) \in SUBSET (DOMAIN upstreams)
      OBVIOUS
    <3>2. First(free(susp)) \in free(susp)
      BY <1>2, <2>2, <3>1
    <3> HIDE DEF First
    <3> QED BY <3>2
  <2> HIDE DEF First
  <2> QED BY <2>1, <2>2
\* A mapper there is takes the miner.
<1>4. ASSUME NEW k \in DOMAIN upstreams, NextIndex(upstreams[k]) # -1, Place(upstreams, k, m)
      PROVE  NonceInv'
  <2> DEFINE mp == upstreams[k]
             b  == NextIndex(mp)
  <2>1. mp \in MapperType /\ Fits(k, mp) /\ k \in Nat
    BY <1>1, MapperFits
  <2>2. b \in Slots /\ mp.used[b] = 0
    BY <1>4, <2>1, NextIndexFree
  <2>3. /\ upstreams' = [upstreams EXCEPT ![k] = Taken(mp, m, b)]
        /\ miner' = [miner EXCEPT ![m] = [st |-> "in", mapper |-> k, byte |-> b]]
        /\ work' = IF mp.active THEN work \cup {<<mp.job.id, b, m>>} ELSE work
    BY <1>4, <2>1, <2>2, PlaceShape
  <2>4. Taken(mp, m, b) \in MapperType
    BY <2>1, <2>2, TakenShape
  <2> HIDE DEF b
  <2>5. Replaced(k, Taken(mp, m, b))
    BY <1>1, <2>3, <2>4, ReplaceOne
  <2>6. PICK o : o = mp
    OBVIOUS
  <2> QED BY <1>1, <2>1, <2>2, <2>3, <2>5, <2>6, TakeInv
\* A new mapper takes it.
<1>5. ASSUME NEW i \in Slots,
             Place(Append(upstreams, MapperConnect(NewMapper(i))), Len(upstreams) + 1, m)
      PROVE  NonceInv'
  <2> DEFINE mp  == MapperConnect(NewMapper(i))
             k   == Len(upstreams) + 1
             ups == Append(upstreams, mp)
             b   == NextIndex(mp)
  <2>1. mp \in MapperType /\ Fits(k, mp) /\ mp.used = [c \in Slots |-> 0]
    BY NewMapperFits, NewMapperType, ConnectShape DEF NewMapper
  <2> HIDE DEF mp
  <2>2. b \in Slots /\ mp.used[b] = 0
    BY <2>1, NextIndexFree, SlotFacts
  <2>3. ups \in Seq(MapperType) /\ ups[k] = mp /\ DOMAIN ups = DOMAIN upstreams \cup {k}
        /\ k \in Nat /\ k \notin DOMAIN upstreams
        /\ \A l \in DOMAIN upstreams : l # k /\ ups[l] = upstreams[l]
    BY <1>1, <2>1
  <2> HIDE DEF k, ups
  <2>4. /\ upstreams' = [ups EXCEPT ![k] = Taken(mp, m, b)]
        /\ miner' = [miner EXCEPT ![m] = [st |-> "in", mapper |-> k, byte |-> b]]
        /\ work' = IF mp.active THEN work \cup {<<mp.job.id, b, m>>} ELSE work
    BY <1>5, <2>1, <2>2, <2>3, PlaceShape DEF k, ups, mp
  <2>5. Taken(mp, m, b) \in MapperType
    BY <2>1, <2>2, TakenShape
  <2> HIDE DEF b
  <2>6. Replaced(k, Taken(mp, m, b))
    BY <2>3, <2>4, <2>5 DEF Replaced
  <2> QED BY <1>1, <2>1, <2>2, <2>3, <2>4, <2>6, TakeInv
<1> QED BY <1>3, <1>4, <1>5

LEMMA StartInv ==
    ASSUME NonceInv, Start
    PROVE  NonceInv'
<1>1. PICK i \in Slots : upstreams' = <<MapperConnect(NewMapper(i))>>
  BY DEF Start
<1>2. /\ upstreams = <<>>
      /\ UNCHANGED <<miner, jobs, sessions, sequence, shares, inflight, work>>
  BY DEF Start
<1> DEFINE mp == MapperConnect(NewMapper(i))
<1>3. Fits(1, mp)
  BY NewMapperFits
<1>4. /\ upstreams' \in Seq(MapperType) /\ DOMAIN upstreams' = {1} /\ upstreams'[1] = mp
  BY <1>1, <1>3 DEF Fits
<1> HIDE DEF mp
<1>5. NonceTypeOK'
  BY <1>2, <1>4 DEF NonceInv, NonceTypeOK
<1>6. PlaceInv'
  <2>1. PlacedOK(1, mp)
    BY <1>3 DEF Fits
  <2>2. Placement'
    BY <1>2, <1>4, <2>1 DEF Placement, PlacedOK, ByteOf, IsSuspended
  <2>3. \A m \in Miners : miner[m].st # "in"
    BY <1>2 DEF NonceInv, PlaceInv, MinersPlaced
  <2> QED BY <1>2, <2>2, <2>3 DEF PlaceInv, MinersPlaced
<1>7. WorkInv'
  <2>1. KnownOK(mp) /\ WorkOf(mp)
    BY <1>3 DEF Fits
  <2>2. JobsKnown'
    BY <1>2, <1>4, <2>1 DEF NonceInv, WorkInv, JobsKnown, KnownOK, JobKnown
  <2>3. JobsOwned'
    BY <1>4 DEF JobsOwned
  <2>4. WorkKept'
    BY <1>2, <1>4, <2>1 DEF NonceInv, WorkInv, WorkKept, WorkOf, Attached
  <2>5. DisjointWork'
    BY <1>2 DEF NonceInv, WorkInv, DisjointWork
  <2> QED BY <2>2, <2>3, <2>4, <2>5 DEF WorkInv
<1>8. RouteInv'
  <2>1. LinksOK(mp) /\ IssuedOK(mp) /\ FiledOK(mp)
    BY <1>3 DEF Fits
  <2>2. Issued'
    BY <1>2, <1>4, <2>1 DEF Issued, LinksOK, IssuedOK
  <2>3. Contexts'
    BY <1>2, <1>4, <2>1 DEF NonceInv, RouteInv, Contexts, FiledOK
  <2>4. NonceRouting'
    BY <1>2 DEF NonceInv, RouteInv, NonceRouting
  <2> QED BY <2>2, <2>3, <2>4 DEF RouteInv
<1> QED BY <1>5, <1>6, <1>7, <1>8 DEF NonceInv

\* Mapper mp, after miner m left byte b.
LEMMA RemoveShape ==
    ASSUME NEW mp \in MapperType, NEW m \in Miners, NEW b \in Slots
    PROVE  LET new == StorageRemove(mp, m, b)
           IN  /\ new \in MapperType /\ new.suspended = mp.suspended
               /\ new.used = [mp.used EXCEPT ![b] = -m] /\ new.miners = mp.miners \ {m}
               /\ new.active = mp.active /\ new.donate = mp.donate /\ new.job = mp.job
               /\ new.prevJob = mp.prevJob /\ new.saved = mp.saved /\ new.results = mp.results
               /\ new.strategy = mp.strategy
<1> DEFINE used == [mp.used EXCEPT ![b] = -m]
           rest == mp.miners \ {m}
<1>1. used \in [Slots -> Int] /\ rest \in SUBSET Miners
  BY MapperFields, SlotFacts
<1>2. StorageRemove(mp, m, b) = [mp EXCEPT !.used = used, !.miners = rest]
  BY DEF StorageRemove, MapperType
<1> HIDE DEF used, rest
<1>3. [mp EXCEPT !.used = used, !.miners = rest] \in MapperType
  BY <1>1 DEF MapperType
<1> QED BY <1>2, <1>3 DEF MapperType, used, rest

LEMMA RemoveInv ==
    ASSUME NonceInv, NEW m \in Miners, Remove(m)
    PROVE  NonceInv'
<1>1. PICK k, b : k = miner[m].mapper /\ b = miner[m].byte
  OBVIOUS
<1>2. PICK mp : mp = upstreams[k]
  OBVIOUS
<1>3. miner[m].st = "in" /\ m \in Nat /\ m > 0
  BY SlotFacts DEF Remove
<1>4. /\ k \in DOMAIN upstreams /\ ~IsSuspended(mp) /\ m \in mp.miners /\ mp.used[b] = m
  BY <1>1, <1>2, <1>3 DEF NonceInv, PlaceInv, MinersPlaced
<1>5. /\ mp \in MapperType /\ PlacedOK(k, mp) /\ KnownOK(mp) /\ OwnedOK(k, mp)
      /\ WorkOf(mp) /\ LinksOK(mp) /\ IssuedOK(mp) /\ FiledOK(mp)
  BY <1>2, <1>4, MapperFits DEF Fits
<1>6. NonceTypeOK /\ b \in Slots /\ k \in Nat
  BY <1>1 DEF NonceInv, NonceTypeOK, PlaceType
<1> DEFINE new == StorageRemove(mp, m, b)
<1>7. /\ new \in MapperType /\ ~IsSuspended(new)
      /\ new.used = [mp.used EXCEPT ![b] = -m] /\ new.miners = mp.miners \ {m}
      /\ new.active = mp.active /\ new.donate = mp.donate /\ new.job = mp.job
      /\ new.prevJob = mp.prevJob /\ new.saved = mp.saved /\ new.results = mp.results
      /\ new.strategy = mp.strategy
  BY <1>4, <1>5, <1>6, RemoveShape DEF IsSuspended
<1>8. upstreams' = [upstreams EXCEPT ![k] = new]
  BY <1>1, <1>2, <1>4 DEF Remove
<1>9. UNCHANGED <<jobs, sessions, sequence, shares, inflight, work>>
  BY DEF Remove
<1> HIDE DEF new
<1>10. /\ DOMAIN upstreams' = DOMAIN upstreams /\ upstreams'[k] = new
       /\ \A l \in DOMAIN upstreams : l # k => upstreams'[l] = upstreams[l]
       /\ upstreams' \in Seq(MapperType)
  BY <1>4, <1>6, <1>7, <1>8, ReplaceOne DEF Replaced, NonceTypeOK
<1>11. mp.used \in [Slots -> Int] /\ mp.miners \in SUBSET Miners
  BY <1>5, MapperFields
<1>12. /\ miner' \in [Miners -> PlaceType] /\ miner'[m].st = "closed"
       /\ \A x \in Miners : x # m => miner'[x] = miner[x]
  <2>1. miner' = [miner EXCEPT ![m].st = "closed"] /\ miner \in [Miners -> PlaceType]
    BY <1>6 DEF Remove, NonceTypeOK
  <2> QED BY <2>1 DEF PlaceType
<1>13. NonceTypeOK'
  BY <1>6, <1>9, <1>10, <1>12 DEF NonceTypeOK
<1>14. PlacedOK(k, new)'
  <2>1. ASSUME NEW c \in Slots
        PROVE  /\ new.used[c] > 0 => new.used[c] \in Miners
                                     /\ miner'[new.used[c]] = [st |-> "in", mapper |-> k, byte |-> c]
               /\ new.used[c] # 0 => ~IsSuspended(new)
    <3>1. CASE c = b
      BY <1>3, <1>6, <1>7, <1>11, <3>1
    <3>2. CASE c # b
      <4>1. new.used[c] = mp.used[c]
        BY <1>7, <1>11, <3>2
      <4>2. mp.used[c] > 0 => mp.used[c] \in Miners /\ mp.used[c] # m
                              /\ miner[mp.used[c]] = [st |-> "in", mapper |-> k, byte |-> c]
        BY <1>1, <1>5, <3>2 DEF PlacedOK
      <4> QED BY <1>7, <1>12, <4>1, <4>2
    <3> QED BY <3>1, <3>2
  <2>2. \A x \in new.miners : miner'[x].st = "in" /\ miner'[x].mapper = k
    BY <1>5, <1>7, <1>11, <1>12 DEF PlacedOK
  <2> QED BY <1>7, <2>1, <2>2 DEF PlacedOK
<1>15. ASSUME NEW l \in DOMAIN upstreams, l # k PROVE PlacedOK(l, upstreams[l])'
  <2>1. PICK o : o = upstreams[l]
    OBVIOUS
  <2>2. PlacedOK(l, o) /\ o \in MapperType
    BY <2>1, MapperFits DEF Fits
  <2>3. upstreams'[l] = o
    BY <1>10, <1>15, <2>1
  <2>4. PlacedOK(l, o)'
    BY <1>1, <1>12, <1>15, <2>2, PlacedStays
  <2> QED BY <2>3, <2>4
<1>16. PlaceInv'
  <2>1. \A l \in DOMAIN upstreams' : PlacedOK(l, upstreams[l])'
    BY <1>10, <1>14, <1>15
  <2>2. Placement'
    BY <2>1 DEF Placement, PlacedOK, ByteOf
  <2>3. ASSUME NEW x \in Miners, miner'[x].st = "in"
        PROVE  /\ miner'[x].mapper \in DOMAIN upstreams'
               /\ ~IsSuspended(upstreams'[miner'[x].mapper])
               /\ x \in upstreams'[miner'[x].mapper].miners
               /\ upstreams'[miner'[x].mapper].used[miner'[x].byte] = x
    <3>1. x # m
      BY <1>12, <2>3
    <3>2. /\ miner'[x] = miner[x] /\ miner[x].mapper \in DOMAIN upstreams
          /\ ~IsSuspended(upstreams[miner[x].mapper])
          /\ x \in upstreams[miner[x].mapper].miners
          /\ upstreams[miner[x].mapper].used[miner[x].byte] = x
      BY <1>12, <2>3, <3>1 DEF NonceInv, PlaceInv, MinersPlaced
    <3>3. CASE miner[x].mapper # k
      BY <1>10, <3>2, <3>3
    <3>4. CASE miner[x].mapper = k
      <4>1. miner[x].byte # b
        BY <1>2, <1>4, <3>1, <3>2, <3>4
      <4>2. new.used[miner[x].byte] = mp.used[miner[x].byte]
        BY <1>7, <1>11, <4>1
      <4> QED BY <1>2, <1>7, <1>10, <3>1, <3>2, <3>4, <4>2
    <3> QED BY <3>3, <3>4
  <2>4. MinersPlaced'
    BY <2>3 DEF MinersPlaced
  <2> QED BY <2>2, <2>4 DEF PlaceInv
<1>17. WorkOf(new)'
  <2>1. ASSUME Attached(mp), NEW w \in work, w[1] = mp.job.id
        PROVE  new.used[w[2]] \in {w[3], -w[3]}
    <3>1. mp.used[w[2]] \in {w[3], -w[3]} /\ w[3] \in Nat /\ w[2] \in Slots
      BY <1>5, <1>6, <2>1, SlotFacts DEF WorkOf, NonceTypeOK
    <3>2. CASE w[2] = b
      BY <1>3, <1>4, <1>7, <1>11, <3>1, <3>2
    <3>3. CASE w[2] # b
      BY <1>7, <1>11, <3>1, <3>3
    <3> QED BY <3>2, <3>3
  <2> QED BY <1>5, <1>7, <1>9, <2>1 DEF WorkOf, Attached
<1>18. /\ JobsKnown /\ JobsOwned /\ WorkKept /\ DisjointWork
       /\ Issued /\ Contexts /\ NonceRouting
  BY DEF NonceInv, WorkInv, RouteInv
<1>19. WorkInv'
  <2>1. JobsKnown'
    BY <1>5, <1>7, <1>9, <1>10, <1>18 DEF JobsKnown, KnownOK, JobKnown
  <2>2. JobsOwned'
    <3>1. \A l \in DOMAIN upstreams : Held(upstreams'[l]) = Held(upstreams[l])
      BY <1>2, <1>7, <1>10 DEF Held
    <3> QED BY <1>10, <1>18, <3>1 DEF JobsOwned, Held
  <2>3. WorkKept'
    BY <1>9, <1>10, <1>17, <1>18 DEF WorkKept, WorkOf, Attached
  <2>4. DisjointWork'
    BY <1>9, <1>18 DEF DisjointWork
  <2> QED BY <2>1, <2>2, <2>3, <2>4 DEF WorkInv
<1>20. RouteInv'
  <2>1. LinksOK(new) /\ IssuedOK(new)
    BY <1>5, <1>7 DEF LinksOK, IssuedOK
  <2>2. Issued'
    BY <1>9, <1>10, <1>18, <2>1 DEF Issued, LinksOK, IssuedOK
  <2>3. Contexts'
    BY <1>2, <1>7, <1>9, <1>10, <1>18 DEF Contexts
  <2>4. NonceRouting'
    BY <1>9, <1>18 DEF NonceRouting
  <2> QED BY <2>2, <2>3, <2>4 DEF RouteInv
<1> QED BY <1>13, <1>16, <1>19, <1>20 DEF NonceInv

\* A share that is sent goes to the connection that issued its job, unless the
\* job was restored.
LEMMA RequestRouted ==
    ASSUME NonceInv, NEW k \in DOMAIN upstreams, NEW mp, mp = upstreams[k],
           mp.active, NEW id \in DOMAIN jobs, IsValidJobId(mp, id), Upstream(mp) # 0,
           NEW req \in Nat
    PROVE  LET p == Request(mp, sequence, req, id)
           IN  /\ p \in NRequestType /\ p.seq = sequence /\ p.req = req /\ p.job = id
               /\ \/ jobs[id] = p.session
                  \/ p.restored /\ ~p.donation /\ jobs[id] < p.session
<1> DEFINE p == Request(mp, sequence, req, id)
<1>1. mp \in MapperType /\ KnownOK(mp) /\ LinksOK(mp) /\ IssuedOK(mp)
  BY MapperFits DEF Fits
<1>2. jobs \in Seq(Nat) /\ sequence \in Nat /\ id \in Nat /\ id # 0
  BY DEF NonceInv, NonceTypeOK
<1>3. /\ mp.job.restored \in BOOLEAN /\ mp.prevJob.restored \in BOOLEAN
      /\ mp.strategy.session \in Nat /\ mp.donate.session \in Nat
  BY <1>1 DEF MapperType, NJobType, PoolLinkType, DonateLinkType
<1>4. /\ p.seq = sequence /\ p.req = req /\ p.job = id /\ p.session = Upstream(mp)
      /\ p.donation = (mp.donate.st = "active")
      /\ p.restored = IF mp.job.id = id THEN mp.job.restored ELSE mp.prevJob.restored
  BY DEF Request
<1>5. p \in NRequestType
  <2>1. Upstream(mp) \in Nat
    BY <1>3 DEF Upstream
  <2>2. (IF mp.job.id = id THEN mp.job.restored ELSE mp.prevJob.restored) \in BOOLEAN
    BY <1>3
  <2>3. (mp.donate.st = "active") \in BOOLEAN
    OBVIOUS
  <2> HIDE DEF Upstream
  <2> QED BY <1>2, <2>1, <2>2, <2>3, Zenon DEF Request, NRequestType
<1> HIDE DEF p
<1>6. CASE mp.job.id = id
  <2>1. jobs[id] = mp.job.client
    BY <1>1, <1>2, <1>6 DEF KnownOK, JobKnown, NoJob, JobOf
  <2> QED BY <1>1, <1>4, <1>5, <1>6, <2>1 DEF LinksOK, IssuedOK, Upstream, p
<1>7. CASE mp.job.id # id
  <2>1. mp.prevJob # NoJob /\ mp.prevJob.id = id
    BY <1>7 DEF IsValidJobId
  <2>2. jobs[id] = mp.prevJob.client
    BY <1>1, <2>1 DEF KnownOK, JobKnown
  <2>3. jobs[id] = mp.job.client /\ ~mp.job.restored
    BY <1>1, <2>1, <2>2 DEF IssuedOK
  <2> QED BY <1>1, <1>4, <1>5, <2>3 DEF LinksOK, IssuedOK, Upstream, p
<1> QED BY <1>6, <1>7

\* A step that changes the contexts of mapper k only.
LEMMA ResultsStep ==
    ASSUME NonceInv, NEW k \in DOMAIN upstreams, NEW R \in SUBSET ContextType,
           upstreams' = [upstreams EXCEPT ![k].results = R],
           UNCHANGED <<miner, jobs, sessions, work>>
    PROVE  /\ upstreams' \in Seq(MapperType) /\ PlaceInv' /\ WorkInv' /\ Issued'
           /\ DOMAIN upstreams' = DOMAIN upstreams /\ upstreams'[k].results = R
           /\ \A l \in DOMAIN upstreams : l # k => upstreams'[l].results = upstreams[l].results
<1>1. PICK mp : mp = upstreams[k]
  OBVIOUS
<1> DEFINE new == [mp EXCEPT !.results = R]
<1>2. mp \in MapperType /\ upstreams \in Seq(MapperType)
  BY <1>1 DEF NonceInv, NonceTypeOK
<1>3. /\ new \in MapperType /\ new.results = R /\ new.suspended = mp.suspended
      /\ new.used = mp.used /\ new.miners = mp.miners /\ new.active = mp.active
      /\ new.donate = mp.donate /\ new.job = mp.job /\ new.prevJob = mp.prevJob
      /\ new.saved = mp.saved /\ new.strategy = mp.strategy
  BY <1>2 DEF MapperType
<1>4. upstreams' = [upstreams EXCEPT ![k] = new]
  BY <1>1
<1> HIDE DEF new
<1>5. /\ DOMAIN upstreams' = DOMAIN upstreams /\ upstreams'[k] = new
      /\ \A l \in DOMAIN upstreams : l # k => upstreams'[l] = upstreams[l]
      /\ upstreams' \in Seq(MapperType)
  BY <1>2, <1>3, <1>4, ReplaceOne DEF Replaced
<1>6. \A l \in DOMAIN upstreams :
         /\ upstreams'[l].used = upstreams[l].used /\ upstreams'[l].miners = upstreams[l].miners
         /\ upstreams'[l].active = upstreams[l].active /\ upstreams'[l].job = upstreams[l].job
         /\ upstreams'[l].donate = upstreams[l].donate /\ upstreams'[l].saved = upstreams[l].saved
         /\ upstreams'[l].prevJob = upstreams[l].prevJob
         /\ upstreams'[l].strategy = upstreams[l].strategy
         /\ upstreams'[l].suspended = upstreams[l].suspended
  BY <1>1, <1>3, <1>5
<1>7. /\ Placement /\ MinersPlaced /\ JobsKnown /\ JobsOwned /\ WorkKept /\ DisjointWork /\ Issued
  BY DEF NonceInv, PlaceInv, WorkInv, RouteInv
<1>8. PlaceInv'
  <2>1. Placement'
    <3>1. upstreams # <<>> /\ 1 \in DOMAIN upstreams
      BY <1>2
    <3> QED BY <1>5, <1>6, <1>7, <3>1 DEF Placement, ByteOf, IsSuspended
  <2>2. MinersPlaced'
    BY <1>5, <1>6, <1>7 DEF MinersPlaced, IsSuspended
  <2> QED BY <2>1, <2>2 DEF PlaceInv
<1>9. WorkInv'
  <2>1. JobsKnown'
    BY <1>5, <1>6, <1>7 DEF JobsKnown, JobKnown
  <2>2. JobsOwned'
    BY <1>5, <1>6, <1>7 DEF JobsOwned, Held
  <2>3. WorkKept'
    BY <1>5, <1>6, <1>7 DEF WorkKept, WorkOf, Attached
  <2>4. DisjointWork'
    BY <1>7 DEF DisjointWork
  <2> QED BY <2>1, <2>2, <2>3, <2>4 DEF WorkInv
<1>10. Issued'
  BY <1>5, <1>6, <1>7 DEF Issued, LinksOK, IssuedOK
<1> QED BY <1>3, <1>5, <1>8, <1>9, <1>10

LEMMA SubmitInv ==
    ASSUME NonceInv, NEW m \in Miners, NEW id \in DOMAIN jobs,
           NEW sameAlgo \in BOOLEAN, NEW sent \in BOOLEAN, Submit(m, id, sameAlgo, sent)
    PROVE  NonceInv'
<1> DEFINE k      == miner[m].mapper
           mp     == upstreams[k]
           req    == Len(shares) + 1
           error  == ~mp.active \/ ~IsValidJobId(mp, id) \/ ~sameAlgo
           seq    == IF sent THEN sequence ELSE -1
           others == {r \in mp.results : r.seq # seq}
           ctx    == [seq |-> seq, req |-> req, miner |-> m]
           p      == Request(mp, sequence, req, id)
<1>1. /\ miner[m].st = "in" /\ UNCHANGED <<miner, jobs, sessions, work>>
      /\ IF error
           THEN /\ shares' = Append(shares, [miner |-> m, answers |-> {<<m, req, TRUE>>}])
                /\ UNCHANGED <<upstreams, sequence, inflight>>
           ELSE /\ sent => Upstream(mp) # 0
                /\ shares' = Append(shares, [miner |-> m, answers |-> {}])
                /\ upstreams' = [upstreams EXCEPT ![k].results = others \cup {ctx}]
                /\ sequence' = IF sent THEN sequence + 1 ELSE sequence
                /\ inflight' = IF sent THEN inflight \cup {p} ELSE inflight
  <2>1. sent => Request(mp, seq, req, id) = p
    OBVIOUS
  <2> QED BY <2>1 DEF Submit
<1>2. /\ upstreams \in Seq(MapperType) /\ shares \in Seq(NShareType) /\ sequence \in Nat
      /\ inflight \in SUBSET NRequestType
  BY DEF NonceInv, NonceTypeOK
<1>3. k \in DOMAIN upstreams /\ mp \in MapperType /\ FiledOK(mp)
  BY <1>1, MapperFits DEF NonceInv, PlaceInv, MinersPlaced, Fits
<1>4. req \in Nat /\ req \notin DOMAIN shares
  BY <1>2
<1>5. PICK a \in SUBSET (Miners \X Nat \X BOOLEAN) :
         /\ a \subseteq {<<m, req, TRUE>>}
         /\ shares' = Append(shares, [miner |-> m, answers |-> a])
  <2> HIDE DEF error, req
  <2>1. <<m, req, TRUE>> \in Miners \X Nat \X BOOLEAN
    BY <1>4
  <2> QED BY <1>1, <2>1
<1>6. /\ shares' \in Seq(NShareType) /\ DOMAIN shares' = DOMAIN shares \cup {req}
      /\ shares'[req].miner = m /\ shares'[req].answers \subseteq {<<m, req, TRUE>>}
      /\ \A r \in DOMAIN shares : r # req /\ shares'[r] = shares[r]
  <2> DEFINE share == [miner |-> m, answers |-> a]
  <2>1. share \in NShareType /\ share.miner = m /\ share.answers = a
    BY DEF NShareType
  <2>2. shares' = Append(shares, share)
    BY <1>5
  <2> HIDE DEF share
  <2>3. shares' \in Seq(NShareType) /\ DOMAIN shares' = DOMAIN shares \cup {req}
    BY <1>2, <2>1, <2>2
  <2>4. shares'[req] = share
    BY <1>2, <2>1, <2>2
  <2>5. \A r \in DOMAIN shares : r # req /\ shares'[r] = shares[r]
    BY <1>2, <2>1, <2>2
  <2> QED BY <1>5, <2>1, <2>3, <2>4, <2>5
<1> HIDE DEF req, ctx
<1>7. Contexts /\ NonceRouting /\ NonceTypeOK
  BY DEF NonceInv, RouteInv
<1>8. \A r \in DOMAIN shares' : shares'[r].answers \subseteq {<<shares'[r].miner, r, TRUE>>}
  <2>1. TAKE r \in DOMAIN shares'
  <2>2. CASE r = req
    BY <1>6, <2>2
  <2>3. CASE r # req
    BY <1>6, <1>7, <2>3 DEF NonceRouting
  <2> QED BY <2>2, <2>3
\* The share is refused at once.
<1>9. CASE error
  <2>1. UNCHANGED <<upstreams, sequence, inflight, miner, jobs, sessions, work>>
    BY <1>1, <1>9
  <2>2. NonceTypeOK'
    BY <1>6, <1>7, <2>1 DEF NonceTypeOK
  <2>3. PlaceInv'
    BY <2>1 DEF NonceInv, PlaceInv, Placement, ByteOf, MinersPlaced
  <2>4. WorkInv'
    BY <2>1 DEF NonceInv, WorkInv, JobsKnown, JobKnown, JobsOwned, WorkKept, WorkOf, Attached,
                DisjointWork
  <2>5. Issued'
    BY <2>1 DEF NonceInv, RouteInv, Issued, LinksOK, IssuedOK
  <2>6. Contexts'
    BY <1>6, <1>7, <2>1 DEF Contexts
  <2>7. NonceRouting'
    BY <1>7, <1>8, <2>1 DEF NonceRouting
  <2> QED BY <2>2, <2>3, <2>4, <2>5, <2>6, <2>7 DEF NonceInv, RouteInv
\* The share is filed, and sent if it can be.
<1>10. CASE ~error
  <2>1. /\ sent => Upstream(mp) # 0
        /\ upstreams' = [upstreams EXCEPT ![k].results = others \cup {ctx}]
        /\ sequence' = IF sent THEN sequence + 1 ELSE sequence
        /\ inflight' = IF sent THEN inflight \cup {p} ELSE inflight
    BY <1>1, <1>10 DEF ctx
  <2>2. /\ ctx \in ContextType /\ ctx.seq = seq /\ ctx.req = req /\ ctx.miner = m
    BY <1>2, <1>4 DEF ctx, ContextType
  <2>3. others \cup {ctx} \in SUBSET ContextType
    BY <1>3, <2>2, MapperFields
  <2>4. sent => /\ p \in NRequestType /\ p.seq = sequence /\ p.req = req /\ p.job = id
                /\ \/ jobs[id] = p.session
                   \/ p.restored /\ ~p.donation /\ jobs[id] < p.session
    <3>1. PICK o : o = mp
      OBVIOUS
    <3>2. mp.active /\ IsValidJobId(mp, id)
      BY <1>10
    <3>3. sent => Upstream(o) # 0
      BY <2>1, <3>1
    <3> HIDE DEF k
    <3> QED BY <1>3, <1>4, <3>1, <3>2, <3>3, RequestRouted
  <2> HIDE DEF p, mp, k, error
  <2>5. /\ upstreams' \in Seq(MapperType) /\ PlaceInv' /\ WorkInv' /\ Issued'
        /\ DOMAIN upstreams' = DOMAIN upstreams /\ upstreams'[k].results = others \cup {ctx}
        /\ \A l \in DOMAIN upstreams : l # k => upstreams'[l].results = upstreams[l].results
    BY <1>1, <1>3, <2>1, <2>3, ResultsStep
  <2>6. inflight' \in SUBSET NRequestType /\ sequence' \in Nat /\ sequence <= sequence'
    BY <1>2, <2>1, <2>4
  <2>7. NonceTypeOK'
    BY <1>1, <1>6, <1>7, <2>5, <2>6 DEF NonceTypeOK
  <2>8. ASSUME NEW q \in inflight'
        PROVE  \/ q \in inflight /\ q.seq < sequence
               \/ sent /\ q.seq = sequence /\ q.req = req /\ q.job = id /\ q = p
    BY <1>7, <2>1, <2>4 DEF Contexts
  <2>9. ASSUME NEW l \in DOMAIN upstreams', NEW r \in upstreams'[l].results
        PROVE  r = ctx \/ r \in upstreams[l].results
    <3>1. CASE l = k
      <4>1. r = ctx \/ r \in mp.results
        BY <2>5, <2>9, <3>1
      <4> QED BY <3>1, <4>1 DEF mp
    <3>2. CASE l # k
      BY <2>5, <2>9, <3>2
    <3> QED BY <3>1, <3>2
  <2>10. Contexts'
    <3>1. ASSUME NEW l \in DOMAIN upstreams', NEW r \in upstreams'[l].results
          PROVE  /\ r.seq < sequence'
                 /\ r.req \in DOMAIN shares' /\ r.miner = shares'[r.req].miner
                 /\ \A q \in inflight' : r.seq = q.seq => r.req = q.req
      <4>1. CASE r = ctx
        <5>1. \A q \in inflight : q.seq \in Nat /\ q.seq < sequence
          BY <1>2, <1>7 DEF Contexts, NRequestType
        <5>2. ASSUME NEW q \in inflight', r.seq = q.seq PROVE r.req = q.req
          BY <1>2, <2>2, <2>8, <4>1, <5>1, <5>2
        <5>3. r.seq < sequence'
          BY <1>2, <2>1, <2>2, <4>1
        <5> QED BY <1>6, <2>2, <4>1, <5>2, <5>3
      <4>2. CASE r \in upstreams[l].results
        <5>1. /\ r.seq < sequence /\ r.req \in DOMAIN shares /\ r.miner = shares[r.req].miner
              /\ \A q \in inflight : r.seq = q.seq => r.req = q.req
          BY <1>7, <2>5, <4>2 DEF Contexts
        <5>2. r.seq \in Int
          BY <1>2, <2>5, <4>2, MapperFields DEF ContextType
        <5>3. \A q \in inflight' : r.seq = q.seq => r.req = q.req
          BY <1>2, <2>8, <5>1, <5>2
        <5>4. r.seq < sequence'
          BY <1>2, <2>6, <5>1, <5>2
        <5> QED BY <1>6, <5>1, <5>3, <5>4
      <4> QED BY <2>9, <4>1, <4>2
    <3>2. ASSUME NEW q \in inflight'
          PROVE  q.seq < sequence' /\ q.req \in DOMAIN shares' /\ q.job \in DOMAIN jobs'
      <4>1. CASE q \in inflight
        <5>1. q.seq < sequence /\ q.seq \in Nat
          BY <1>2, <1>7, <4>1 DEF Contexts, NRequestType
        <5> QED BY <1>1, <1>2, <1>6, <1>7, <2>6, <4>1, <5>1 DEF Contexts
      <4>2. CASE q \notin inflight
        BY <1>1, <1>2, <1>6, <2>1, <2>8, <4>2
      <4> QED BY <4>1, <4>2
    <3> QED BY <3>1, <3>2 DEF Contexts
  <2>11. NonceRouting'
    <3>1. ASSUME NEW q \in inflight'
          PROVE  \/ jobs'[q.job] = q.session
                 \/ q.restored /\ ~q.donation /\ jobs'[q.job] < q.session
      BY <1>1, <1>7, <2>4, <2>8 DEF NonceRouting
    <3> QED BY <1>8, <3>1 DEF NonceRouting
  <2> QED BY <2>5, <2>7, <2>10, <2>11 DEF NonceInv, RouteInv
<1> QED BY <1>9, <1>10

LEMMA ResultInv ==
    ASSUME NonceInv, NEW p \in inflight, Result(p)
    PROVE  NonceInv'
<1>1. PICK k \in DOMAIN upstreams :
         LET ctx == {r \in upstreams[k].results : r.seq = p.seq}
         IN  /\ upstreams' = [upstreams EXCEPT ![k].results = @ \ ctx]
             /\ shares' = [shares EXCEPT ![p.req].answers = @ \cup
                  {<<r.miner, r.req, miner[r.miner].st = "in">> : r \in
                     {c \in ctx : c.miner \in upstreams[k].miners}}]
  BY DEF Result
<1>2. inflight' = inflight \ {p} /\ UNCHANGED <<miner, jobs, sessions, sequence, work>>
  BY DEF Result
<1>3. PICK mp : mp = upstreams[k]
  OBVIOUS
<1> DEFINE ctx    == {r \in mp.results : r.seq = p.seq}
           R      == mp.results \ ctx
           told   == {<<r.miner, r.req, miner[r.miner].st = "in">> : r \in
                        {c \in ctx : c.miner \in mp.miners}}
           share  == shares[p.req]
           now    == [share EXCEPT !.answers = @ \cup told]
<1>4. /\ upstreams' = [upstreams EXCEPT ![k].results = R]
      /\ shares' = [shares EXCEPT ![p.req] = now]
  BY <1>1, <1>3
<1>5. /\ mp \in MapperType /\ PlacedOK(k, mp) /\ FiledOK(mp)
      /\ Contexts /\ NonceRouting /\ NonceTypeOK
  BY <1>3, MapperFits DEF Fits, NonceInv, RouteInv
<1>6. /\ p.req \in DOMAIN shares /\ share \in NShareType
      /\ share.answers \subseteq {<<share.miner, p.req, TRUE>>}
      /\ shares \in Seq(NShareType) /\ p.req \in Nat
  <2>1. p.req \in DOMAIN shares
    BY <1>5 DEF Contexts
  <2>2. shares \in Seq(NShareType)
    BY <1>5 DEF NonceTypeOK
  <2>3. share \in NShareType /\ p.req \in Nat
    BY <2>1, <2>2
  <2>4. share.answers \subseteq {<<share.miner, p.req, TRUE>>}
    BY <1>5, <2>1 DEF NonceRouting
  <2> QED BY <2>1, <2>2, <2>3, <2>4
<1>7. told \subseteq {<<share.miner, p.req, TRUE>>}
  <2>1. ASSUME NEW r \in ctx, r.miner \in mp.miners
        PROVE  r.miner = share.miner /\ r.req = p.req /\ miner[r.miner].st = "in"
    BY <1>5, <2>1 DEF FiledOK, PlacedOK
  <2> HIDE DEF ctx, share
  <2> QED BY <2>1
<1>8. /\ now \in NShareType /\ now.miner = share.miner
      /\ now.answers \subseteq {<<share.miner, p.req, TRUE>>}
  <2> DEFINE all == share.answers \cup told
  <2>1. now = [share EXCEPT !.answers = all]
    OBVIOUS
  <2> HIDE DEF share, told, now
  <2>2. all \in SUBSET (Miners \X Nat \X BOOLEAN)
    <3>1. share.miner \in Miners
      BY <1>6 DEF NShareType
    <3>2. <<share.miner, p.req, TRUE>> \in Miners \X Nat \X BOOLEAN
      BY <1>6, <3>1
    <3>3. all \subseteq {<<share.miner, p.req, TRUE>>}
      BY <1>6, <1>7
    <3> QED BY <3>2, <3>3
  <2>3. all \subseteq {<<share.miner, p.req, TRUE>>}
    BY <1>6, <1>7
  <2> HIDE DEF all
  <2>4. now \in NShareType /\ now.miner = share.miner /\ now.answers = all
    BY <1>6, <2>1, <2>2 DEF NShareType
  <2> QED BY <2>3, <2>4
<1> HIDE DEF now
<1>9. /\ shares' \in Seq(NShareType) /\ DOMAIN shares' = DOMAIN shares
      /\ shares'[p.req] = now /\ \A r \in DOMAIN shares : r # p.req => shares'[r] = shares[r]
  <2> HIDE DEF share
  <2>1. shares' \in Seq(NShareType)
    BY <1>4, <1>6, <1>8
  <2>2. DOMAIN shares' = DOMAIN shares
    BY <1>4, <1>6
  <2> QED BY <1>4, <1>6, <2>1, <2>2
<1>10. \A r \in DOMAIN shares : shares'[r].miner = shares[r].miner
  BY <1>8, <1>9
<1>11. R \in SUBSET ContextType
  BY <1>5, MapperFields
<1> HIDE DEF ctx, told, share
<1>12. /\ upstreams' \in Seq(MapperType) /\ PlaceInv' /\ WorkInv' /\ Issued'
       /\ DOMAIN upstreams' = DOMAIN upstreams /\ upstreams'[k].results = R
       /\ \A l \in DOMAIN upstreams : l # k => upstreams'[l].results = upstreams[l].results
  <2> HIDE DEF R
  <2> QED BY <1>2, <1>4, <1>11, ResultsStep
<1>13. \A l \in DOMAIN upstreams : upstreams'[l].results \subseteq upstreams[l].results
  BY <1>3, <1>12
<1>14. NonceTypeOK'
  BY <1>2, <1>5, <1>9, <1>12 DEF NonceTypeOK
<1>15. Contexts'
  BY <1>2, <1>5, <1>9, <1>10, <1>12, <1>13 DEF Contexts
<1>16. NonceRouting'
  <2>1. \A r \in DOMAIN shares' : shares'[r].answers \subseteq {<<shares'[r].miner, r, TRUE>>}
    BY <1>5, <1>8, <1>9 DEF NonceRouting
  <2> QED BY <1>2, <1>5, <2>1 DEF NonceRouting
<1> QED BY <1>12, <1>14, <1>15, <1>16 DEF NonceInv, RouteInv

\* What gc makes of mapper k.
LEMMA GcShape ==
    ASSUME NonceInv, NEW k \in DOMAIN upstreams, NEW mp, mp = upstreams[k]
    PROVE  LET new == MapperGc(k, mp)
           IN  /\ Fits(k, new) /\ Held(new) = Held(mp) /\ new.results = mp.results
               /\ IsUsed(mp) => new = mp
               /\ new.suspended >= 2 => IsSuspended(mp)
               /\ ~IsSuspended(mp) => new.suspended < 2
<1> DEFINE new == MapperGc(k, mp)
<1>1. /\ mp \in MapperType /\ PlacedOK(k, mp) /\ KnownOK(mp) /\ OwnedOK(k, mp)
      /\ WorkOf(mp) /\ LinksOK(mp) /\ IssuedOK(mp) /\ FiledOK(mp)
  BY MapperFits DEF Fits
<1>2. /\ mp.suspended \in Nat /\ mp.used \in [Slots -> Int] /\ mp.miners \in SUBSET Miners
      /\ sessions \in Nat
  BY <1>1, MapperFields DEF NonceInv, NonceTypeOK
<1>3. CASE IsSuspended(mp)
  <2>1. new = [mp EXCEPT !.suspended = mp.suspended + 1]
    BY <1>3 DEF MapperGc
  <2> HIDE DEF new
  <2>2. /\ new \in MapperType /\ new.suspended = mp.suspended + 1
        /\ new.used = mp.used /\ new.miners = mp.miners /\ new.active = mp.active
        /\ new.donate = mp.donate /\ new.job = mp.job /\ new.prevJob = mp.prevJob
        /\ new.saved = mp.saved /\ new.strategy = mp.strategy /\ new.results = mp.results
    BY <1>1, <1>2, <2>1 DEF MapperType
  <2>3. PlacedOK(k, new) /\ ~IsUsed(mp)
    <3>1. k # 1 /\ \A b \in Slots : mp.used[b] = 0
      BY <1>1, <1>3 DEF PlacedOK
    <3>2. \A m \in mp.miners : miner[m].st = "in" /\ miner[m].mapper = k
      BY <1>1 DEF PlacedOK
    <3>3. PlacedOK(k, new)
      BY <2>2, <3>1, <3>2 DEF PlacedOK
    <3> QED BY <3>1, <3>3 DEF IsUsed
  <2>4. KnownOK(new) /\ OwnedOK(k, new) /\ Held(new) = Held(mp) /\ WorkOf(new)
    BY <1>1, <2>2 DEF KnownOK, OwnedOK, Held, WorkOf, Attached
  <2>5. LinksOK(new) /\ IssuedOK(new) /\ FiledOK(new)
    BY <1>1, <2>2 DEF LinksOK, IssuedOK, FiledOK
  <2> QED BY <1>3, <2>2, <2>3, <2>4, <2>5 DEF Fits, new
<1>4. CASE ~IsSuspended(mp) /\ (k = 1 \/ IsUsed(mp))
  <2>1. new = mp
    BY <1>4 DEF MapperGc
  <2> HIDE DEF new
  <2> QED BY <1>1, <1>2, <1>4, <2>1 DEF Fits, IsSuspended, new
<1>5. CASE ~IsSuspended(mp) /\ k # 1 /\ ~IsUsed(mp)
  <2> DEFINE none == [b \in Slots |-> 0]
             stop == [st |-> "stopped", session |-> 0]
  <2>1. new = [[mp EXCEPT !.used = none] EXCEPT !.suspended = 1, !.active = FALSE,
                  !.strategy = stop, !.donate = LinkOff]
    BY <1>5 DEF MapperGc, MapperSuspend, StorageReset, LinkOff
  <2>2. none \in [Slots -> Int] /\ stop \in PoolLinkType /\ LinkOff \in DonateLinkType
    BY DEF PoolLinkType, DonateLinkType, LinkOff
  <2>3. /\ \A b \in Slots : none[b] = 0
        /\ stop.st = "stopped" /\ stop.session = 0 /\ LinkOff.st = "off" /\ LinkOff.session = 0
    BY DEF LinkOff
  <2> HIDE DEF new, none, stop
  <2>4. /\ new \in MapperType /\ new.suspended = 1 /\ new.used = none
        /\ new.miners = mp.miners /\ new.active = FALSE
        /\ new.donate = LinkOff /\ new.job = mp.job /\ new.prevJob = mp.prevJob
        /\ new.saved = mp.saved /\ new.strategy = stop /\ new.results = mp.results
    BY <1>1, <2>1, <2>2 DEF MapperType
  <2>5. mp.miners = {}
    <3>1. ASSUME NEW m \in mp.miners PROVE FALSE
      <4>1. m \in Miners /\ miner[m].st = "in" /\ miner[m].mapper = k
        BY <1>1, <1>2 DEF PlacedOK
      <4>2. mp.used[miner[m].byte] = m /\ miner[m].byte \in Slots
        BY <4>1 DEF NonceInv, PlaceInv, MinersPlaced, NonceTypeOK, PlaceType
      <4>3. m > 0
        BY <4>1, SlotFacts
      <4> QED BY <1>5, <4>2, <4>3 DEF IsUsed
    <3> QED BY <3>1
  <2>6. PlacedOK(k, new)
    BY <1>5, <2>3, <2>4, <2>5 DEF PlacedOK
  <2>7. KnownOK(new) /\ OwnedOK(k, new) /\ Held(new) = Held(mp)
    BY <1>1, <2>4 DEF KnownOK, OwnedOK, Held
  <2>8. WorkOf(new)
    BY <2>3, <2>4 DEF WorkOf, Attached
  <2>9. LinksOK(new) /\ IssuedOK(new) /\ FiledOK(new)
    BY <1>1, <1>2, <2>3, <2>4 DEF LinksOK, IssuedOK, FiledOK
  <2> QED BY <1>5, <2>4, <2>6, <2>7, <2>8, <2>9 DEF Fits, new
<1> QED BY <1>3, <1>4, <1>5

\* The mappers that gc keeps: all up to the last one suspended for less than
\* two calls, so every mapper it deletes is suspended.
LEMMA GcKeeps ==
    ASSUME NonceInv, Gc
    PROVE  /\ DOMAIN upstreams' \subseteq DOMAIN upstreams
           /\ \A k \in DOMAIN upstreams' : upstreams'[k] = MapperGc(k, upstreams[k])
           /\ \A k \in DOMAIN upstreams : k \notin DOMAIN upstreams' => IsSuspended(upstreams[k])
           /\ upstreams' \in Seq(MapperType)
<1> DEFINE ups  == [k \in DOMAIN upstreams |-> MapperGc(k, upstreams[k])]
           keep == CHOOSE n \in 1..Len(ups) :
                      /\ ups[n].suspended < 2
                      /\ \A k \in (n + 1)..Len(ups) : ups[k].suspended >= 2
<1>1. upstreams' = SubSeq(ups, 1, keep) /\ upstreams # <<>>
  BY DEF Gc
<1>2. upstreams \in Seq(MapperType)
  BY DEF NonceInv, NonceTypeOK
<1>3. \A k \in DOMAIN upstreams :
         /\ MapperGc(k, upstreams[k]) \in MapperType
         /\ MapperGc(k, upstreams[k]).suspended >= 2 => IsSuspended(upstreams[k])
         /\ ~IsSuspended(upstreams[k]) => MapperGc(k, upstreams[k]).suspended < 2
  BY GcShape DEF Fits
<1>4. /\ ups \in Seq(MapperType) /\ Len(ups) = Len(upstreams) /\ Len(ups) \in Nat
      /\ DOMAIN ups = 1..Len(ups) /\ DOMAIN upstreams = 1..Len(ups) /\ 1 \in DOMAIN ups
      /\ \A k \in DOMAIN upstreams : ups[k] = MapperGc(k, upstreams[k])
  <2>1. DOMAIN upstreams = 1..Len(upstreams) /\ Len(upstreams) \in Nat /\ Len(upstreams) # 0
    BY <1>1, <1>2
  <2>2. \A k \in DOMAIN upstreams : ups[k] \in MapperType
    BY <1>3
  <2>3. ups \in Seq(MapperType) /\ Len(ups) = Len(upstreams)
    BY <2>1, <2>2
  <2> QED BY <2>1, <2>3
<1> HIDE DEF ups
<1>5. keep \in 1..Len(ups) /\ \A k \in (keep + 1)..Len(ups) : ups[k].suspended >= 2
  <2> DEFINE S == {n \in 1..Len(ups) : ups[n].suspended < 2}
  <2>1. 1 \in S
    <3>1. ~IsSuspended(upstreams[1])
      BY <1>1 DEF NonceInv, PlaceInv, Placement
    <3> QED BY <1>3, <1>4, <3>1
  <2>2. PICK n \in S : \A m \in S : m <= n
    <3>1. S \in SUBSET Nat /\ \A m \in S : m <= Len(ups)
      BY <1>4
    <3> QED BY <1>4, <2>1, <3>1, LargestElement
  <2>3. \A k \in (n + 1)..Len(ups) : ups[k].suspended >= 2
    <3>1. TAKE k \in (n + 1)..Len(ups)
    <3>2. k \in 1..Len(ups) /\ ~(k <= n)
      BY <1>4
    <3>3. ~(ups[k].suspended < 2)
      BY <2>2, <3>2
    <3>4. ups[k].suspended \in Nat
      BY <1>4, <3>2, MapperFields
    <3> QED BY <3>3, <3>4
  <2>4. \E x \in 1..Len(ups) :
           /\ ups[x].suspended < 2
           /\ \A k \in (x + 1)..Len(ups) : ups[k].suspended >= 2
    BY <2>2, <2>3
  <2> QED BY <2>4
<1> HIDE DEF keep
<1>6. /\ upstreams' \in Seq(MapperType) /\ DOMAIN upstreams' = 1..keep
      /\ \A k \in 1..keep : upstreams'[k] = ups[k]
  <2>1. keep \in Nat /\ keep <= Len(ups)
    BY <1>4, <1>5
  <2>2. SubSeq(ups, 1, keep) \in Seq(MapperType) /\ Len(SubSeq(ups, 1, keep)) = keep
    BY <1>4, <2>1
  <2>3. \A k \in 1..keep : SubSeq(ups, 1, keep)[k] = ups[k]
    BY <1>4, <2>1
  <2> QED BY <1>1, <2>1, <2>2, <2>3
<1>7. ASSUME NEW k \in DOMAIN upstreams, k \notin DOMAIN upstreams'
      PROVE  IsSuspended(upstreams[k])
  <2>1. k \in (keep + 1)..Len(ups)
    BY <1>4, <1>5, <1>6, <1>7
  <2> QED BY <1>3, <1>4, <1>5, <2>1
<1>8. 1..keep \subseteq DOMAIN upstreams
  BY <1>4, <1>5
<1> QED BY <1>4, <1>6, <1>7, <1>8

LEMMA GcInv ==
    ASSUME NonceInv, Gc
    PROVE  NonceInv'
<1>1. /\ DOMAIN upstreams' \subseteq DOMAIN upstreams /\ upstreams' \in Seq(MapperType)
      /\ \A k \in DOMAIN upstreams' : upstreams'[k] = MapperGc(k, upstreams[k])
      /\ \A k \in DOMAIN upstreams : k \notin DOMAIN upstreams' => IsSuspended(upstreams[k])
  BY GcKeeps
<1>2. /\ work' \subseteq work /\ inflight' \subseteq inflight
      /\ UNCHANGED <<miner, jobs, sessions, sequence, shares>>
  BY DEF Gc, Live
<1>3. \A k \in DOMAIN upstreams' :
         /\ Fits(k, upstreams'[k]) /\ Held(upstreams'[k]) = Held(upstreams[k])
         /\ upstreams'[k].results = upstreams[k].results
         /\ IsUsed(upstreams[k]) => upstreams'[k] = upstreams[k]
  BY <1>1, GcShape
<1>4. NonceTypeOK /\ MinersPlaced /\ JobsKnown /\ JobsOwned /\ WorkKept /\ DisjointWork
      /\ Contexts /\ NonceRouting
  BY DEF NonceInv, PlaceInv, WorkInv, RouteInv
<1>5. NonceTypeOK'
  BY <1>1, <1>2, <1>4 DEF NonceTypeOK
<1>6. PlaceInv'
  <2>1. \A k \in DOMAIN upstreams' : PlacedOK(k, upstreams'[k])
    BY <1>3 DEF Fits
  <2>2. upstreams' # <<>> => 1 \in DOMAIN upstreams'
    BY <1>1
  <2>3. Placement'
    BY <1>2, <2>1, <2>2 DEF Placement, PlacedOK, ByteOf, IsSuspended
  <2>4. ASSUME NEW m \in Miners, miner[m].st = "in"
        PROVE  LET k == miner[m].mapper
               IN  k \in DOMAIN upstreams' /\ upstreams'[k] = upstreams[k]
    <3>1. PICK k : k = miner[m].mapper
      OBVIOUS
    <3>2. /\ k \in DOMAIN upstreams /\ ~IsSuspended(upstreams[k])
          /\ upstreams[k].used[miner[m].byte] = m /\ miner[m].byte \in Slots /\ m > 0
      BY <1>4, <2>4, <3>1, SlotFacts DEF MinersPlaced, NonceTypeOK, PlaceType
    <3>3. IsUsed(upstreams[k])
      BY <3>2 DEF IsUsed
    <3> QED BY <1>1, <1>3, <3>1, <3>2, <3>3
  <2>5. MinersPlaced'
    BY <1>2, <1>4, <2>4 DEF MinersPlaced, IsSuspended
  <2> QED BY <2>3, <2>5 DEF PlaceInv
<1>7. WorkInv'
  <2>1. JobsKnown'
    BY <1>2, <1>3, <1>4 DEF JobsKnown, Fits, KnownOK, JobKnown
  <2>2. JobsOwned'
    BY <1>1, <1>3, <1>4 DEF JobsOwned, Held
  <2>3. \A k \in DOMAIN upstreams' : WorkOf(upstreams[k])'
    BY <1>2, <1>3 DEF Fits, WorkOf, Attached
  <2>4. WorkKept'
    BY <1>2, <1>4, <2>3 DEF WorkKept
  <2>5. DisjointWork'
    BY <1>2, <1>4 DEF DisjointWork
  <2> QED BY <2>1, <2>2, <2>4, <2>5 DEF WorkInv
<1>8. Issued'
  BY <1>2, <1>3 DEF Issued, Fits, LinksOK, IssuedOK
<1>9. Contexts'
  BY <1>1, <1>2, <1>3, <1>4 DEF Contexts
<1>10. NonceRouting'
  BY <1>2, <1>4 DEF NonceRouting
<1> QED BY <1>5, <1>6, <1>7, <1>8, <1>9, <1>10 DEF NonceInv, RouteInv

(***************************************************************************)
(* The theorems                                                            *)
(***************************************************************************)

LEMMA NonceInvInit == NonceInit => NonceInv
<1> SUFFICES ASSUME NonceInit PROVE NonceInv
  OBVIOUS
<1> USE DEF NonceInit
<1>1. NonceTypeOK
  BY SlotFacts DEF NonceTypeOK, PlaceType
<1>2. PlaceInv
  BY DEF PlaceInv, Placement, MinersPlaced
<1>3. WorkInv
  BY DEF WorkInv, JobsKnown, JobsOwned, WorkKept, DisjointWork
<1>4. RouteInv
  BY DEF RouteInv, Issued, Contexts, NonceRouting
<1> QED BY <1>1, <1>2, <1>3, <1>4 DEF NonceInv

LEMMA NonceInvNext ==
    ASSUME NonceInv, NonceNext
    PROVE  NonceInv'
<1>1. CASE Start
  BY <1>1, StartInv
<1>2. CASE Gc
  BY <1>2, GcInv
<1>3. ASSUME NEW m \in Miners, Login(m) PROVE NonceInv'
  BY <1>3, LoginInv
<1>4. ASSUME NEW m \in Miners, Remove(m) PROVE NonceInv'
  BY <1>4, RemoveInv
<1>5. ASSUME NEW m \in Miners, NEW id \in DOMAIN jobs, NEW sameAlgo \in BOOLEAN,
             NEW sent \in BOOLEAN, Submit(m, id, sameAlgo, sent)
      PROVE  NonceInv'
  BY <1>5, SubmitInv
<1>6. ASSUME NEW k \in DOMAIN upstreams, PoolStep(k) PROVE NonceInv'
  BY <1>6, PoolStepInv
<1>7. ASSUME NEW p \in inflight, Result(p) PROVE NonceInv'
  BY <1>7, ResultInv
<1> QED BY <1>1, <1>2, <1>3, <1>4, <1>5, <1>6, <1>7, Zenon DEF NonceNext, PoolStep

LEMMA NonceInvStutter ==
    ASSUME NonceInv, UNCHANGED nonceVars
    PROVE  NonceInv'
<1> USE DEF nonceVars
<1>1. NonceTypeOK'
  BY DEF NonceInv, NonceTypeOK
<1>2. PlaceInv'
  BY DEF NonceInv, PlaceInv, Placement, ByteOf, MinersPlaced
<1>3. WorkInv'
  BY DEF NonceInv, WorkInv, JobsKnown, JobKnown, JobsOwned, WorkKept, WorkOf, Attached, DisjointWork
<1>4. RouteInv'
  BY DEF NonceInv, RouteInv, Issued, LinksOK, IssuedOK, Contexts, NonceRouting
<1> QED BY <1>1, <1>2, <1>3, <1>4 DEF NonceInv

\* The inductive invariant holds however the pools, the miners, the garbage
\* collection of mappers and the donations interleave.
THEOREM NonceInvariance == NonceSpec => []NonceInv
<1>1. NonceInv /\ [NonceNext]_nonceVars => NonceInv'
  BY NonceInvNext, NonceInvStutter
<1> QED BY <1>1, NonceInvInit, PTL DEF NonceSpec

\* No two miners search the same part of the nonce space of one job: a byte that
\* NonceStorage::remove frees is given away after the next job only (setJob),
\* whatever suspend, reset, connect and the jobs a donation saved do in between.
THEOREM DisjointWorkTheorem == NonceSpec => []DisjointWork
<1>1. NonceInv => DisjointWork
  BY DEF NonceInv, WorkInv
<1> QED BY <1>1, NonceInvariance, PTL

\* The mapper id and the byte of a connected miner name a mapper in use whose
\* storage holds the miner on that byte, so NonceSplitter::submit and remove may
\* index m_upstreams with it, whatever gc has deleted.
THEOREM MinersPlacedTheorem == NonceSpec => []MinersPlaced
<1>1. NonceInv => MinersPlaced
  BY DEF NonceInv, PlaceInv
<1> QED BY <1>1, NonceInvariance, PTL

\* A share goes to the connection that issued its job, save for a job that a
\* donation had saved, and its answer to the miner that submitted it, under
\* the id of its request (NonceMapper::submit, onResultAccepted).
THEOREM NonceRoutingTheorem == NonceSpec => []NonceRouting
<1>1. NonceInv => NonceRouting
  BY DEF NonceInv, RouteInv
<1> QED BY <1>1, NonceInvariance, PTL

(***************************************************************************)
(* The simple mode                                                         *)
(***************************************************************************)

SJobType == [id : Nat, client : Nat, via : {"none", "pool", "donate"}]

SMapperType ==
    [miner : Conns \cup {0}, active : BOOLEAN, dirty : BOOLEAN, job : SJobType,
     history : Seq(SJobType), idle : Nat, client : Nat, donate : Nat]

ConnType == [st : {"none", "connected", "in", "closing", "closed"}, mapper : Int]

PendingType ==
    [mapper : Nat, via : {"none", "pool", "donate"}, job : Nat, client : Nat, issuer : Nat,
     req : Nat]

StatsType == [connections : Int, accepted : Int, rejected : Int, invalid : Int]

\* The types of the state of the simple mode.
SimpleTypeOK ==
    /\ config \in [daemon : BOOLEAN, reuse : {0, 1}, donate : BOOLEAN]
    /\ conn \in [Conns -> ConnType]
    /\ supstreams \in [DOMAIN supstreams -> SMapperType]
    /\ DOMAIN supstreams \in SUBSET Nat
    /\ mapperSeq \in Nat /\ sjobs \in Nat
    /\ pending \in SUBSET PendingType
    /\ sshares \in Seq([miner : Conns, answered : SUBSET Conns])
    /\ swork \in SUBSET (Nat \X Conns)
    /\ stats \in StatsType
    /\ workers \in [{Worker(m) : m \in Conns} -> Int]

\* A miner with a mapper holds it until its close event, and a mapper's miner
\* is such a miner; ids of mappers are not used twice.
Mapped ==
    /\ \A m \in Conns :
          /\ conn[m].st \in {"none", "connected"} => conn[m].mapper = -1
          /\ conn[m].st = "in" => conn[m].mapper # -1
          /\ conn[m].st \in {"in", "closing"} /\ conn[m].mapper # -1 =>
                conn[m].mapper \in DOMAIN supstreams /\ supstreams[conn[m].mapper].miner = m
    /\ \A k \in DOMAIN supstreams :
          /\ k < mapperSeq
          /\ supstreams[k].miner # 0 => /\ conn[supstreams[k].miner].st \in {"in", "closing"}
                                        /\ conn[supstreams[k].miner].mapper = k
    /\ \A k \in released : k \in Nat /\ k < mapperSeq

\* The jobs of a mapper are of one client; unless that connection is gone, it
\* is the client that a share of the job is sent with.
JobsOfOne(mp) ==
    /\ mp.job # SNoJob => /\ mp.job.id \in 1..sjobs /\ mp.job.client \in 1..sjobs
                          /\ mp.job.via \in {"pool", "donate"}
                          /\ ClientOf(mp, mp.job.via) \in {0, mp.job.client}
    /\ \A i \in DOMAIN mp.history :
          mp.job # SNoJob /\ mp.history[i].via = mp.job.via /\ mp.history[i].client = mp.job.client
    /\ mp.donate # 0 => mp.job.via = "donate"
    /\ ~config.donate => mp.job.via # "donate"
    /\ mp.client <= sjobs /\ mp.donate <= sjobs

SimpleJobs ==
    /\ \A k \in DOMAIN supstreams : JobsOfOne(supstreams[k])
    /\ \A k, l \in DOMAIN supstreams :
          k # l /\ supstreams[k].job.id = supstreams[l].job.id => supstreams[k].job.id = 0

\* The job of a mapper that may be given away was sent to nobody.
SimpleWork ==
    /\ \A w \in swork : w[1] \in 1..sjobs
    /\ \A k \in DOMAIN supstreams : supstreams[k].miner = 0 /\ ~supstreams[k].dirty =>
          \A w \in swork : w[1] # supstreams[k].job.id
    /\ OneMinerPerJob

\* With daemons alone, the mapper of a submission without a result is not given
\* to another miner.
SimpleRequests ==
    /\ \A p \in pending :
          /\ p.mapper \in DOMAIN supstreams /\ p.req \in DOMAIN sshares
          /\ config.daemon /\ ~config.donate =>
                /\ supstreams[p.mapper].job.via = "pool"
                /\ supstreams[p.mapper].miner \in {0, sshares[p.req].miner}
    /\ SimpleRouting

SimpleCounts ==
    /\ \A m \in overwritten : m \in Conns /\ conn[m].st = "closed"
    /\ CountsExact

SimpleInv ==
    /\ SimpleTypeOK /\ Mapped /\ MappersAgree /\ SimpleJobs /\ SimpleWork
    /\ SimpleRequests /\ SimpleCounts

LEMMA ConnFacts ==
    /\ SMiners \in Nat /\ SMiners # 0 /\ HistorySize \in Nat /\ HistorySize # 0
    /\ Conns \subseteq Nat /\ 0 \notin Conns /\ IsFiniteSet(Conns)
<1>1. SMiners \in Nat \ {0} /\ HistorySize \in Nat \ {0}
  BY SimpleAssumption
<1>2. IsFiniteSet(1..SMiners)
  BY <1>1, FS_Interval
<1> QED BY <1>1, <1>2 DEF Conns

LEMMA SimpleFields ==
    ASSUME NEW mp \in SMapperType
    PROVE  /\ mp.miner \in Conns \cup {0} /\ mp.active \in BOOLEAN /\ mp.dirty \in BOOLEAN
           /\ mp.job \in SJobType /\ mp.history \in Seq(SJobType)
           /\ mp.idle \in Nat /\ mp.client \in Nat /\ mp.donate \in Nat
BY DEF SMapperType

\* A step of the miners that leaves the mappers alone: what else it may change.
ConnsOnly ==
    UNCHANGED <<config, supstreams, idles, released, mapperSeq, sjobs, pending, sshares, swork>>

LEMMA ConnsOnlyInv ==
    ASSUME SimpleInv, ConnsOnly
    PROVE  SimpleJobs' /\ SimpleWork' /\ SimpleRequests'
<1>1. SimpleJobs /\ SimpleWork /\ SimpleRequests
  BY DEF SimpleInv
<1>2. SimpleJobs'
  BY <1>1 DEF SimpleJobs, JobsOfOne, ClientOf, ConnsOnly
<1>3. SimpleWork'
  BY <1>1 DEF SimpleWork, OneMinerPerJob, ConnsOnly
<1>4. SimpleRequests'
  BY <1>1 DEF SimpleRequests, SimpleRouting, ConnsOnly
<1> QED BY <1>2, <1>3, <1>4

\* Open and the miners that a worker counts, by the state of the connections.
Counted(w) == {m \in Open \cup overwritten : Worker(m) = w /\ conn[m].mapper # -1}

LEMMA CountSets ==
    ASSUME SimpleInv
    PROVE  /\ Open \subseteq Conns /\ IsFiniteSet(Open)
           /\ overwritten \subseteq Conns /\ IsFiniteSet(overwritten)
           /\ \A w : Counted(w) \subseteq Conns /\ IsFiniteSet(Counted(w))
           /\ Open \cap overwritten = {}
           /\ stats.connections = Cardinality(Open) + Cardinality(overwritten)
           /\ \A w \in DOMAIN workers : workers[w] = Cardinality(Counted(w))
<1>1. Open \subseteq Conns /\ overwritten \subseteq Conns
  BY DEF Open, SimpleInv, SimpleCounts
<1>2. \A w : Counted(w) \subseteq Conns
  BY <1>1 DEF Counted
<1>3. Open \cap overwritten = {}
  BY DEF Open, SimpleInv, SimpleCounts
<1>4. IsFiniteSet(Open) /\ IsFiniteSet(overwritten) /\ \A w : IsFiniteSet(Counted(w))
  BY <1>1, <1>2, ConnFacts, FS_Subset
<1>5. CountsExact
  BY DEF SimpleInv, SimpleCounts
<1> QED BY <1>1, <1>2, <1>3, <1>4, <1>5 DEF CountsExact, Counted

\* A step that counts nothing: nobody connects, logs in or is closed.
LEMMA NothingCounted ==
    ASSUME SimpleInv, Open' = Open, UNCHANGED <<overwritten, workers>>,
           stats'.connections = stats.connections,
           \A m \in Conns : /\ conn'[m].mapper = conn[m].mapper
                            /\ conn[m].st = "closed" => conn'[m].st = "closed"
    PROVE  SimpleCounts'
<1>1. \A w : {m \in Open \cup overwritten : Worker(m) = w /\ conn[m].mapper # -1}
           = {m \in Open' \cup overwritten' : Worker(m) = w /\ conn'[m].mapper # -1}
  BY CountSets
<1>2. CountsExact'
  BY <1>1 DEF CountsExact, SimpleInv, SimpleCounts
<1> QED BY <1>2 DEF SimpleInv, SimpleCounts

LEMMA ConnectionInv ==
    ASSUME SimpleInv, NEW m \in Conns, Connection(m)
    PROVE  SimpleInv'
<1>1. /\ conn[m].st = "none" /\ conn' = [conn EXCEPT ![m].st = "connected"]
      /\ stats' = [stats EXCEPT !.connections = @ + 1]
      /\ ConnsOnly /\ UNCHANGED <<workers, overwritten>>
  BY DEF Connection, ConnsOnly
<1>2. SimpleTypeOK /\ Mapped /\ MappersAgree
  BY DEF SimpleInv
<1>3. conn \in [Conns -> ConnType] /\ stats \in StatsType
  BY <1>2 DEF SimpleTypeOK
<1>4. /\ conn' \in [Conns -> ConnType] /\ conn'[m].st = "connected"
      /\ conn'[m].mapper = conn[m].mapper
      /\ \A l \in Conns : l # m => conn'[l] = conn[l]
  BY <1>1, <1>3 DEF ConnType
<1>5. stats' \in StatsType /\ stats'.connections = stats.connections + 1
  BY <1>1, <1>3 DEF StatsType
<1>6. SimpleTypeOK'
  BY <1>1, <1>2, <1>4, <1>5 DEF SimpleTypeOK, ConnsOnly
<1>7. Mapped'
  BY <1>1, <1>2, <1>4 DEF Mapped, ConnsOnly
<1>8. MappersAgree'
  BY <1>1, <1>2, <1>4 DEF MappersAgree, ConnsOnly
<1>9. Open' = Open \cup {m} /\ m \notin Open
  BY <1>1, <1>4 DEF Open
<1>10. Cardinality(Open') = Cardinality(Open) + 1
  BY <1>9, CountSets, FS_AddElement
<1>11. \A w : Counted(w)' = Counted(w)
  <2>1. conn[m].mapper = -1 /\ m \notin overwritten
    BY <1>1, <1>2 DEF Mapped, SimpleInv, SimpleCounts
  <2>2. \A l \in Open \cup overwritten : l \in Conns
    BY CountSets
  <2> QED BY <1>1, <1>4, <1>9, <2>1, <2>2 DEF Counted
<1>12. CountsExact'
  <2>1. Cardinality(Open) \in Nat /\ Cardinality(overwritten) \in Nat
    BY CountSets, FS_CardinalityType
  <2>2. stats'.connections = Cardinality(Open') + Cardinality(overwritten')
    BY <1>1, <1>5, <1>10, <2>1, CountSets
  <2>3. \A w \in DOMAIN workers' : workers'[w] = Cardinality(Counted(w)')
    BY <1>1, <1>11, CountSets
  <2> QED BY <2>2, <2>3 DEF CountsExact, Counted
<1>13. SimpleCounts'
  BY <1>1, <1>4, <1>12 DEF SimpleInv, SimpleCounts
<1> QED BY <1>1, <1>6, <1>7, <1>8, <1>13, ConnsOnlyInv DEF SimpleInv

\* A connection that begins to close, before or after its login.
LEMMA ClosingInv ==
    ASSUME SimpleInv, NEW m \in Conns, conn[m].st \in {"connected", "in"},
           conn' = [conn EXCEPT ![m].st = "closing"], ConnsOnly,
           UNCHANGED <<stats, workers, overwritten>>
    PROVE  SimpleInv'
<1>1. SimpleTypeOK /\ Mapped /\ MappersAgree
  BY DEF SimpleInv
<1>2. conn \in [Conns -> ConnType]
  BY <1>1 DEF SimpleTypeOK
<1>3. /\ conn' \in [Conns -> ConnType] /\ conn'[m].st = "closing"
      /\ \A l \in Conns : conn'[l].mapper = conn[l].mapper /\ (l # m => conn'[l] = conn[l])
  BY <1>2 DEF ConnType
<1>4. SimpleTypeOK'
  BY <1>1, <1>3 DEF SimpleTypeOK, ConnsOnly
<1>5. Mapped'
  <2>1. ASSUME NEW l \in Conns
        PROVE  /\ conn'[l].st \in {"none", "connected"} => conn'[l].mapper = -1
               /\ conn'[l].st = "in" => conn'[l].mapper # -1
               /\ conn'[l].st \in {"in", "closing"} /\ conn'[l].mapper # -1 =>
                     conn'[l].mapper \in DOMAIN supstreams /\ supstreams[conn'[l].mapper].miner = l
    <3>1. CASE l = m
      BY <1>1, <1>3, <3>1 DEF Mapped
    <3>2. CASE l # m
      BY <1>1, <1>3, <3>2 DEF Mapped
    <3> QED BY <3>1, <3>2
  <2>2. ASSUME NEW k \in DOMAIN supstreams, supstreams[k].miner # 0
        PROVE  /\ conn'[supstreams[k].miner].st \in {"in", "closing"}
               /\ conn'[supstreams[k].miner].mapper = k
    <3>1. supstreams[k].miner \in Conns
      BY <1>1, <2>2, SimpleFields DEF SimpleTypeOK
    <3>2. conn[supstreams[k].miner].st \in {"in", "closing"} /\ conn[supstreams[k].miner].mapper = k
      BY <1>1, <2>2 DEF Mapped
    <3> QED BY <1>3, <3>1, <3>2
  <2> QED BY <1>1, <2>1, <2>2 DEF Mapped, ConnsOnly
<1>6. MappersAgree'
  BY <1>1, <1>3 DEF MappersAgree, ConnsOnly
<1>7. Open' = Open
  BY <1>3 DEF Open
<1>8. SimpleCounts'
  BY <1>3, <1>7, NothingCounted
<1> QED BY <1>4, <1>5, <1>6, <1>8, ConnsOnlyInv DEF SimpleInv

\* A step that changes what mapper k is connected to, and not its miner.
Rewired(k, new) ==
    /\ new \in SMapperType /\ new.miner = supstreams[k].miner
    /\ supstreams' = [supstreams EXCEPT ![k] = new]
    /\ UNCHANGED <<config, conn, idles, released, mapperSeq, stats, workers, overwritten>>

LEMMA RewiredInv ==
    ASSUME SimpleInv, NEW k \in DOMAIN supstreams, NEW new, Rewired(k, new)
    PROVE  /\ Mapped' /\ MappersAgree' /\ SimpleCounts'
           /\ supstreams' \in [DOMAIN supstreams' -> SMapperType]
           /\ DOMAIN supstreams' = DOMAIN supstreams /\ supstreams'[k] = new
           /\ \A l \in DOMAIN supstreams : l # k => supstreams'[l] = supstreams[l]
           /\ \A l \in DOMAIN supstreams : supstreams'[l].miner = supstreams[l].miner
<1>1. SimpleTypeOK /\ Mapped /\ MappersAgree
  BY DEF SimpleInv
<1>2. supstreams \in [DOMAIN supstreams -> SMapperType]
  BY <1>1 DEF SimpleTypeOK
<1>3. /\ DOMAIN supstreams' = DOMAIN supstreams /\ supstreams'[k] = new
      /\ \A l \in DOMAIN supstreams : l # k => supstreams'[l] = supstreams[l]
      /\ supstreams' \in [DOMAIN supstreams' -> SMapperType]
  BY <1>2 DEF Rewired
<1>4. \A l \in DOMAIN supstreams : supstreams'[l].miner = supstreams[l].miner
  BY <1>3 DEF Rewired
<1>5. Mapped'
  BY <1>1, <1>3, <1>4 DEF Mapped, Rewired
<1>6. MappersAgree'
  BY <1>1, <1>3, <1>4 DEF MappersAgree, Rewired
<1>7. SimpleCounts'
  BY NothingCounted DEF Rewired, Open
<1> QED BY <1>3, <1>4, <1>5, <1>6, <1>7

LEMMA SetJobFacts ==
    ASSUME NEW mp \in SMapperType, NEW job \in SJobType
    PROVE  LET new == SetJob(mp, job)
           IN  /\ new \in SMapperType /\ new.job = job /\ ~new.dirty
               /\ new.miner = mp.miner /\ new.active = mp.active /\ new.idle = mp.idle
               /\ new.client = mp.client /\ new.donate = mp.donate
               /\ \A i \in DOMAIN new.history :
                     /\ mp.job # SNoJob /\ mp.job.via = job.via /\ mp.job.client = job.client
                     /\ \/ new.history[i] = mp.job
                        \/ \E l \in DOMAIN mp.history : new.history[i] = mp.history[l]
<1> DEFINE same == mp.job # SNoJob /\ mp.job.via = job.via /\ mp.job.client = job.client
           all  == <<mp.job>> \o mp.history
           n    == IF Len(all) > HistorySize THEN HistorySize ELSE Len(all)
           hist == IF same THEN SubSeq(all, 1, n) ELSE <<>>
<1>1. SetJob(mp, job) = [mp EXCEPT !.history = hist, !.job = job, !.dirty = FALSE]
  BY DEF SetJob
<1>2. mp.job \in SJobType /\ mp.history \in Seq(SJobType)
  BY SimpleFields
<1>3. /\ all \in Seq(SJobType) /\ Len(all) = Len(mp.history) + 1 /\ all[1] = mp.job
      /\ \A i \in 2..Len(all) : all[i] = mp.history[i - 1]
      /\ DOMAIN mp.history = 1..Len(mp.history) /\ Len(mp.history) \in Nat
  BY <1>2
<1>4. HistorySize \in Nat
  BY ConnFacts
<1> HIDE DEF all
<1>5. n \in Nat /\ n <= Len(all)
  BY <1>3, <1>4
<1> HIDE DEF n
<1>6. /\ SubSeq(all, 1, n) \in Seq(SJobType) /\ DOMAIN SubSeq(all, 1, n) = 1..n
      /\ \A i \in 1..n : SubSeq(all, 1, n)[i] = all[i]
  BY <1>3, <1>5
<1>7. hist \in Seq(SJobType)
  BY <1>6
<1>8. ASSUME NEW i \in DOMAIN hist
      PROVE  same /\ (hist[i] = mp.job \/ \E l \in DOMAIN mp.history : hist[i] = mp.history[l])
  <2>1. same /\ i \in 1..n /\ hist[i] = all[i]
    BY <1>6, <1>8
  <2> HIDE DEF hist, same
  <2>2. CASE i = 1
    BY <1>3, <2>1, <2>2
  <2>3. CASE i # 1
    <3>1. i \in 2..Len(all) /\ i - 1 \in DOMAIN mp.history
      BY <1>3, <1>5, <2>1, <2>3
    <3> QED BY <1>3, <2>1, <3>1
  <2> QED BY <2>2, <2>3
<1> HIDE DEF hist
<1>9. [mp EXCEPT !.history = hist, !.job = job, !.dirty = FALSE] \in SMapperType
  BY <1>7 DEF SMapperType
<1> QED BY <1>1, <1>8, <1>9 DEF SMapperType

\* The jobs of the mappers have ids of their own, and none of them is new.
LEMMA SimpleJobIds ==
    ASSUME SimpleInv
    PROVE  /\ sjobs \in Nat
           /\ \A k \in DOMAIN supstreams :
                 /\ supstreams[k] \in SMapperType /\ supstreams[k].job.id \in 0..sjobs
                 /\ supstreams[k].job = SNoJob <=> supstreams[k].job.id = 0
<1>1. SimpleTypeOK /\ SimpleJobs
  BY DEF SimpleInv
<1>2. sjobs \in Nat /\ \A k \in DOMAIN supstreams : supstreams[k] \in SMapperType
  BY <1>1 DEF SimpleTypeOK
<1>3. \A k \in DOMAIN supstreams : JobsOfOne(supstreams[k])
  BY <1>1 DEF SimpleJobs
<1> QED BY <1>2, <1>3 DEF JobsOfOne, SNoJob

LEMMA JobsStay ==
    ASSUME NEW o \in SMapperType, JobsOfOne(o), sjobs \in Nat, sjobs' \in Nat,
           sjobs <= sjobs', UNCHANGED config
    PROVE  JobsOfOne(o)'
<1>1. o.job \in SJobType /\ o.client \in Nat /\ o.donate \in Nat
  BY SimpleFields
<1> QED BY <1>1 DEF JobsOfOne, ClientOf

LEMMA MapperJobInv ==
    ASSUME SimpleInv, NEW k \in DOMAIN supstreams, NEW via \in {"pool", "donate"},
           NEW over \in BOOLEAN, MapperJob(k, via, over)
    PROVE  SimpleInv'
<1>1. PICK mp : mp = supstreams[k]
  OBVIOUS
<1> DEFINE first == ClientOf(mp, via) = 0
           c     == IF first THEN sjobs + 1 ELSE ClientOf(mp, via)
           cl    == IF via = "pool" THEN c ELSE mp.client
           do    == IF via = "donate" THEN c ELSE IF over THEN 0 ELSE mp.donate
           act   == IF first THEN TRUE ELSE mp.active
           up    == [mp EXCEPT !.active = act, !.client = cl, !.donate = do]
           drop  == via = "pool" /\ mp.donate # 0 /\ ~over
           j     == [id |-> sjobs + 1, client |-> c, via |-> via]
           new   == IF drop THEN up ELSE SetJob(up, j)
<1>2. /\ via = "donate" => config.donate
      /\ sjobs' = sjobs + 1
      /\ over => via = "pool" /\ mp.donate # 0
      /\ supstreams' = [supstreams EXCEPT ![k] = new]
      /\ swork' = IF drop \/ mp.miner = 0 THEN swork ELSE swork \cup {<<sjobs + 1, mp.miner>>}
      /\ pending' \subseteq pending
      /\ UNCHANGED <<config, conn, idles, released, mapperSeq, sshares, stats, workers, overwritten>>
  BY <1>1 DEF MapperJob
<1>3. /\ mp \in SMapperType /\ JobsOfOne(mp) /\ sjobs \in Nat
      /\ SimpleTypeOK /\ SimpleJobs /\ SimpleWork /\ SimpleRequests
  BY <1>1 DEF SimpleInv, SimpleTypeOK, SimpleJobs
<1>4. /\ mp.client \in Nat /\ mp.donate \in Nat /\ mp.active \in BOOLEAN
      /\ mp.client <= sjobs /\ mp.donate <= sjobs
  BY <1>3, SimpleFields DEF JobsOfOne
<1>5. c \in 1..(sjobs + 1) /\ (via = "pool" => cl = c) /\ (via = "donate" => do = c)
  BY <1>3, <1>4 DEF ClientOf
<1>6. j \in SJobType /\ j.id = sjobs + 1 /\ j.client = c /\ j.via = via /\ j # SNoJob
  BY <1>3, <1>5 DEF SJobType, SNoJob
<1>7. cl \in Nat /\ do \in Nat /\ act \in BOOLEAN /\ cl <= sjobs + 1 /\ do <= sjobs + 1
  <2> HIDE DEF c, first
  <2>1. act \in BOOLEAN
    <3>1. CASE first
      BY <3>1
    <3>2. CASE ~first
      BY <1>4, <3>2
    <3> QED BY <3>1, <3>2
  <2> HIDE DEF act
  <2> QED BY <1>3, <1>4, <1>5, <2>1
<1>8. via = "pool" /\ ~drop => do = 0
  BY <1>2
<1>9. via = "pool" /\ drop => do = mp.donate
  OBVIOUS
<1> HIDE DEF c, cl, do, act, j, first
<1>10. /\ up \in SMapperType /\ up.client = cl /\ up.donate = do /\ up.miner = mp.miner
       /\ up.job = mp.job /\ up.history = mp.history /\ up.dirty = mp.dirty
  BY <1>3, <1>7 DEF SMapperType
<1> HIDE DEF up
<1>11. /\ new \in SMapperType /\ new.miner = mp.miner /\ new.client = cl /\ new.donate = do
       /\ ~drop => /\ new.job = j /\ ~new.dirty
                   /\ \A i \in DOMAIN new.history :
                         /\ mp.job # SNoJob /\ mp.job.via = j.via /\ mp.job.client = j.client
                         /\ \/ new.history[i] = mp.job
                            \/ \E l \in DOMAIN mp.history : new.history[i] = mp.history[l]
       /\ drop => new.job = mp.job /\ new.history = mp.history /\ new.dirty = mp.dirty
  <2>1. CASE drop
    BY <1>10, <2>1
  <2>2. CASE ~drop
    BY <1>6, <1>10, <2>2, SetJobFacts
  <2> QED BY <2>1, <2>2
<1> HIDE DEF new
<1>12. PICK nw, nj : nw = new /\ nj = j
  OBVIOUS
<1>13. Rewired(k, nw)
  BY <1>1, <1>2, <1>11, <1>12 DEF Rewired
<1>14. /\ Mapped' /\ MappersAgree' /\ SimpleCounts'
       /\ supstreams' \in [DOMAIN supstreams' -> SMapperType]
       /\ DOMAIN supstreams' = DOMAIN supstreams /\ supstreams'[k] = nw
       /\ \A l \in DOMAIN supstreams : l # k => supstreams'[l] = supstreams[l]
       /\ \A l \in DOMAIN supstreams : supstreams'[l].miner = supstreams[l].miner
  BY <1>13, RewiredInv
<1>15. mp.miner \in Conns \cup {0}
  BY <1>3, SimpleFields
<1>16. SimpleTypeOK'
  <2>1. swork' \in SUBSET (Nat \X Conns)
    BY <1>2, <1>3, <1>15 DEF SimpleTypeOK
  <2> QED BY <1>2, <1>3, <1>14, <2>1 DEF SimpleTypeOK
<1>17. JobsOfOne(nw)'
  <2>1. CASE drop
    <3>1. mp.job.via = "donate"
      BY <1>3, <2>1 DEF JobsOfOne
    <3>2. ClientOf(nw, "donate") = ClientOf(mp, "donate")
      BY <1>9, <1>11, <1>12, <2>1 DEF ClientOf
    <3> QED BY <1>2, <1>3, <1>7, <1>9, <1>11, <1>12, <2>1, <3>1, <3>2 DEF JobsOfOne, ClientOf
  <2>2. CASE ~drop
    <3>1. ClientOf(nw, via) = nj.client
      BY <1>5, <1>6, <1>11, <1>12 DEF ClientOf
    <3>2. \A i \in DOMAIN nw.history : nw.history[i].via = nj.via /\ nw.history[i].client = nj.client
      BY <1>3, <1>11, <1>12, <2>2 DEF JobsOfOne
    <3>3. nw.donate # 0 => nw.job.via = "donate"
      BY <1>6, <1>8, <1>11, <1>12, <2>2
    <3> QED BY <1>2, <1>3, <1>5, <1>6, <1>7, <1>11, <1>12, <2>2, <3>1, <3>2, <3>3 DEF JobsOfOne, ClientOf
  <2> QED BY <2>1, <2>2
<1>18. nw.job.id = sjobs + 1 \/ (drop /\ nw.job = mp.job)
  BY <1>6, <1>11, <1>12
<1>19. \A l \in DOMAIN supstreams : supstreams[l].job.id \in 0..sjobs
  BY SimpleJobIds
<1>20. SimpleJobs'
  <2>1. ASSUME NEW l \in DOMAIN supstreams PROVE JobsOfOne(supstreams[l])'
    <3>1. CASE l = k
      BY <1>14, <1>17, <3>1
    <3>2. CASE l # k
      <4>1. PICK o : o = supstreams[l]
        OBVIOUS
      <4>2. o \in SMapperType /\ JobsOfOne(o)
        BY <1>3, <4>1 DEF SimpleJobs, SimpleTypeOK
      <4>3. JobsOfOne(o)'
        BY <1>2, <1>3, <4>2, JobsStay
      <4> QED BY <1>14, <3>2, <4>1, <4>3
    <3> QED BY <3>1, <3>2
  <2>2. ASSUME NEW a \in DOMAIN supstreams, NEW b \in DOMAIN supstreams, a # b,
               supstreams'[a].job.id = supstreams'[b].job.id
        PROVE  supstreams'[a].job.id = 0
    <3>1. CASE a # k /\ b # k
      BY <1>3, <1>14, <2>2, <3>1 DEF SimpleJobs
    <3>2. CASE a = k
      BY <1>1, <1>3, <1>14, <1>18, <1>19, <2>2, <3>2 DEF SimpleJobs
    <3>3. CASE b = k
      BY <1>1, <1>3, <1>14, <1>18, <1>19, <2>2, <3>3 DEF SimpleJobs
    <3> QED BY <3>1, <3>2, <3>3
  <2> QED BY <1>14, <2>1, <2>2 DEF SimpleJobs
<1>21. SimpleWork'
  <2>1. \A w \in swork' : w \in swork \/ (~drop /\ mp.miner # 0 /\ w = <<sjobs + 1, mp.miner>>)
    BY <1>2
  <2>2. \A w \in swork : w[1] \in 1..sjobs
    BY <1>3 DEF SimpleWork
  <2>3. \A w \in swork' : w[1] \in 1..sjobs'
    BY <1>2, <1>3, <2>1, <2>2
  <2>4. OneMinerPerJob'
    <3>1. ASSUME NEW v \in swork', NEW w \in swork', v[1] = w[1] PROVE v[2] = w[2]
      BY <1>3, <2>1, <2>2, <3>1 DEF SimpleWork, OneMinerPerJob
    <3> QED BY <3>1 DEF OneMinerPerJob
  <2>5. ASSUME NEW l \in DOMAIN supstreams, supstreams'[l].miner = 0, ~supstreams'[l].dirty,
               NEW w \in swork'
        PROVE  w[1] # supstreams'[l].job.id
    <3>1. CASE l # k
      BY <1>3, <1>14, <1>19, <2>1, <2>5, <3>1 DEF SimpleWork
    <3>2. CASE l = k
      <4>1. mp.miner = 0 /\ w \in swork
        BY <1>1, <1>14, <2>1, <2>5, <3>2
      <4> QED BY <1>1, <1>3, <1>11, <1>12, <1>14, <1>18, <2>2, <2>5, <3>2, <4>1 DEF SimpleWork
    <3> QED BY <3>1, <3>2
  <2> QED BY <1>14, <2>3, <2>4, <2>5 DEF SimpleWork
<1>22. SimpleRequests'
  <2>1. config.daemon /\ ~config.donate /\ mp.job.via = "pool" => nw.job.via = "pool"
    BY <1>2, <1>6, <1>11, <1>12
  <2> QED BY <1>1, <1>2, <1>3, <1>14, <2>1 DEF SimpleRequests, SimpleRouting
<1> QED BY <1>14, <1>16, <1>20, <1>21, <1>22 DEF SimpleInv

\* A step that loses a connection of mapper k, and what was sent with it.
LEMMA LinkLost ==
    ASSUME SimpleInv, NEW k \in DOMAIN supstreams, NEW mp, mp = supstreams[k],
           NEW new, Rewired(k, new), JobsOfOne(new),
           new.job = mp.job, new.dirty = mp.dirty, UNCHANGED <<sjobs, swork>>
    PROVE  SimpleJobs' /\ SimpleWork'
<1>1. SimpleJobs /\ SimpleWork /\ SimpleTypeOK
  BY DEF SimpleInv
<1>2. /\ DOMAIN supstreams' = DOMAIN supstreams /\ supstreams'[k] = new
      /\ \A l \in DOMAIN supstreams : l # k => supstreams'[l] = supstreams[l]
      /\ \A l \in DOMAIN supstreams : supstreams'[l].miner = supstreams[l].miner
      /\ new \in SMapperType /\ UNCHANGED config
  BY RewiredInv DEF Rewired
<1>3. \A l \in DOMAIN supstreams :
         supstreams'[l].job = supstreams[l].job /\ supstreams'[l].dirty = supstreams[l].dirty
  BY <1>2
<1>4. ASSUME NEW l \in DOMAIN supstreams PROVE JobsOfOne(supstreams[l])'
  <2>1. PICK o : o = supstreams'[l]
    OBVIOUS
  <2>2. o \in SMapperType /\ JobsOfOne(o)
    BY <1>1, <1>2, <2>1 DEF SimpleTypeOK, SimpleJobs
  <2>3. JobsOfOne(o)'
    BY <1>1, <1>2, <2>2, JobsStay DEF SimpleTypeOK
  <2> QED BY <2>1, <2>3
<1>5. SimpleJobs'
  BY <1>1, <1>2, <1>3, <1>4 DEF SimpleJobs
<1>6. SimpleWork'
  BY <1>1, <1>2, <1>3 DEF SimpleWork, OneMinerPerJob
<1> QED BY <1>5, <1>6

SShareType == [miner : Conns, answered : SUBSET Conns]

LEMMA MapperPauseInv ==
    ASSUME SimpleInv, NEW k \in DOMAIN supstreams, MapperPause(k)
    PROVE  SimpleInv'
<1>1. PICK mp : mp = supstreams[k]
  OBVIOUS
<1> DEFINE new  == [mp EXCEPT !.client = 0, !.active = FALSE]
           lost == {p \in pending : p.mapper = k /\ p.via = "pool"}
           to   == mp.miner
           told == [r \in DOMAIN sshares |->
                      IF to # 0 /\ \E p \in lost : p.req = r
                        THEN [sshares[r] EXCEPT !.answered = @ \cup {to}] ELSE sshares[r]]
<1>2. /\ SimpleTypeOK /\ SimpleJobs /\ SimpleRequests /\ mp \in SMapperType /\ JobsOfOne(mp)
      /\ to \in Conns \cup {0} /\ supstreams \in [DOMAIN supstreams -> SMapperType]
      /\ sshares \in Seq(SShareType)
  BY <1>1, SimpleFields DEF SimpleInv, SimpleTypeOK, SimpleJobs, SShareType
<1>3. /\ supstreams' = [supstreams EXCEPT ![k] = new]
      /\ pending' = pending \ lost
      /\ IF config.daemon THEN sshares' = told ELSE sshares' = sshares
      /\ UNCHANGED <<config, conn, idles, released, mapperSeq, sjobs, swork, stats, workers,
                     overwritten>>
  BY <1>1, <1>2 DEF MapperPause
<1>4. /\ new \in SMapperType /\ new.miner = mp.miner /\ new.job = mp.job
      /\ new.history = mp.history /\ new.dirty = mp.dirty /\ new.donate = mp.donate
      /\ new.client = 0
  BY <1>2 DEF SMapperType
<1> HIDE DEF new
<1>5. Rewired(k, new)
  BY <1>1, <1>3, <1>4 DEF Rewired
<1>6. JobsOfOne(new)
  BY <1>2, <1>4, SimpleJobIds DEF JobsOfOne, ClientOf
<1>7. SimpleJobs' /\ SimpleWork'
  BY <1>1, <1>3, <1>4, <1>5, <1>6, LinkLost
<1>8. /\ Mapped' /\ MappersAgree' /\ SimpleCounts'
      /\ supstreams' \in [DOMAIN supstreams' -> SMapperType]
      /\ DOMAIN supstreams' = DOMAIN supstreams /\ supstreams'[k] = new
      /\ \A l \in DOMAIN supstreams : l # k => supstreams'[l] = supstreams[l]
      /\ \A l \in DOMAIN supstreams : supstreams'[l].miner = supstreams[l].miner
  BY <1>5, RewiredInv
<1>9. ASSUME NEW r \in DOMAIN sshares
      PROVE  /\ told[r] \in SShareType /\ told[r].miner = sshares[r].miner
             /\ told[r].answered \subseteq sshares[r].answered \cup {to}
             /\ ~(\E p \in lost : p.req = r) => told[r] = sshares[r]
             /\ to = 0 => told[r] = sshares[r]
  <2>1. sshares[r] \in SShareType
    BY <1>2
  <2>2. CASE to # 0 /\ \E p \in lost : p.req = r
    <3>1. told[r] = [sshares[r] EXCEPT !.answered = @ \cup {to}]
      BY <2>2
    <3> HIDE DEF told
    <3> QED BY <1>2, <2>1, <2>2, <3>1 DEF SShareType
  <2>3. CASE ~(to # 0 /\ \E p \in lost : p.req = r)
    <3>1. told[r] = sshares[r]
      BY <2>3
    <3> HIDE DEF told
    <3> QED BY <2>1, <2>3, <3>1
  <2> QED BY <2>2, <2>3
<1>10. DOMAIN told = DOMAIN sshares
  OBVIOUS
<1> HIDE DEF told
<1>11. /\ sshares' \in Seq(SShareType) /\ DOMAIN sshares' = DOMAIN sshares
       /\ \A r \in DOMAIN sshares : sshares'[r].miner = sshares[r].miner
  <2>1. told \in Seq(SShareType)
    <3>1. DOMAIN told = 1..Len(sshares) /\ Len(sshares) \in Nat
      BY <1>2, <1>10
    <3>2. told \in [1..Len(sshares) -> SShareType]
      <4>1. told = [r \in DOMAIN sshares |-> told[r]]
        BY DEF told
      <4> QED BY <1>9, <1>10, <3>1, <4>1
    <3> QED BY <3>1, <3>2
  <2> QED BY <1>2, <1>3, <1>9, <1>10, <2>1
<1>12. SimpleTypeOK'
  BY <1>2, <1>3, <1>8, <1>11 DEF SimpleTypeOK, SShareType
<1>13. SimpleRequests'
  <2>1. config.daemon /\ ~config.donate =>
           \A r \in DOMAIN sshares : sshares'[r].answered \subseteq {sshares[r].miner}
    <3>1. SUFFICES ASSUME config.daemon, ~config.donate, NEW r \in DOMAIN sshares
                   PROVE  told[r].answered \subseteq {sshares[r].miner}
      BY <1>3
    <3>2. sshares[r].answered \subseteq {sshares[r].miner}
      BY <1>2, <3>1 DEF SimpleRequests, SimpleRouting
    <3>3. CASE \E p \in lost : p.req = r
      <4>1. to \in {0, sshares[r].miner}
        BY <1>1, <1>2, <3>1, <3>3 DEF SimpleRequests
      <4> QED BY <1>9, <3>2, <4>1
    <3>4. CASE ~(\E p \in lost : p.req = r)
      BY <1>9, <3>2, <3>4
    <3> QED BY <3>3, <3>4
  <2>2. \A l \in DOMAIN supstreams : supstreams'[l].job = supstreams[l].job
    BY <1>1, <1>4, <1>8
  <2>3. \A p \in pending' : p \in pending
    BY <1>3
  <2>4. SimpleRouting'
    BY <1>2, <1>3, <1>11, <2>1, <2>3 DEF SimpleRequests, SimpleRouting
  <2> QED BY <1>2, <1>3, <1>8, <1>11, <2>2, <2>3, <2>4 DEF SimpleRequests
<1> QED BY <1>7, <1>8, <1>12, <1>13 DEF SimpleInv

LEMMA DonationLostInv ==
    ASSUME SimpleInv, NEW k \in DOMAIN supstreams, DonationLost(k)
    PROVE  SimpleInv'
<1>1. PICK mp : mp = supstreams[k]
  OBVIOUS
<1> DEFINE new  == [mp EXCEPT !.donate = 0]
<1>2. /\ SimpleTypeOK /\ SimpleRequests /\ mp \in SMapperType /\ JobsOfOne(mp)
      /\ supstreams \in [DOMAIN supstreams -> SMapperType]
  BY <1>1 DEF SimpleInv, SimpleTypeOK, SimpleJobs
<1>3. /\ supstreams' = [supstreams EXCEPT ![k] = new]
      /\ pending' \subseteq pending
      /\ UNCHANGED <<config, conn, idles, released, mapperSeq, sjobs, sshares, swork, stats,
                     workers, overwritten>>
  BY <1>1, <1>2 DEF DonationLost
<1>4. /\ new \in SMapperType /\ new.miner = mp.miner /\ new.job = mp.job
      /\ new.history = mp.history /\ new.dirty = mp.dirty /\ new.donate = 0
      /\ new.client = mp.client
  BY <1>2 DEF SMapperType
<1> HIDE DEF new
<1>5. Rewired(k, new)
  BY <1>1, <1>3, <1>4 DEF Rewired
<1>6. JobsOfOne(new)
  BY <1>2, <1>4, SimpleJobIds DEF JobsOfOne, ClientOf
<1>7. SimpleJobs' /\ SimpleWork'
  BY <1>1, <1>3, <1>4, <1>5, <1>6, LinkLost
<1>8. /\ Mapped' /\ MappersAgree' /\ SimpleCounts'
      /\ supstreams' \in [DOMAIN supstreams' -> SMapperType]
      /\ DOMAIN supstreams' = DOMAIN supstreams /\ supstreams'[k] = new
      /\ \A l \in DOMAIN supstreams : l # k => supstreams'[l] = supstreams[l]
      /\ \A l \in DOMAIN supstreams : supstreams'[l].miner = supstreams[l].miner
  BY <1>5, RewiredInv
<1>9. SimpleTypeOK'
  BY <1>2, <1>3, <1>8 DEF SimpleTypeOK
<1>10. SimpleRequests'
  <2>1. \A l \in DOMAIN supstreams : supstreams'[l].job = supstreams[l].job
    BY <1>1, <1>4, <1>8
  <2> QED BY <1>2, <1>3, <1>8, <2>1 DEF SimpleRequests, SimpleRouting
<1> QED BY <1>7, <1>8, <1>9, <1>10 DEF SimpleInv

LEMMA PoolResultInv ==
    ASSUME SimpleInv, NEW p \in pending, NEW outcome \in {"accepted", "rejected"},
           PoolResult(p, outcome)
    PROVE  SimpleInv'
<1>1. PICK to : to = supstreams[p.mapper].miner
  OBVIOUS
<1>2. SimpleTypeOK /\ SimpleRequests
  BY DEF SimpleInv
<1>3. /\ p.mapper \in DOMAIN supstreams /\ supstreams[p.mapper] \in SMapperType
      /\ p.req \in DOMAIN sshares /\ sshares \in Seq(SShareType) /\ stats \in StatsType
  BY <1>2 DEF SimpleRequests, SimpleTypeOK, SShareType
<1>4. to \in Conns \cup {0}
  BY <1>1, <1>3, SimpleFields
<1>5. /\ pending' = pending \ {p}
      /\ sshares' = IF to = 0 THEN sshares ELSE [sshares EXCEPT ![p.req].answered = @ \cup {to}]
      /\ stats' = StatsAccept(stats, outcome, p.via = "donate")
      /\ UNCHANGED <<config, conn, supstreams, idles, released, mapperSeq, sjobs, swork, workers,
                     overwritten>>
  BY <1>1 DEF PoolResult, ResultAccepted
<1>6. stats' \in StatsType /\ stats'.connections = stats.connections
  <2>1. \/ stats' = [stats EXCEPT !.accepted = @ + 1]
        \/ stats' = stats
        \/ stats' = [stats EXCEPT !.rejected = @ + 1]
    BY <1>5 DEF StatsAccept
  <2> QED BY <1>3, <2>1 DEF StatsType
<1>7. /\ sshares' \in Seq(SShareType) /\ DOMAIN sshares' = DOMAIN sshares
      /\ \A r \in DOMAIN sshares : sshares'[r].miner = sshares[r].miner
      /\ \A r \in DOMAIN sshares :
            \/ sshares'[r].answered = sshares[r].answered
            \/ r = p.req /\ to # 0 /\ sshares'[r].answered = sshares[r].answered \cup {to}
  <2>1. CASE to = 0
    BY <1>3, <1>5, <2>1
  <2>2. CASE to # 0
    <3> DEFINE share == [sshares[p.req] EXCEPT !.answered = @ \cup {to}]
    <3>1. sshares[p.req] \in SShareType
      BY <1>3
    <3>2. /\ share \in SShareType /\ share.miner = sshares[p.req].miner
          /\ share.answered = sshares[p.req].answered \cup {to}
      BY <1>4, <2>2, <3>1 DEF SShareType
    <3>3. sshares' = [sshares EXCEPT ![p.req] = share]
      BY <1>5, <2>2
    <3> HIDE DEF share
    <3>4. sshares' \in Seq(SShareType)
      BY <1>3, <3>2, <3>3
    <3>5. DOMAIN sshares' = DOMAIN sshares
      BY <1>3, <3>3
    <3>6. sshares'[p.req] = share /\ \A r \in DOMAIN sshares : r # p.req => sshares'[r] = sshares[r]
      BY <1>3, <3>3
    <3> QED BY <2>2, <3>2, <3>4, <3>5, <3>6
  <2> QED BY <2>1, <2>2
<1>8. SimpleTypeOK'
  BY <1>2, <1>5, <1>6, <1>7 DEF SimpleTypeOK, SShareType
<1>9. Mapped' /\ MappersAgree'
  BY <1>5 DEF SimpleInv, Mapped, MappersAgree
<1>10. SimpleJobs' /\ SimpleWork'
  <2>1. SimpleJobs'
    BY <1>5 DEF SimpleInv, SimpleJobs, JobsOfOne, ClientOf
  <2>2. SimpleWork'
    BY <1>5 DEF SimpleInv, SimpleWork, OneMinerPerJob
  <2> QED BY <2>1, <2>2
<1>11. SimpleCounts'
  <2>1. Open' = Open
    BY <1>5 DEF Open
  <2> QED BY <1>5, <1>6, <2>1, NothingCounted
<1>12. SimpleRequests'
  <2>1. config.daemon /\ ~config.donate => to \in {0, sshares[p.req].miner}
    BY <1>1, <1>2 DEF SimpleRequests
  <2>2. ASSUME config.daemon, ~config.donate, NEW r \in DOMAIN sshares
        PROVE  sshares'[r].answered \subseteq {sshares[r].miner}
    <3>1. sshares[r].answered \subseteq {sshares[r].miner}
      BY <1>2, <2>2 DEF SimpleRequests, SimpleRouting
    <3> QED BY <1>7, <2>1, <2>2, <3>1
  <2>3. SimpleRouting'
    BY <1>2, <1>5, <1>7, <2>2 DEF SimpleRequests, SimpleRouting
  <2> QED BY <1>2, <1>5, <1>7, <2>3 DEF SimpleRequests
<1> QED BY <1>8, <1>9, <1>10, <1>11, <1>12 DEF SimpleInv

LEMMA SimpleTickInv ==
    ASSUME SimpleInv, SimpleTick
    PROVE  SimpleInv'
<1>1. PICK late : late = {k \in idles : supstreams[k].idle > config.reuse}
  OBVIOUS
<1>2. /\ released' = late /\ idles' = idles \ late
      /\ supstreams' = [k \in DOMAIN supstreams \ late |->
           IF supstreams[k].miner = 0 THEN [supstreams[k] EXCEPT !.idle = @ + 1]
           ELSE supstreams[k]]
      /\ \A p \in pending' : p \in pending /\ p.mapper \notin late
      /\ UNCHANGED <<config, conn, mapperSeq, sjobs, sshares, swork, stats, workers, overwritten>>
  BY <1>1 DEF SimpleTick
<1>3. SimpleTypeOK /\ Mapped /\ MappersAgree /\ SimpleJobs /\ SimpleWork /\ SimpleRequests
  BY DEF SimpleInv
<1>4. /\ idles = {k \in DOMAIN supstreams : supstreams[k].miner = 0}
      /\ \A k \in late : k \in DOMAIN supstreams /\ supstreams[k].miner = 0
  BY <1>1, <1>3 DEF MappersAgree
<1>5. DOMAIN supstreams' = DOMAIN supstreams \ late
  BY <1>2
<1>6. ASSUME NEW k \in DOMAIN supstreams'
      PROVE  /\ k \in DOMAIN supstreams /\ k \notin late /\ supstreams'[k] \in SMapperType
             /\ supstreams'[k].miner = supstreams[k].miner
             /\ supstreams'[k].job = supstreams[k].job /\ supstreams'[k].dirty = supstreams[k].dirty
             /\ supstreams'[k].history = supstreams[k].history
             /\ supstreams'[k].client = supstreams[k].client
             /\ supstreams'[k].donate = supstreams[k].donate
  <2>1. k \in DOMAIN supstreams /\ k \notin late
    BY <1>5, <1>6
  <2>2. PICK o : o = supstreams[k]
    OBVIOUS
  <2>3. o \in SMapperType
    BY <1>3, <2>1, <2>2 DEF SimpleTypeOK
  <2>4. supstreams'[k] = IF o.miner = 0 THEN [o EXCEPT !.idle = @ + 1] ELSE o
    BY <1>2, <2>1, <2>2
  <2>5. [o EXCEPT !.idle = @ + 1] \in SMapperType
    BY <2>3 DEF SMapperType
  <2>6. CASE o.miner = 0
    BY <2>1, <2>2, <2>3, <2>4, <2>5, <2>6 DEF SMapperType
  <2>7. CASE o.miner # 0
    BY <2>1, <2>2, <2>3, <2>4, <2>7
  <2> QED BY <2>6, <2>7
<1>7. SimpleTypeOK'
  <2>1. supstreams' \in [DOMAIN supstreams' -> SMapperType]
    <3>1. supstreams' = [k \in DOMAIN supstreams' |-> supstreams'[k]]
      BY <1>2
    <3> QED BY <1>6, <3>1
  <2>2. pending' \in SUBSET PendingType
    BY <1>2, <1>3 DEF SimpleTypeOK
  <2>3. DOMAIN supstreams' \in SUBSET Nat
    BY <1>3, <1>5 DEF SimpleTypeOK
  <2> QED BY <1>2, <1>3, <2>1, <2>2, <2>3 DEF SimpleTypeOK
<1>8. Mapped'
  <2>1. ASSUME NEW m \in Conns, conn[m].st \in {"in", "closing"}, conn[m].mapper # -1
        PROVE  conn[m].mapper \in DOMAIN supstreams' /\ supstreams'[conn[m].mapper].miner = m
    <3>1. conn[m].mapper \in DOMAIN supstreams /\ supstreams[conn[m].mapper].miner = m /\ m # 0
      BY <1>3, <2>1, ConnFacts DEF Mapped
    <3>2. conn[m].mapper \in DOMAIN supstreams'
      BY <1>4, <1>5, <3>1
    <3> QED BY <1>6, <3>1, <3>2
  <2>2. \A k \in late : k \in Nat /\ k < mapperSeq
    BY <1>3, <1>4 DEF Mapped, SimpleTypeOK
  <2>3. \A k \in DOMAIN supstreams' :
           /\ k < mapperSeq
           /\ supstreams'[k].miner # 0 => /\ conn[supstreams'[k].miner].st \in {"in", "closing"}
                                          /\ conn[supstreams'[k].miner].mapper = k
    BY <1>3, <1>6 DEF Mapped
  <2> QED BY <1>2, <1>3, <2>1, <2>2, <2>3 DEF Mapped
<1>9. MappersAgree'
  <2>1. ASSUME NEW m \in Conns, conn[m].st = "in"
        PROVE  conn[m].mapper \in DOMAIN supstreams' /\ supstreams'[conn[m].mapper].miner = m
    <3>1. conn[m].mapper # -1
      BY <1>3, <2>1 DEF Mapped
    <3>2. conn[m].mapper \in DOMAIN supstreams /\ supstreams[conn[m].mapper].miner = m /\ m # 0
      BY <1>3, <2>1, <3>1, ConnFacts DEF Mapped
    <3>3. conn[m].mapper \in DOMAIN supstreams'
      BY <1>4, <1>5, <3>2
    <3> QED BY <1>6, <3>2, <3>3
  <2>2. idles' = {k \in DOMAIN supstreams' : supstreams'[k].miner = 0}
    BY <1>2, <1>4, <1>5, <1>6
  <2>3. released' \cap DOMAIN supstreams' = {}
    BY <1>2, <1>5
  <2> QED BY <1>2, <2>1, <2>2, <2>3 DEF MappersAgree
<1>10. SimpleJobs'
  <2>1. ASSUME NEW k \in DOMAIN supstreams' PROVE JobsOfOne(supstreams[k])'
    <3>1. JobsOfOne(supstreams[k])
      BY <1>3, <1>6 DEF SimpleJobs
    <3> QED BY <1>2, <1>6, <3>1 DEF JobsOfOne, ClientOf
  <2> QED BY <1>3, <1>6, <2>1 DEF SimpleJobs
<1>11. SimpleWork'
  BY <1>2, <1>3, <1>6 DEF SimpleWork, OneMinerPerJob
<1>12. SimpleRequests'
  <2>1. \A p \in pending' : p.mapper \in DOMAIN supstreams'
    BY <1>2, <1>3, <1>5 DEF SimpleRequests
  <2> QED BY <1>2, <1>3, <1>6, <2>1 DEF SimpleRequests, SimpleRouting
<1>13. SimpleCounts'
  BY <1>2, NothingCounted DEF Open
<1> QED BY <1>7, <1>8, <1>9, <1>10, <1>11, <1>12, <1>13 DEF SimpleInv

\* A share that is sent goes to the client of its job.
LEMMA FoundJob ==
    ASSUME NEW mp \in SMapperType, JobsOfOne(mp), NEW id, NEW tooOld \in BOOLEAN,
           NEW j \in FindJob(mp, id, tooOld), sjobs \in Nat
    PROVE  /\ j \in SJobType /\ j.id = id /\ j.via = mp.job.via /\ j.client = mp.job.client
           /\ mp.job # SNoJob
<1>1. j # SNoJob /\ j.id = id /\ (j = mp.job \/ \E i \in DOMAIN mp.history : j = mp.history[i])
  BY DEF FindJob
<1>2. mp.job \in SJobType /\ mp.history \in Seq(SJobType)
  BY SimpleFields
<1> QED BY <1>1, <1>2 DEF JobsOfOne

LEMMA SimpleSubmitInv ==
    ASSUME SimpleInv, NEW m \in Conns, NEW id \in 1..sjobs, NEW tooOld \in BOOLEAN,
           NEW sameAlgo \in BOOLEAN, NEW sent \in BOOLEAN,
           SimpleSubmit(m, id, tooOld, sameAlgo, sent)
    PROVE  SimpleInv'
<1>1. PICK k, mp, req : k = conn[m].mapper /\ mp = supstreams[k] /\ req = Len(sshares) + 1
  OBVIOUS
<1> DEFINE found == FindJob(mp, id, tooOld)
           ok    == mp.active /\ found # {} /\ sameAlgo /\ sent
           j     == CHOOSE x \in found : TRUE
           p     == [mapper |-> k, via |-> j.via, job |-> id, client |-> ClientOf(mp, j.via),
                     issuer |-> j.client, req |-> req]
           share == [miner |-> m, answered |-> IF ok THEN {} ELSE {m}]
<1>2. /\ conn[m].st = "in"
      /\ ok => ClientOf(mp, j.via) # 0
      /\ sshares' = Append(sshares, share)
      /\ stats' = IF ok THEN stats ELSE [stats EXCEPT !.invalid = @ + 1]
      /\ pending' = IF ok THEN pending \cup {p} ELSE pending
      /\ UNCHANGED <<config, conn, supstreams, idles, released, mapperSeq, sjobs, swork, workers,
                     overwritten>>
  BY <1>1 DEF SimpleSubmit
<1>3. /\ SimpleTypeOK /\ SimpleRequests /\ Mapped /\ sshares \in Seq(SShareType)
      /\ stats \in StatsType /\ sjobs \in Nat
  BY DEF SimpleInv, SimpleTypeOK, SShareType
<1>4. /\ k \in DOMAIN supstreams /\ mp.miner = m /\ mp \in SMapperType /\ JobsOfOne(mp)
      /\ k \in Nat
  BY <1>1, <1>2, <1>3 DEF Mapped, SimpleInv, SimpleJobs, SimpleTypeOK
<1>5. /\ share \in SShareType /\ share.miner = m /\ share.answered \subseteq {m}
  <2>1. (IF ok THEN {} ELSE {m}) \in SUBSET Conns
    OBVIOUS
  <2> QED BY <2>1 DEF SShareType
<1>6. ok => /\ p \in PendingType /\ p.mapper = k /\ p.req = req /\ p.client = p.issuer
            /\ config.daemon /\ ~config.donate => mp.job.via = "pool"
  <2>1. SUFFICES ASSUME ok
                 PROVE  /\ p \in PendingType /\ p.mapper = k /\ p.req = req /\ p.client = p.issuer
                        /\ config.daemon /\ ~config.donate => mp.job.via = "pool"
    OBVIOUS
  <2>2. j \in found
    BY <2>1
  <2>3. j \in SJobType /\ j.via = mp.job.via /\ j.client = mp.job.client /\ mp.job # SNoJob
    BY <1>3, <1>4, <2>2, FoundJob
  <2>4. ClientOf(mp, j.via) # 0
    BY <1>2, <2>1
  <2> HIDE DEF j, found
  <2>5. ClientOf(mp, j.via) = j.client
    BY <1>4, <2>3, <2>4 DEF JobsOfOne
  <2>6. j.client \in Nat /\ j.via \in {"none", "pool", "donate"} /\ req \in Nat /\ id \in Nat
    BY <1>1, <1>3, <2>3 DEF SJobType
  <2>7. p \in PendingType
    BY <1>4, <2>5, <2>6 DEF PendingType
  <2>8. config.daemon /\ ~config.donate => mp.job.via = "pool"
    BY <1>4, <2>3 DEF JobsOfOne
  <2> QED BY <2>5, <2>7, <2>8
<1> HIDE DEF p, share, ok
<1>7. /\ sshares' \in Seq(SShareType) /\ DOMAIN sshares' = DOMAIN sshares \cup {req}
      /\ sshares'[req] = share /\ \A r \in DOMAIN sshares : sshares'[r] = sshares[r]
  <2>1. sshares' \in Seq(SShareType) /\ DOMAIN sshares' = DOMAIN sshares \cup {req}
    BY <1>1, <1>2, <1>3, <1>5
  <2>2. sshares'[req] = share
    BY <1>1, <1>2, <1>3, <1>5
  <2>3. \A r \in DOMAIN sshares : sshares'[r] = sshares[r]
    BY <1>2, <1>3, <1>5
  <2> QED BY <2>1, <2>2, <2>3
<1>8. stats' \in StatsType /\ stats'.connections = stats.connections
  BY <1>2, <1>3 DEF StatsType
<1>9. SimpleTypeOK'
  <2>1. pending' \in SUBSET PendingType
    BY <1>2, <1>3, <1>6 DEF SimpleTypeOK
  <2> QED BY <1>2, <1>3, <1>7, <1>8, <2>1 DEF SimpleTypeOK, SShareType
<1>10. Mapped' /\ MappersAgree'
  BY <1>2 DEF SimpleInv, Mapped, MappersAgree
<1>11. SimpleJobs' /\ SimpleWork'
  <2>1. SimpleJobs'
    BY <1>2 DEF SimpleInv, SimpleJobs, JobsOfOne, ClientOf
  <2>2. SimpleWork'
    BY <1>2 DEF SimpleInv, SimpleWork, OneMinerPerJob
  <2> QED BY <2>1, <2>2
<1>12. SimpleCounts'
  <2>1. Open' = Open
    BY <1>2 DEF Open
  <2> QED BY <1>2, <1>8, <2>1, NothingCounted
<1>13. SimpleRequests'
  <2>1. \A q \in pending' : q \in pending \/ (ok /\ q = p)
    BY <1>2
  <2>2. ASSUME NEW q \in pending'
        PROVE  /\ q.mapper \in DOMAIN supstreams /\ q.req \in DOMAIN sshares'
               /\ q.client = q.issuer
               /\ config.daemon /\ ~config.donate =>
                     /\ supstreams[q.mapper].job.via = "pool"
                     /\ supstreams[q.mapper].miner \in {0, sshares'[q.req].miner}
    <3>1. CASE q \in pending
      BY <1>3, <1>7, <3>1 DEF SimpleRequests, SimpleRouting
    <3>2. CASE ok /\ q = p
      BY <1>1, <1>4, <1>5, <1>6, <1>7, <3>2
    <3> QED BY <2>1, <3>1, <3>2
  <2>3. ASSUME config.daemon, ~config.donate, NEW r \in DOMAIN sshares'
        PROVE  sshares'[r].answered \subseteq {sshares'[r].miner}
    <3>1. CASE r \in DOMAIN sshares
      BY <1>3, <1>7, <2>3, <3>1 DEF SimpleRequests, SimpleRouting
    <3>2. CASE r = req
      BY <1>5, <1>7, <3>2
    <3> QED BY <1>7, <3>1, <3>2
  <2>4. SimpleRouting'
    BY <1>2, <2>2, <2>3 DEF SimpleRouting
  <2> QED BY <1>2, <2>2, <2>4 DEF SimpleRequests
<1> QED BY <1>9, <1>10, <1>11, <1>12, <1>13 DEF SimpleInv

\* A miner logs in to the mapper with the smallest id that can be reused, or to a
\* new one.
LEMMA SimpleLoginInv ==
    ASSUME SimpleInv, NEW m \in Conns, SimpleLogin(m)
    PROVE  SimpleInv'
<1> DEFINE reuse == {i \in idles : IsReusable(supstreams[i])}
           least == CHOOSE i \in reuse : \A j \in reuse : i <= j
<1>1. PICK k, old : /\ k = (IF reuse = {} THEN mapperSeq ELSE least)
                    /\ old = supstreams[k]
  OBVIOUS
<1> DEFINE given == [old EXCEPT !.miner = m, !.idle = 0]
           new   == IF reuse = {} THEN NewSimpleMapper(m) ELSE given
<1>2. /\ conn[m].st = "connected"
      /\ conn' = [conn EXCEPT ![m] = [st |-> "in", mapper |-> k]]
      /\ idles' = idles \ {k}
      /\ mapperSeq' = IF reuse = {} THEN mapperSeq + 1 ELSE mapperSeq
      /\ supstreams' = [i \in DOMAIN supstreams \cup {k} |->
                          IF i # k THEN supstreams[i] ELSE new]
      /\ swork' = IF reuse # {} /\ old.job # SNoJob THEN swork \cup {<<old.job.id, m>>} ELSE swork
      /\ workers' = [workers EXCEPT ![Worker(m)] = @ + 1]
      /\ UNCHANGED <<config, released, sjobs, pending, sshares, stats, overwritten>>
  <2> DEFINE at == IF reuse = {} THEN mapperSeq ELSE least
  <2>1. /\ conn[m].st = "connected"
        /\ conn' = [conn EXCEPT ![m] = [st |-> "in", mapper |-> at]]
        /\ idles' = idles \ {at}
        /\ mapperSeq' = IF reuse = {} THEN mapperSeq + 1 ELSE mapperSeq
        /\ supstreams' = [i \in DOMAIN supstreams \cup {at} |->
                            IF i # at THEN supstreams[i]
                            ELSE IF reuse = {} THEN NewSimpleMapper(m)
                            ELSE [supstreams[at] EXCEPT !.miner = m, !.idle = 0]]
        /\ swork' = IF reuse # {} /\ supstreams[at].job # SNoJob
                      THEN swork \cup {<<supstreams[at].job.id, m>>} ELSE swork
        /\ workers' = [workers EXCEPT ![Worker(m)] = @ + 1]
        /\ UNCHANGED <<config, released, sjobs, pending, sshares, stats, overwritten>>
    BY Zenon DEF SimpleLogin, WorkersAdd
  <2>2. at = k /\ old = supstreams[k]
    BY <1>1
  <2> HIDE DEF reuse, at
  <2> QED BY <2>1, <2>2
<1>3. /\ SimpleTypeOK /\ Mapped /\ MappersAgree /\ SimpleJobs /\ SimpleWork /\ SimpleRequests
      /\ supstreams \in [DOMAIN supstreams -> SMapperType] /\ DOMAIN supstreams \in SUBSET Nat
      /\ mapperSeq \in Nat /\ sjobs \in Nat
      /\ conn \in [Conns -> ConnType] /\ m \in Nat /\ m # 0
  BY ConnFacts DEF SimpleInv, SimpleTypeOK
<1>4. reuse # {} =>
         /\ k \in idles /\ k \in DOMAIN supstreams /\ old \in SMapperType /\ JobsOfOne(old)
         /\ old.miner = 0 /\ ~old.dirty /\ ~(config.daemon /\ old.job.via = "pool")
  <2>1. SUFFICES ASSUME reuse # {}
                 PROVE  /\ k \in idles /\ k \in DOMAIN supstreams /\ old \in SMapperType
                        /\ JobsOfOne(old) /\ old.miner = 0 /\ ~old.dirty
                        /\ ~(config.daemon /\ old.job.via = "pool")
    OBVIOUS
  <2>2. reuse \in SUBSET Nat
    BY <1>3 DEF MappersAgree
  <2>3. \E i \in reuse : \A j \in reuse : i <= j
    BY <2>1, <2>2, SmallestElement
  <2>4. k \in reuse
    BY <1>1, <2>1, <2>3
  <2>5. k \in idles /\ IsReusable(old)
    BY <1>1, <2>4
  <2> HIDE DEF reuse, least
  <2>6. old.miner = 0 /\ ~old.dirty /\ ~(config.daemon /\ old.job.via = "pool")
    BY <2>5 DEF IsReusable
  <2>7. k \in DOMAIN supstreams
    BY <1>3, <2>5 DEF MappersAgree
  <2>8. old = supstreams[k]
    BY <1>1
  <2>9. old \in SMapperType /\ JobsOfOne(old)
    BY <1>3, <2>7, <2>8 DEF SimpleJobs
  <2> QED BY <2>5, <2>6, <2>7, <2>9
<1>5. reuse = {} => k = mapperSeq /\ k \notin DOMAIN supstreams /\ k \notin released
                    /\ k \notin idles
  BY <1>1, <1>3 DEF Mapped, MappersAgree
<1>6. k \in Nat /\ k < mapperSeq' /\ mapperSeq' \in Nat /\ mapperSeq <= mapperSeq'
  <2>1. CASE reuse = {}
    BY <1>2, <1>3, <1>5, <2>1
  <2>2. CASE reuse # {}
    BY <1>2, <1>3, <1>4, <2>2 DEF Mapped
  <2> QED BY <2>1, <2>2
<1>7. /\ new \in SMapperType /\ new.miner = m
      /\ reuse = {} => new.job = SNoJob /\ new.history = <<>> /\ new.client = 0 /\ new.donate = 0
      /\ reuse # {} => /\ new.job = old.job /\ new.history = old.history
                       /\ new.client = old.client /\ new.donate = old.donate
  <2>1. CASE reuse = {}
    <3>1. NewSimpleMapper(m) \in SMapperType
      <4>1. SNoJob \in SJobType /\ <<>> \in Seq(SJobType)
        BY DEF SNoJob, SJobType
      <4> QED BY <4>1 DEF NewSimpleMapper, SMapperType
    <3> QED BY <2>1, <3>1 DEF NewSimpleMapper
  <2>2. CASE reuse # {}
    BY <1>3, <1>4, <2>2 DEF SMapperType
  <2> QED BY <2>1, <2>2
<1> HIDE DEF new, reuse
<1>8. /\ DOMAIN supstreams' = DOMAIN supstreams \cup {k}
      /\ supstreams'[k] = new
      /\ \A i \in DOMAIN supstreams : i # k => supstreams'[i] = supstreams[i]
  BY <1>2
<1>9. /\ conn' \in [Conns -> ConnType] /\ conn'[m].st = "in" /\ conn'[m].mapper = k
      /\ \A l \in Conns : l # m => conn'[l] = conn[l]
  BY <1>2, <1>3, <1>6 DEF ConnType
<1>10. SimpleTypeOK'
  <2>1. supstreams' \in [DOMAIN supstreams' -> SMapperType]
    <3>1. \A i \in DOMAIN supstreams' : supstreams'[i] \in SMapperType
      BY <1>3, <1>7, <1>8
    <3>2. supstreams' = [i \in DOMAIN supstreams' |-> supstreams'[i]]
      BY <1>2
    <3> QED BY <3>1, <3>2
  <2>2. DOMAIN supstreams' \in SUBSET Nat
    BY <1>3, <1>6, <1>8
  <2>3. swork' \in SUBSET (Nat \X Conns)
    <3>1. reuse # {} => old.job.id \in Nat
      BY <1>4, SimpleFields DEF SJobType
    <3> QED BY <1>2, <1>3, <3>1 DEF SimpleTypeOK
  <2>4. workers' \in [{Worker(l) : l \in Conns} -> Int]
    BY <1>2, <1>3 DEF SimpleTypeOK
  <2> QED BY <1>2, <1>3, <1>6, <1>9, <2>1, <2>2, <2>3, <2>4 DEF SimpleTypeOK
<1>11. \A l \in Conns : conn[l].st \in {"in", "closing"} /\ conn[l].mapper # -1 =>
          conn[l].mapper # k /\ conn[l].mapper \in DOMAIN supstreams
          /\ supstreams[conn[l].mapper].miner = l
  BY <1>1, <1>3, <1>4, <1>5, ConnFacts DEF Mapped
<1>12. Mapped'
  <2>1. ASSUME NEW l \in Conns
        PROVE  /\ conn'[l].st \in {"none", "connected"} => conn'[l].mapper = -1
               /\ conn'[l].st = "in" => conn'[l].mapper # -1
               /\ conn'[l].st \in {"in", "closing"} /\ conn'[l].mapper # -1 =>
                     /\ conn'[l].mapper \in DOMAIN supstreams'
                     /\ supstreams'[conn'[l].mapper].miner = l
    <3>1. CASE l = m
      BY <1>6, <1>7, <1>8, <1>9, <3>1
    <3>2. CASE l # m
      BY <1>3, <1>8, <1>9, <1>11, <3>2 DEF Mapped
    <3> QED BY <3>1, <3>2
  <2>2. ASSUME NEW i \in DOMAIN supstreams'
        PROVE  /\ i < mapperSeq'
               /\ supstreams'[i].miner # 0 => /\ conn'[supstreams'[i].miner].st \in {"in", "closing"}
                                              /\ conn'[supstreams'[i].miner].mapper = i
    <3>1. CASE i = k
      BY <1>6, <1>7, <1>8, <1>9, <3>1
    <3>2. CASE i # k
      <4>1. i \in DOMAIN supstreams /\ supstreams'[i] = supstreams[i] /\ i \in Nat
        BY <1>3, <1>8, <3>2
      <4>2. i < mapperSeq'
        BY <1>3, <1>6, <4>1 DEF Mapped
      <4>3. supstreams[i].miner \in Conns \cup {0}
        BY <1>3, <4>1, SimpleFields
      <4>4. supstreams[i].miner # m
        <5>1. conn[m].mapper = -1
          BY <1>2, <1>3 DEF Mapped
        <5> QED BY <1>2, <1>3, <4>1, <5>1 DEF Mapped
      <4> QED BY <1>3, <1>9, <4>1, <4>2, <4>3, <4>4 DEF Mapped
    <3> QED BY <3>1, <3>2
  <2>3. \A i \in released' : i \in Nat /\ i < mapperSeq'
    BY <1>2, <1>3, <1>6 DEF Mapped
  <2> QED BY <2>1, <2>2, <2>3 DEF Mapped
<1>13. MappersAgree'
  <2>1. ASSUME NEW l \in Conns, conn'[l].st = "in"
        PROVE  /\ conn'[l].mapper \in DOMAIN supstreams'
               /\ supstreams'[conn'[l].mapper].miner = l
    BY <1>12, <2>1 DEF Mapped
  <2>2. idles' = {i \in DOMAIN supstreams' : supstreams'[i].miner = 0}
    BY <1>2, <1>3, <1>7, <1>8 DEF MappersAgree
  <2>3. released' \cap DOMAIN supstreams' = {}
    BY <1>2, <1>3, <1>4, <1>5, <1>8 DEF MappersAgree
  <2> QED BY <2>1, <2>2, <2>3 DEF MappersAgree
<1>14. new.job.id # 0 => reuse # {}
  BY <1>7 DEF SNoJob
<1>15. SimpleJobs'
  <2>1. ASSUME NEW i \in DOMAIN supstreams' PROVE JobsOfOne(supstreams[i])'
    <3>1. PICK o : o = supstreams'[i]
      OBVIOUS
    <3>2. JobsOfOne(o)
      <4>1. CASE i # k
        BY <1>3, <1>8, <3>1, <4>1 DEF SimpleJobs
      <4>2. CASE i = k /\ reuse = {}
        BY <1>3, <1>7, <1>8, <3>1, <4>2 DEF JobsOfOne, SNoJob
      <4>3. CASE i = k /\ reuse # {}
        BY <1>4, <1>7, <1>8, <3>1, <4>3 DEF JobsOfOne, ClientOf
      <4> QED BY <4>1, <4>2, <4>3
    <3>3. o \in SMapperType
      BY <1>3, <1>7, <1>8, <3>1
    <3>4. JobsOfOne(o)'
      BY <1>2, <1>3, <3>2, <3>3, JobsStay
    <3> QED BY <3>1, <3>4
  <2>2. ASSUME NEW a \in DOMAIN supstreams', NEW b \in DOMAIN supstreams', a # b,
               supstreams'[a].job.id = supstreams'[b].job.id
        PROVE  supstreams'[a].job.id = 0
    <3>1. CASE a # k /\ b # k
      BY <1>3, <1>8, <2>2, <3>1 DEF SimpleJobs
    <3>2. CASE a = k
      BY <1>1, <1>3, <1>4, <1>7, <1>8, <1>14, <2>2, <3>2 DEF SimpleJobs
    <3>3. CASE b = k
      BY <1>1, <1>3, <1>4, <1>7, <1>8, <1>14, <2>2, <3>3 DEF SimpleJobs
    <3> QED BY <3>1, <3>2, <3>3
  <2> QED BY <2>1, <2>2 DEF SimpleJobs
<1>16. SimpleWork'
  <2>1. \A w \in swork' : w \in swork \/ (reuse # {} /\ old.job # SNoJob /\ w = <<old.job.id, m>>)
    BY <1>2
  <2>2. reuse # {} => \A w \in swork : w[1] # old.job.id
    BY <1>1, <1>3, <1>4 DEF SimpleWork
  <2>3. \A w \in swork' : w[1] \in 1..sjobs'
    <3>1. reuse # {} /\ old.job # SNoJob => old.job.id \in 1..sjobs
      BY <1>4 DEF JobsOfOne
    <3> QED BY <1>2, <1>3, <2>1, <3>1 DEF SimpleWork
  <2>4. OneMinerPerJob'
    <3>1. ASSUME NEW v \in swork', NEW w \in swork', v[1] = w[1] PROVE v[2] = w[2]
      BY <1>3, <2>1, <2>2, <3>1 DEF SimpleWork, OneMinerPerJob
    <3> QED BY <3>1 DEF OneMinerPerJob
  <2>5. ASSUME NEW i \in DOMAIN supstreams', supstreams'[i].miner = 0, ~supstreams'[i].dirty,
               NEW w \in swork'
        PROVE  w[1] # supstreams'[i].job.id
    <3>1. i # k /\ i \in DOMAIN supstreams /\ supstreams'[i] = supstreams[i]
      BY <1>3, <1>7, <1>8, <2>5
    <3>2. CASE w \in swork
      BY <1>3, <2>5, <3>1, <3>2 DEF SimpleWork
    <3>3. CASE reuse # {} /\ old.job # SNoJob /\ w = <<old.job.id, m>>
      <4>1. old.job.id \in 1..sjobs
        BY <1>4, <3>3 DEF JobsOfOne
      <4> QED BY <1>1, <1>3, <1>4, <3>1, <3>3, <4>1 DEF SimpleJobs
    <3> QED BY <2>1, <3>2, <3>3
  <2> QED BY <2>3, <2>4, <2>5 DEF SimpleWork
<1>17. SimpleRequests'
  <2>1. ASSUME NEW p \in pending
        PROVE  /\ p.mapper \in DOMAIN supstreams' /\ p.req \in DOMAIN sshares
               /\ config.daemon /\ ~config.donate =>
                     /\ supstreams'[p.mapper].job.via = "pool"
                     /\ supstreams'[p.mapper].miner \in {0, sshares[p.req].miner}
    <3>1. /\ p.mapper \in DOMAIN supstreams /\ p.req \in DOMAIN sshares
          /\ config.daemon /\ ~config.donate =>
                /\ supstreams[p.mapper].job.via = "pool"
                /\ supstreams[p.mapper].miner \in {0, sshares[p.req].miner}
      BY <1>3 DEF SimpleRequests
    <3>2. config.daemon /\ ~config.donate => p.mapper # k
      BY <1>1, <1>4, <1>5, <3>1
    <3> QED BY <1>8, <3>1, <3>2
  <2> QED BY <1>2, <1>3, <2>1 DEF SimpleRequests, SimpleRouting
<1>18. SimpleCounts'
  <2>1. Open' = Open /\ m \in Open
    BY <1>2, <1>9 DEF Open
  <2>2. conn[m].mapper = -1 /\ k # -1
    BY <1>2, <1>3, <1>6 DEF Mapped
  <2>3. m \notin overwritten /\ \A l \in Open \cup overwritten : l \in Conns
    BY <1>2, CountSets DEF SimpleInv, SimpleCounts
  <2>4. ASSUME NEW w \in DOMAIN workers PROVE workers'[w] = Cardinality(Counted(w)')
    <3>1. CASE w = Worker(m)
      <4>1. Counted(w)' = Counted(w) \cup {m} /\ m \notin Counted(w)
        BY <1>2, <1>9, <2>1, <2>2, <2>3, <3>1 DEF Counted
      <4>2. Cardinality(Counted(w)') = Cardinality(Counted(w)) + 1
        BY <4>1, CountSets, FS_AddElement
      <4> QED BY <1>2, <2>4, <3>1, <4>2, CountSets
    <3>2. CASE w # Worker(m)
      <4>1. Counted(w)' = Counted(w)
        BY <1>2, <1>9, <2>1, <2>3, <3>2 DEF Counted
      <4> QED BY <1>2, <2>4, <3>2, <4>1, CountSets
    <3> QED BY <3>1, <3>2
  <2>5. CountsExact'
    BY <1>2, <2>1, <2>4, CountSets DEF CountsExact, Counted
  <2> QED BY <1>2, <1>9, <2>3, <2>5 DEF SimpleInv, SimpleCounts
<1> QED BY <1>10, <1>12, <1>13, <1>15, <1>16, <1>17, <1>18 DEF SimpleInv

\* Of the listeners of a close event, those behind the splitter are not shown
\* it when the splitter causes another event.
LEMMA ClosedFor ==
    /\ "Stats" \in Reached("Close", FALSE) /\ "Workers" \in Reached("Close", FALSE)
    /\ "Stats" \notin Reached("Close", TRUE) /\ "Workers" \notin Reached("Close", TRUE)
<1> DEFINE order == <<"Miners", "Donate", "Splitter", "Stats", "AccessLog", "Workers", "EventStream">>
           at(x) == CHOOSE i \in DOMAIN order : order[i] = x
<1>1. Listeners["Close"] = order
  BY DEF Listeners
<1>2. /\ DOMAIN order = 1..7 /\ order[1] = "Miners" /\ order[2] = "Donate" /\ order[3] = "Splitter"
      /\ order[4] = "Stats" /\ order[5] = "AccessLog" /\ order[6] = "Workers"
      /\ order[7] = "EventStream"
  OBVIOUS
<1>3. \A over \in BOOLEAN :
         Reached("Close", over) = {order[i] : i \in {i \in DOMAIN order : over => i <= at("Splitter")}}
  BY <1>1, Zenon DEF Reached
<1> HIDE DEF order
<1>4. \A i \in DOMAIN order : order[i] = "Splitter" => i = 3
  BY <1>2
<1>5. at("Splitter") = 3
  BY <1>2, <1>4
<1>6. \A i \in DOMAIN order : i <= 3 => order[i] \in {"Miners", "Donate", "Splitter"}
  BY <1>2
<1> HIDE DEF at
<1>7. ASSUME NEW x \in Reached("Close", TRUE)
      PROVE  x \in {"Miners", "Donate", "Splitter"}
  <2>1. PICK i \in DOMAIN order : (TRUE => i <= at("Splitter")) /\ x = order[i]
    BY <1>3, <1>7
  <2> QED BY <1>5, <1>6, <2>1
<1>8. ASSUME NEW i \in 1..7 PROVE order[i] \in Reached("Close", FALSE)
  <2>1. i \in {l \in DOMAIN order : FALSE => l <= at("Splitter")}
    BY <1>2
  <2> QED BY <1>3, <2>1
<1>9. "Stats" \in Reached("Close", FALSE) /\ "Workers" \in Reached("Close", FALSE)
  <2>1. 4 \in 1..7 /\ 6 \in 1..7
    OBVIOUS
  <2>2. order[4] \in Reached("Close", FALSE) /\ order[6] \in Reached("Close", FALSE)
    BY <1>8, <2>1
  <2> QED BY <1>2, <2>2
<1>10. "Stats" \notin {"Miners", "Donate", "Splitter"} /\ "Workers" \notin {"Miners", "Donate", "Splitter"}
  OBVIOUS
<1> QED BY <1>7, <1>9, <1>10

LEMMA CloseInv ==
    ASSUME SimpleInv, NEW m \in Conns, Close(m)
    PROVE  SimpleInv'
<1>1. PICK k : k = conn[m].mapper
  OBVIOUS
<1> DEFINE mapped == k \in DOMAIN supstreams
           stop   == mapped /\ config.reuse = 0
           idle   == [supstreams[k] EXCEPT !.miner = 0, !.dirty = TRUE]
           lost   == {p \in pending : stop /\ p.mapper = k}
           over   == config.daemon /\ \E p \in lost : p.via = "pool"
<1>2. /\ conn[m].st = "closing" /\ conn' = [conn EXCEPT ![m].st = "closed"]
      /\ supstreams' = IF ~mapped THEN supstreams
                       ELSE IF stop THEN [i \in DOMAIN supstreams \ {k} |-> supstreams[i]]
                       ELSE [supstreams EXCEPT ![k] = idle]
      /\ released' = IF stop THEN released \cup {k} ELSE released
      /\ idles' = IF mapped /\ ~stop THEN idles \cup {k} ELSE idles
      /\ pending' = pending \ lost
      /\ overwritten' = IF over THEN overwritten \cup {m} ELSE overwritten
      /\ stats' = IF "Stats" \in Reached("Close", over)
                    THEN [stats EXCEPT !.connections = @ - 1] ELSE stats
      /\ workers' = IF "Workers" \in Reached("Close", over)
                      THEN WorkersRemove(workers, m) ELSE workers
      /\ UNCHANGED <<config, mapperSeq, sjobs, sshares, swork>>
  BY <1>1, Zenon DEF Close
<1>3. /\ SimpleTypeOK /\ Mapped /\ MappersAgree /\ SimpleJobs /\ SimpleWork /\ SimpleRequests
      /\ supstreams \in [DOMAIN supstreams -> SMapperType] /\ DOMAIN supstreams \in SUBSET Nat
      /\ conn \in [Conns -> ConnType] /\ stats \in StatsType
      /\ m \in Nat /\ m # 0
  BY ConnFacts DEF SimpleInv, SimpleTypeOK
<1>4. mapped => supstreams[k].miner = m /\ k # -1 /\ supstreams[k] \in SMapperType /\ k \in Nat
  BY <1>1, <1>2, <1>3 DEF Mapped
<1>5. mapped <=> k # -1
  BY <1>1, <1>2, <1>3, <1>4 DEF Mapped
<1>6. \A p \in pending' : p \in pending /\ ~(stop /\ p.mapper = k)
  BY <1>2
<1>7. over => stop
  OBVIOUS
<1>8. over \in BOOLEAN
  OBVIOUS
<1>9. mapped => /\ idle \in SMapperType /\ idle.miner = 0 /\ idle.dirty
                /\ idle.job = supstreams[k].job /\ idle.history = supstreams[k].history
                /\ idle.client = supstreams[k].client /\ idle.donate = supstreams[k].donate
  BY <1>4 DEF SMapperType
<1> HIDE DEF idle, over, lost
<1>10. /\ DOMAIN supstreams' = IF stop THEN DOMAIN supstreams \ {k} ELSE DOMAIN supstreams
       /\ \A i \in DOMAIN supstreams : i # k => supstreams'[i] = supstreams[i]
       /\ mapped /\ ~stop => supstreams'[k] = idle
  <2>1. CASE ~mapped
    BY <1>2, <2>1
  <2>2. CASE stop
    BY <1>2, <2>2
  <2>3. CASE mapped /\ ~stop
    <3>1. supstreams' = [supstreams EXCEPT ![k] = idle]
      BY <1>2, <2>3
    <3> QED BY <1>3, <2>3, <3>1
  <2> QED BY <2>1, <2>2, <2>3
<1>11. \A i \in DOMAIN supstreams' :
          /\ i \in DOMAIN supstreams /\ supstreams'[i] \in SMapperType
          /\ i = k => ~stop /\ supstreams'[i] = idle
          /\ i # k => supstreams'[i] = supstreams[i]
          /\ supstreams'[i].job = supstreams[i].job /\ supstreams'[i].history = supstreams[i].history
          /\ supstreams'[i].client = supstreams[i].client
          /\ supstreams'[i].donate = supstreams[i].donate
  BY <1>3, <1>9, <1>10
<1>12. /\ conn' \in [Conns -> ConnType] /\ conn'[m].st = "closed"
       /\ \A l \in Conns : conn'[l].mapper = conn[l].mapper /\ (l # m => conn'[l] = conn[l])
  BY <1>2, <1>3 DEF ConnType
<1>13. SimpleTypeOK'
  <2>1. supstreams' \in [DOMAIN supstreams' -> SMapperType]
    <3>1. supstreams' = [i \in DOMAIN supstreams' |-> supstreams'[i]]
      BY <1>2, <1>3
    <3> QED BY <1>11, <3>1
  <2>2. DOMAIN supstreams' \in SUBSET Nat
    BY <1>3, <1>11
  <2>3. stats' \in StatsType
    BY <1>2, <1>3 DEF StatsType
  <2>4. workers' \in [{Worker(l) : l \in Conns} -> Int]
    BY <1>2, <1>3 DEF SimpleTypeOK, WorkersRemove
  <2>5. pending' \in SUBSET PendingType
    BY <1>3, <1>6 DEF SimpleTypeOK
  <2> QED BY <1>2, <1>3, <1>12, <2>1, <2>2, <2>3, <2>4, <2>5 DEF SimpleTypeOK
<1>14. Mapped'
  <2>1. ASSUME NEW l \in Conns
        PROVE  /\ conn'[l].st \in {"none", "connected"} => conn'[l].mapper = -1
               /\ conn'[l].st = "in" => conn'[l].mapper # -1
               /\ conn'[l].st \in {"in", "closing"} /\ conn'[l].mapper # -1 =>
                     /\ conn'[l].mapper \in DOMAIN supstreams'
                     /\ supstreams'[conn'[l].mapper].miner = l
    <3>1. CASE l = m
      BY <1>12, <3>1
    <3>2. CASE l # m
      <4>1. conn[l].st \in {"in", "closing"} /\ conn[l].mapper # -1 =>
               /\ conn[l].mapper \in DOMAIN supstreams /\ supstreams[conn[l].mapper].miner = l
               /\ conn[l].mapper # k
        BY <1>3, <1>4, <3>2 DEF Mapped
      <4> QED BY <1>3, <1>10, <1>12, <3>2, <4>1 DEF Mapped
    <3> QED BY <3>1, <3>2
  <2>2. ASSUME NEW i \in DOMAIN supstreams'
        PROVE  /\ i < mapperSeq'
               /\ supstreams'[i].miner # 0 => /\ conn'[supstreams'[i].miner].st \in {"in", "closing"}
                                              /\ conn'[supstreams'[i].miner].mapper = i
    <3>1. i \in DOMAIN supstreams /\ i < mapperSeq'
      BY <1>2, <1>3, <1>11 DEF Mapped
    <3>2. CASE i = k
      BY <1>9, <1>11, <3>1, <3>2
    <3>3. CASE i # k
      <4>1. supstreams'[i] = supstreams[i] /\ supstreams[i].miner \in Conns \cup {0}
        BY <1>3, <1>11, <3>1, <3>3, SimpleFields
      <4>2. supstreams[i].miner # m
        BY <1>1, <1>3, <3>1, <3>3 DEF Mapped
      <4> QED BY <1>3, <1>12, <3>1, <4>1, <4>2 DEF Mapped
    <3> QED BY <3>2, <3>3
  <2>3. \A i \in released' : i \in Nat /\ i < mapperSeq'
    BY <1>2, <1>3, <1>4 DEF Mapped
  <2> QED BY <2>1, <2>2, <2>3 DEF Mapped
<1>15. MappersAgree'
  <2>1. ASSUME NEW l \in Conns, conn'[l].st = "in"
        PROVE  /\ conn'[l].mapper \in DOMAIN supstreams'
               /\ supstreams'[conn'[l].mapper].miner = l
    BY <1>14, <2>1 DEF Mapped
  <2>2. idles' = {i \in DOMAIN supstreams' : supstreams'[i].miner = 0}
    <3>1. idles = {i \in DOMAIN supstreams : supstreams[i].miner = 0}
      BY <1>3 DEF MappersAgree
    <3>2. CASE ~mapped
      BY <1>2, <3>1, <3>2
    <3>3. CASE stop
      <4>1. idles' = idles /\ k \notin idles
        BY <1>2, <1>3, <1>4, <3>1, <3>3
      <4> QED BY <1>10, <3>1, <3>3, <4>1
    <3>4. CASE mapped /\ ~stop
      BY <1>2, <1>9, <1>10, <3>1, <3>4
    <3> QED BY <3>2, <3>3, <3>4
  <2>3. released' \cap DOMAIN supstreams' = {}
    BY <1>2, <1>3, <1>10, <1>11 DEF MappersAgree
  <2> QED BY <2>1, <2>2, <2>3 DEF MappersAgree
<1>16. SimpleJobs'
  <2>1. ASSUME NEW i \in DOMAIN supstreams' PROVE JobsOfOne(supstreams[i])'
    <3>1. PICK o, n : o = supstreams[i] /\ n = supstreams'[i]
      OBVIOUS
    <3>2. JobsOfOne(o) /\ o.job = n.job /\ o.history = n.history
          /\ o.client = n.client /\ o.donate = n.donate
      BY <1>3, <1>11, <3>1 DEF SimpleJobs
    <3>3. JobsOfOne(n)'
      BY <1>2, <3>2 DEF JobsOfOne, ClientOf
    <3> QED BY <3>1, <3>3
  <2> QED BY <1>3, <1>11, <2>1 DEF SimpleJobs
<1>17. SimpleWork'
  <2>1. \A i \in DOMAIN supstreams' : supstreams'[i].miner = 0 /\ ~supstreams'[i].dirty =>
           i \in DOMAIN supstreams /\ supstreams[i].miner = 0 /\ ~supstreams[i].dirty
           /\ supstreams'[i].job = supstreams[i].job
    BY <1>9, <1>11
  <2>2. \A i \in DOMAIN supstreams' : supstreams'[i].miner = 0 /\ ~supstreams'[i].dirty =>
           \A w \in swork : w[1] # supstreams'[i].job.id
    BY <1>3, <2>1 DEF SimpleWork
  <2>3. (\A w \in swork' : w[1] \in 1..sjobs') /\ OneMinerPerJob'
    BY <1>2, <1>3 DEF SimpleWork, OneMinerPerJob
  <2> QED BY <1>2, <2>2, <2>3 DEF SimpleWork
<1>18. SimpleRequests'
  <2>1. \A p \in pending' : p.mapper \in DOMAIN supstreams'
    BY <1>3, <1>6, <1>10 DEF SimpleRequests
  <2>2. \A i \in DOMAIN supstreams' : supstreams'[i].miner \in {0, supstreams[i].miner}
    BY <1>9, <1>11
  <2>3. ASSUME NEW p \in pending'
        PROVE  /\ p.mapper \in DOMAIN supstreams' /\ p.req \in DOMAIN sshares'
               /\ config'.daemon /\ ~config'.donate =>
                     /\ supstreams'[p.mapper].job.via = "pool"
                     /\ supstreams'[p.mapper].miner \in {0, sshares'[p.req].miner}
    <3>1. /\ p.req \in DOMAIN sshares
          /\ config.daemon /\ ~config.donate =>
                /\ supstreams[p.mapper].job.via = "pool"
                /\ supstreams[p.mapper].miner \in {0, sshares[p.req].miner}
      BY <1>3, <1>6 DEF SimpleRequests
    <3>2. /\ p.mapper \in DOMAIN supstreams'
          /\ supstreams'[p.mapper].job = supstreams[p.mapper].job
          /\ supstreams'[p.mapper].miner \in {0, supstreams[p.mapper].miner}
      BY <1>11, <2>1, <2>2
    <3> QED BY <1>2, <3>1, <3>2
  <2>4. SimpleRouting'
    BY <1>2, <1>3, <1>6 DEF SimpleRequests, SimpleRouting
  <2> QED BY <2>3, <2>4 DEF SimpleRequests
<1>19. SimpleCounts'
  <2>1. Open' = Open \ {m} /\ m \in Open /\ m \notin overwritten
    <3>1. Open' = Open \ {m} /\ m \in Open
      BY <1>2, <1>12 DEF Open
    <3> QED BY <3>1, CountSets
  <2>2. /\ Cardinality(Open') = Cardinality(Open) - 1 /\ Cardinality(Open) \in Nat
        /\ Cardinality(overwritten) \in Nat
    BY <2>1, CountSets, FS_RemoveElement, FS_CardinalityType
  <2>3. \A l \in Open \cup overwritten : l \in Conns
    BY CountSets
  <2>4. CASE over
    <3>1. stats' = stats /\ workers' = workers /\ overwritten' = overwritten \cup {m}
      BY <1>2, <1>8, <2>4, ClosedFor
    <3>2. Cardinality(overwritten') = Cardinality(overwritten) + 1
      BY <2>1, <3>1, CountSets, FS_AddElement
    <3>3. \A w : Counted(w)' = Counted(w)
      BY <1>12, <2>1, <2>3, <3>1 DEF Counted
    <3>4. CountsExact'
      <4>1. stats'.connections = Cardinality(Open') + Cardinality(overwritten')
        BY <2>2, <3>1, <3>2, CountSets
      <4>2. \A w \in DOMAIN workers' : workers'[w] = Cardinality(Counted(w)')
        BY <3>1, <3>3, CountSets
      <4> QED BY <4>1, <4>2 DEF CountsExact, Counted
    <3> QED BY <1>12, <3>1, <3>4 DEF SimpleInv, SimpleCounts
  <2>5. CASE ~over
    <3>1. /\ stats' = [stats EXCEPT !.connections = @ - 1] /\ overwritten' = overwritten
          /\ workers' = WorkersRemove(workers, m)
      BY <1>2, <1>8, <2>5, ClosedFor
    <3>2. stats'.connections = stats.connections - 1
      BY <1>3, <3>1 DEF StatsType
    <3>3. ASSUME NEW w \in DOMAIN workers
          PROVE  workers'[w] = Cardinality(Counted(w)')
      <4>1. CASE conn[m].mapper # -1 /\ w = Worker(m)
        <5>1. Counted(w)' = Counted(w) \ {m} /\ m \in Counted(w)
          BY <1>12, <2>1, <2>3, <3>1, <4>1 DEF Counted
        <5>2. Cardinality(Counted(w)') = Cardinality(Counted(w)) - 1
          BY <5>1, CountSets, FS_RemoveElement
        <5>3. workers'[w] = workers[w] - 1
          BY <3>1, <3>3, <4>1 DEF WorkersRemove
        <5> QED BY <3>3, <5>2, <5>3, CountSets
      <4>2. CASE ~(conn[m].mapper # -1 /\ w = Worker(m))
        <5>1. Counted(w)' = Counted(w)
          BY <1>12, <2>1, <2>3, <3>1, <4>2 DEF Counted
        <5>2. workers'[w] = workers[w]
          BY <3>1, <3>3, <4>2 DEF WorkersRemove
        <5> QED BY <3>3, <5>1, <5>2, CountSets
      <4> QED BY <4>1, <4>2
    <3>4. DOMAIN workers' = DOMAIN workers
      BY <3>1 DEF WorkersRemove
    <3>5. CountsExact'
      <4>1. stats'.connections = Cardinality(Open') + Cardinality(overwritten')
        BY <2>2, <3>1, <3>2, CountSets
      <4> QED BY <3>3, <3>4, <4>1 DEF CountsExact, Counted
    <3> QED BY <1>12, <3>1, <3>5 DEF SimpleInv, SimpleCounts
  <2> QED BY <2>4, <2>5
<1> QED BY <1>13, <1>14, <1>15, <1>16, <1>17, <1>18, <1>19 DEF SimpleInv

LEMMA SimpleInitInv == SimpleInit => SimpleInv
<1> SUFFICES ASSUME SimpleInit PROVE SimpleInv
  OBVIOUS
<1>1. /\ config \in [daemon : BOOLEAN, reuse : {0, 1}, donate : BOOLEAN]
      /\ conn = [m \in Conns |-> [st |-> "none", mapper |-> -1]]
      /\ DOMAIN supstreams = {} /\ supstreams = [k \in {} |-> 0] /\ idles = {} /\ released = {}
      /\ mapperSeq = 0 /\ sjobs = 0
      /\ pending = {} /\ sshares = <<>> /\ swork = {}
      /\ stats = [connections |-> 0, accepted |-> 0, rejected |-> 0, invalid |-> 0]
      /\ workers = [w \in {Worker(m) : m \in Conns} |-> 0]
      /\ overwritten = {}
  BY DEF SimpleInit
<1>2. \A m \in Conns : conn[m].st = "none" /\ conn[m].mapper = -1
  BY <1>1
<1>3. SimpleTypeOK
  <2>1. conn \in [Conns -> ConnType]
    BY <1>1 DEF ConnType
  <2>2. stats \in StatsType
    BY <1>1 DEF StatsType
  <2>3. supstreams \in [DOMAIN supstreams -> SMapperType]
    BY <1>1
  <2> QED BY <1>1, <2>1, <2>2, <2>3 DEF SimpleTypeOK
<1>4. Mapped /\ MappersAgree
  BY <1>1, <1>2 DEF Mapped, MappersAgree
<1>5. SimpleJobs /\ SimpleWork
  BY <1>1 DEF SimpleJobs, SimpleWork, OneMinerPerJob
<1>6. SimpleRequests
  BY <1>1 DEF SimpleRequests, SimpleRouting
<1>7. SimpleCounts
  <2>1. Open = {}
    BY <1>2 DEF Open
  <2>2. \A w : {m \in Open \cup overwritten : Worker(m) = w /\ conn[m].mapper # -1} = {}
    BY <1>1, <2>1
  <2>3. CountsExact
    BY <1>1, <2>1, <2>2, FS_EmptySet DEF CountsExact
  <2> QED BY <1>1, <2>3 DEF SimpleCounts
<1> QED BY <1>3, <1>4, <1>5, <1>6, <1>7 DEF SimpleInv

LEMMA SimpleStep ==
    ASSUME SimpleInv, [SimpleNext]_simpleVars
    PROVE  SimpleInv'
<1>1. CASE UNCHANGED simpleVars
  <2>1. ConnsOnly /\ UNCHANGED <<conn, stats, workers, overwritten>>
    BY <1>1 DEF simpleVars, ConnsOnly
  <2>2. SimpleTypeOK' /\ Mapped' /\ MappersAgree'
    BY <2>1 DEF SimpleInv, SimpleTypeOK, Mapped, MappersAgree, ConnsOnly
  <2>3. SimpleCounts'
    BY <2>1, NothingCounted DEF Open
  <2> QED BY <2>1, <2>2, <2>3, ConnsOnlyInv DEF SimpleInv
<1>2. CASE SimpleNext
  <2>1. ASSUME NEW m \in Conns, LoginRejected(m) \/ BeginClose(m) PROVE SimpleInv'
    BY <2>1, ClosingInv DEF LoginRejected, BeginClose, ConnsOnly
  <2>2. ASSUME NEW m \in Conns, Connection(m) \/ SimpleLogin(m) \/ Close(m) PROVE SimpleInv'
    BY <2>2, ConnectionInv, SimpleLoginInv, CloseInv
  <2> QED BY <1>2, <2>1, <2>2, SimpleSubmitInv, MapperJobInv, MapperPauseInv, DonationLostInv,
             PoolResultInv, SimpleTickInv
       DEF SimpleNext
<1> QED BY <1>1, <1>2

(***************************************************************************)
(* The extra_nonce mode                                                    *)
(***************************************************************************)

XConns == 1..XMiners
Pools == 1..XPools

XJobType == [id : Nat, client : Int, restored : BOOLEAN]

XContextType == [seq : Int, req : Nat, miner : XConns]

XMapperType ==
    [active : BOOLEAN, job : XJobType, prevJob : XJobType, extraNonce : Nat,
     miners : SUBSET XConns, results : SUBSET XContextType, strategy : Pools \cup {0},
     donate : Int, donating : BOOLEAN, saved : XJobType]

XShareType == [miner : XConns, answers : SUBSET (XConns \X Nat \X BOOLEAN)]

XRequestType == [seq : Nat, req : Nat, job : Nat, client : Int, restored : BOOLEAN]

\* The types of the state of the extra_nonce mode.
ExtraTypeOK ==
    /\ upstream \in XMapperType
    /\ xminer \in [XConns -> {"new", "in", "closed"}]
    /\ xjobs \in Seq(Int) /\ xsequence \in Nat
    /\ xshares \in Seq(XShareType)
    /\ xinflight \in SUBSET XRequestType
    /\ xwork \in SUBSET (Nat \X Nat \X XConns)

\* The mapper holds the miners that are connected.
XMinersIn == \A m \in upstream.miners : xminer[m] = "in"

\* Every job of the mapper is one that was received, from that client.
XJobKnown(j) == j = XNoJob \/ (j.id \in DOMAIN xjobs /\ xjobs[j.id] = j.client)

XJobsKnown ==
    /\ XJobKnown(upstream.job) /\ XJobKnown(upstream.prevJob) /\ XJobKnown(upstream.saved)
    /\ upstream.saved # XNoJob => upstream.saved.client \in Pools

\* The extra nonces of the job that are out are below the counter, and a job is
\* not handed out as long as it is saved.
XWorkKept ==
    /\ \A w \in xwork : w[1] \in DOMAIN xjobs
    /\ \A w \in xwork : w[1] = upstream.job.id => w[2] < upstream.extraNonce
    /\ upstream.donating /\ upstream.saved # XNoJob =>
          /\ upstream.saved.id # upstream.job.id
          /\ \A w \in xwork : w[1] # upstream.saved.id
    /\ ExtraNoncesDistinct

\* The jobs that the mapper accepts shares for are of the client that its shares
\* go to, unless the job was restored.
XIssued ==
    /\ upstream.active => upstream.job # XNoJob
    /\ upstream.prevJob # XNoJob => /\ upstream.prevJob.client = upstream.job.client
                                    /\ ~upstream.job.restored
    /\ upstream.donate <= 0
    /\ upstream.donate # 0 => /\ upstream.donating /\ upstream.job.client = upstream.donate
                              /\ ~upstream.job.restored
    /\ upstream.active /\ upstream.donate = 0 /\ upstream.strategy # 0 =>
          upstream.job.client = upstream.strategy \/ upstream.job.restored

\* A request and the context filed under its sequence are of the same share.
XContexts ==
    /\ \A r \in upstream.results :
          /\ r.seq < xsequence
          /\ r.req \in DOMAIN xshares /\ r.miner = xshares[r.req].miner
    /\ \A p \in xinflight :
          /\ p.seq < xsequence
          /\ p.req \in DOMAIN xshares /\ p.job \in DOMAIN xjobs
          /\ \A r \in upstream.results : r.seq = p.seq => r.req = p.req
    /\ ExtraRouting

ExtraInv ==
    ExtraTypeOK /\ XMinersIn /\ XJobsKnown /\ XWorkKept /\ XIssued /\ XContexts

LEMMA XFacts ==
    /\ XMiners \in Nat /\ XMiners # 0 /\ XPools \in Nat /\ XPools # 0
    /\ XConns \subseteq Nat /\ IsFiniteSet(XConns) /\ 1 \in Pools
    /\ \A p \in Pools : p \in Nat /\ p > 0
<1>1. XMiners \in Nat \ {0} /\ XPools \in Nat \ {0}
  BY ExtraNonceAssumption
<1>2. IsFiniteSet(1..XMiners)
  BY <1>1, FS_Interval
<1> QED BY <1>1, <1>2 DEF XConns, Pools

LEMMA XFields ==
    ASSUME NEW mp \in XMapperType
    PROVE  /\ mp.active \in BOOLEAN /\ mp.job \in XJobType /\ mp.prevJob \in XJobType
           /\ mp.extraNonce \in Nat /\ mp.miners \in SUBSET XConns
           /\ mp.results \in SUBSET XContextType /\ mp.strategy \in Pools \cup {0}
           /\ mp.donate \in Int /\ mp.donating \in BOOLEAN /\ mp.saved \in XJobType
BY DEF XMapperType

LEMMA XJobFields ==
    /\ XNoJob \in XJobType /\ XNoJob.id = 0 /\ XNoJob.client = 0 /\ ~XNoJob.restored
    /\ \A i \in Nat, c \in Int, r \in BOOLEAN :
          /\ XJobOf(i, c, r) \in XJobType /\ XJobOf(i, c, r).id = i
          /\ XJobOf(i, c, r).client = c /\ XJobOf(i, c, r).restored = r
BY DEF XNoJob, XJobOf, XJobType

LEMMA XMinerCount ==
    ASSUME NEW S \in SUBSET XConns
    PROVE  IsFiniteSet(S) /\ Cardinality(S) \in Nat
BY XFacts, FS_Subset, FS_CardinalityType

\* The extra nonces of a job start at 0 in the order of the miners' ids: they
\* are below the number of miners, and differ.
LEMMA XHandedOutRange ==
    ASSUME NEW mp \in XMapperType
    PROVE  /\ XHandedOut(mp) \in SUBSET (Nat \X Nat \X XConns)
           /\ \A w \in XHandedOut(mp) :
                 w[1] = mp.job.id /\ w[2] < Cardinality(mp.miners)
           /\ \A v, w \in XHandedOut(mp) : v[2] = w[2] => v[3] = w[3]
<1> DEFINE Below(m) == {l \in mp.miners : l < m}
<1>1. mp.miners \in SUBSET XConns /\ mp.job.id \in Nat
  BY XFields DEF XJobType
<1>2. \A m : Below(m) \in SUBSET XConns /\ Below(m) \in SUBSET mp.miners
  BY <1>1
<1>3. \A m : IsFiniteSet(Below(m)) /\ Cardinality(Below(m)) \in Nat
  BY <1>2, XMinerCount
<1>4. XHandedOut(mp) = {<<mp.job.id, Cardinality(Below(m)), m>> : m \in mp.miners}
  BY DEF XHandedOut
<1>5. ASSUME NEW m \in mp.miners, NEW S \in SUBSET mp.miners, Below(m) \subseteq S, m \in S
      PROVE  Cardinality(Below(m)) < Cardinality(S)
  <2>1. m \in Nat
    BY <1>1, XFacts
  <2>2. ~(m < m)
    BY <2>1
  <2>3. Below(m) # S
    BY <1>5, <2>2
  <2> HIDE DEF Below
  <2>4. IsFiniteSet(S) /\ Cardinality(S) \in Nat /\ Below(m) \in SUBSET S
    BY <1>1, <1>5, XMinerCount
  <2>5. Cardinality(Below(m)) <= Cardinality(S) /\ Cardinality(S) # Cardinality(Below(m))
    BY <2>3, <2>4, FS_Subset
  <2> QED BY <1>3, <2>4, <2>5
<1>6. ASSUME NEW m \in mp.miners, NEW n \in mp.miners, m < n
      PROVE  Cardinality(Below(m)) < Cardinality(Below(n))
  <2>1. \A l \in mp.miners : l \in Nat
    BY <1>1, XFacts
  <2>2. Below(m) \subseteq Below(n) /\ m \in Below(n)
    BY <1>6, <2>1
  <2> HIDE DEF Below
  <2> QED BY <1>2, <1>5, <2>2
<1>7. ASSUME NEW m \in mp.miners PROVE Cardinality(Below(m)) < Cardinality(mp.miners)
  <2> HIDE DEF Below
  <2> QED BY <1>2, <1>5
<1> HIDE DEF Below
<1>8. ASSUME NEW v \in XHandedOut(mp), NEW w \in XHandedOut(mp), v[2] = w[2]
      PROVE  v[3] = w[3]
  <2>1. PICK m \in mp.miners : v = <<mp.job.id, Cardinality(Below(m)), m>>
    BY <1>4
  <2>2. PICK n \in mp.miners : w = <<mp.job.id, Cardinality(Below(n)), n>>
    BY <1>4
  <2>3. m \in Nat /\ n \in Nat
    BY <1>1, XFacts
  <2>4. Cardinality(Below(m)) = Cardinality(Below(n))
    BY <1>8, <2>1, <2>2
  <2>5. ~(m < n) /\ ~(n < m)
    BY <1>3, <1>6, <2>4
  <2> QED BY <2>1, <2>2, <2>3, <2>5
<1> QED BY <1>1, <1>3, <1>4, <1>7, <1>8

(***************************************************************************)
(* A step of the pools                                                     *)
(***************************************************************************)

\* A step of the pools changes neither the miners of the mapper nor what it
\* files, and can only lose requests.
XMoved(new) ==
    /\ new \in XMapperType /\ upstream' = new
    /\ new.miners = upstream.miners /\ new.results = upstream.results
    /\ xinflight' \subseteq xinflight
    /\ UNCHANGED <<xminer, xsequence, xshares>>

\* The storage keeps its jobs.
XKeeps(new) ==
    /\ new.job = upstream.job /\ new.prevJob = upstream.prevJob
    /\ new.extraNonce = upstream.extraNonce /\ xwork' = xwork

\* The storage gets job j, which it hands out.
XGets(new, j) ==
    /\ new.job = j /\ new.prevJob = IF upstream.job.client = j.client THEN upstream.job ELSE XNoJob
    /\ new.extraNonce = Cardinality(upstream.miners)
    /\ new.saved = upstream.saved
    /\ xwork' \subseteq xwork \cup XHandedOut(new)

\* A job j that arrives from client c.
XArrives(j, c) == j = XJobOf(Len(xjobs) + 1, c, FALSE) /\ xjobs' = Append(xjobs, c)

LEMMA XMovedInv ==
    ASSUME ExtraInv, NEW new, XMoved(new),
           xjobs' \in Seq(Int), DOMAIN xjobs \subseteq DOMAIN xjobs',
           \A i \in DOMAIN xjobs : xjobs'[i] = xjobs[i]
    PROVE  XMinersIn' /\ XContexts'
<1>1. XMinersIn'
  BY DEF ExtraInv, XMinersIn, XMoved
<1>2. \A p \in xinflight' : p \in xinflight
  BY DEF XMoved
<1>3. XContexts
  BY DEF ExtraInv
<1>4. ExtraRouting'
  BY <1>2, <1>3 DEF XContexts, ExtraRouting, XMoved
<1> QED BY <1>1, <1>2, <1>3, <1>4 DEF XContexts, XMoved

LEMMA XArrival ==
    ASSUME ExtraInv, NEW j, NEW c \in Int, XArrives(j, c)
    PROVE  /\ xjobs' \in Seq(Int) /\ DOMAIN xjobs \subseteq DOMAIN xjobs'
           /\ \A i \in DOMAIN xjobs : xjobs'[i] = xjobs[i]
           /\ j \in XJobType /\ j.client = c /\ ~j.restored /\ j # XNoJob
           /\ j.id \notin DOMAIN xjobs /\ j.id \in DOMAIN xjobs' /\ xjobs'[j.id] = c
           /\ \A o \in XJobType : XJobKnown(o) => XJobKnown(o)' /\ o.id # j.id
           /\ \A w \in xwork : w[1] # j.id /\ w[1] \in DOMAIN xjobs'
<1>1. xjobs \in Seq(Int) /\ Len(xjobs) \in Nat /\ XWorkKept
  BY DEF ExtraInv, ExtraTypeOK
<1>2. j \in XJobType /\ j.id = Len(xjobs) + 1 /\ j.client = c /\ ~j.restored
  BY <1>1 DEF XArrives, XJobOf, XJobType
<1>3. /\ xjobs' \in Seq(Int) /\ DOMAIN xjobs' = 1..(Len(xjobs) + 1)
      /\ DOMAIN xjobs = 1..Len(xjobs) /\ xjobs'[Len(xjobs) + 1] = c
      /\ \A i \in DOMAIN xjobs : xjobs'[i] = xjobs[i]
  BY <1>1 DEF XArrives
<1>4. j.id \notin DOMAIN xjobs /\ j.id \in DOMAIN xjobs' /\ j # XNoJob /\ j.id # 0
  BY <1>1, <1>2, <1>3, XJobFields
<1>5. \A o \in XJobType : XJobKnown(o) => XJobKnown(o)' /\ o.id # j.id
  BY <1>1, <1>2, <1>3, <1>4, XJobFields DEF XJobKnown
<1>6. \A w \in xwork : w[1] # j.id /\ w[1] \in DOMAIN xjobs'
  BY <1>1, <1>3, <1>4 DEF XWorkKept
<1> QED BY <1>1, <1>2, <1>3, <1>4, <1>5, <1>6

\* What a job that is handed out makes of the extra nonces: the job is one of
\* which none was out.
LEMMA XGetsWork ==
    ASSUME ExtraInv, NEW new, NEW j \in XJobType, XMoved(new), XGets(new, j),
           j.id \in DOMAIN xjobs', \A w \in xwork : w[1] # j.id,
           DOMAIN xjobs \subseteq DOMAIN xjobs'
    PROVE  /\ xwork' \in SUBSET (Nat \X Nat \X XConns)
           /\ \A w \in xwork' : w[1] \in DOMAIN xjobs'
           /\ \A w \in xwork' : w[1] = new.job.id => w[2] < new.extraNonce
           /\ \A w \in xwork' : w \in xwork \/ w[1] = j.id
           /\ ExtraNoncesDistinct'
<1>1. /\ XHandedOut(new) \in SUBSET (Nat \X Nat \X XConns)
      /\ \A w \in XHandedOut(new) : w[1] = j.id /\ w[2] < new.extraNonce
      /\ \A v, w \in XHandedOut(new) : v[2] = w[2] => v[3] = w[3]
  BY XHandedOutRange DEF XMoved, XGets
<1>2. XWorkKept /\ xwork \in SUBSET (Nat \X Nat \X XConns)
  BY DEF ExtraInv, ExtraTypeOK
<1>3. \A w \in xwork' : w \in xwork \/ w \in XHandedOut(new)
  BY DEF XGets
<1>4. \A w \in xwork' : w[1] \in DOMAIN xjobs'
  BY <1>1, <1>2, <1>3 DEF XWorkKept
<1>5. \A w \in xwork' : w[1] = new.job.id => w[2] < new.extraNonce
  BY <1>1, <1>3 DEF XGets
<1>6. ASSUME NEW v \in xwork', NEW w \in xwork', v[1] = w[1], v[2] = w[2] PROVE v[3] = w[3]
  BY <1>1, <1>2, <1>3, <1>6 DEF XWorkKept, ExtraNoncesDistinct
<1> QED BY <1>1, <1>2, <1>3, <1>4, <1>5, <1>6 DEF ExtraNoncesDistinct

\* A step of the pools hands a new job out, saves it, hands the saved job out or
\* changes connections.
XPoolStep(new) ==
    /\ XMoved(new) /\ XIssued'
    /\ \/ \E j \in XJobType : /\ XArrives(j, j.client) /\ XGets(new, j)
                              /\ new.donating => upstream.donating
       \/ \E j \in XJobType : /\ j.client \in Pools /\ XArrives(j, j.client)
                              /\ XKeeps(new) /\ new.saved = j
       \/ /\ XGets(new, XRestored(upstream)) /\ ~new.donating /\ xjobs' = xjobs
          /\ upstream.donating /\ upstream.saved # XNoJob
       \/ /\ XKeeps(new) /\ xjobs' = xjobs
          /\ \/ new.saved = upstream.saved /\ (new.donating => upstream.donating)
             \/ new.saved = XNoJob

LEMMA XPoolStepInv ==
    ASSUME ExtraInv, NEW new, XPoolStep(new)
    PROVE  ExtraInv'
<1>1. /\ XMoved(new) /\ XIssued' /\ upstream' = new /\ new \in XMapperType
      /\ ExtraTypeOK /\ XJobsKnown /\ XWorkKept
      /\ UNCHANGED <<xminer, xsequence, xshares>> /\ xinflight' \subseteq xinflight
  BY DEF XPoolStep, XMoved, ExtraInv
<1>2. PICK old : old = upstream
  OBVIOUS
<1>3. /\ old.job \in XJobType /\ old.prevJob \in XJobType /\ old.saved \in XJobType
      /\ XJobKnown(old.job) /\ XJobKnown(old.prevJob) /\ XJobKnown(old.saved)
      /\ old.saved # XNoJob => old.saved.client \in Pools
      /\ xjobs \in Seq(Int) /\ xwork \in SUBSET (Nat \X Nat \X XConns)
  BY <1>1, <1>2, XFields DEF ExtraTypeOK, XJobsKnown
<1>4. ASSUME xjobs' \in Seq(Int), DOMAIN xjobs \subseteq DOMAIN xjobs',
             \A i \in DOMAIN xjobs : xjobs'[i] = xjobs[i],
             XJobKnown(new.job)', XJobKnown(new.prevJob)', XJobKnown(new.saved)',
             new.saved # XNoJob => new.saved.client \in Pools,
             XWorkKept', xwork' \in SUBSET (Nat \X Nat \X XConns)
      PROVE  ExtraInv'
  <2>1. ExtraTypeOK'
    BY <1>1, <1>4 DEF ExtraTypeOK
  <2>2. XMinersIn' /\ XContexts'
    BY <1>1, <1>4, XMovedInv
  <2>3. XJobsKnown'
    BY <1>1, <1>4 DEF XJobsKnown
  <2> QED BY <1>1, <1>4, <2>1, <2>2, <2>3 DEF ExtraInv
<1>5. XJobKnown(XNoJob)'
  BY DEF XJobKnown
<1>6. ASSUME NEW j \in XJobType, XArrives(j, j.client)
      PROVE  /\ xjobs' \in Seq(Int) /\ DOMAIN xjobs \subseteq DOMAIN xjobs'
             /\ \A i \in DOMAIN xjobs : xjobs'[i] = xjobs[i]
             /\ XJobKnown(j)' /\ j.id \in DOMAIN xjobs'
             /\ XJobKnown(old.job)' /\ XJobKnown(old.prevJob)' /\ XJobKnown(old.saved)'
             /\ old.job.id # j.id /\ old.saved.id # j.id
             /\ \A w \in xwork : w[1] # j.id /\ w[1] \in DOMAIN xjobs'
  <2>1. j.client \in Int
    BY DEF XJobType
  <2>2. /\ xjobs' \in Seq(Int) /\ DOMAIN xjobs \subseteq DOMAIN xjobs'
        /\ \A i \in DOMAIN xjobs : xjobs'[i] = xjobs[i]
        /\ j.id \in DOMAIN xjobs' /\ xjobs'[j.id] = j.client
        /\ \A o \in XJobType : XJobKnown(o) => XJobKnown(o)' /\ o.id # j.id
        /\ \A w \in xwork : w[1] # j.id /\ w[1] \in DOMAIN xjobs'
    BY <1>6, <2>1, XArrival
  <2>3. XJobKnown(j)'
    BY <2>2 DEF XJobKnown
  <2> QED BY <1>3, <2>2, <2>3
<1>7. ASSUME NEW j \in XJobType, XArrives(j, j.client), XGets(new, j),
             new.donating => upstream.donating
      PROVE  ExtraInv'
  <2>1. new.job = j /\ new.saved = old.saved /\ new.prevJob \in {old.job, XNoJob}
    BY <1>2, <1>7 DEF XGets
  <2>2. XJobKnown(new.job)' /\ XJobKnown(new.prevJob)' /\ XJobKnown(new.saved)'
    BY <1>5, <1>6, <1>7, <2>1
  <2>3. /\ xwork' \in SUBSET (Nat \X Nat \X XConns)
        /\ \A w \in xwork' : w[1] \in DOMAIN xjobs'
        /\ \A w \in xwork' : w[1] = new.job.id => w[2] < new.extraNonce
        /\ \A w \in xwork' : w \in xwork \/ w[1] = j.id
        /\ ExtraNoncesDistinct'
    BY <1>1, <1>6, <1>7, XGetsWork
  <2>4. new.donating /\ new.saved # XNoJob =>
           new.saved.id # new.job.id /\ \A w \in xwork' : w[1] # new.saved.id
    BY <1>1, <1>2, <1>6, <1>7, <2>1, <2>3 DEF XWorkKept
  <2>5. XWorkKept'
    BY <1>1, <2>3, <2>4 DEF XWorkKept
  <2> QED BY <1>3, <1>4, <1>6, <1>7, <2>1, <2>2, <2>3, <2>5
<1>8. ASSUME NEW j \in XJobType, j.client \in Pools, XArrives(j, j.client), XKeeps(new),
             new.saved = j
      PROVE  ExtraInv'
  <2>1. /\ new.job = old.job /\ new.prevJob = old.prevJob /\ new.extraNonce = old.extraNonce
        /\ xwork' = xwork
    BY <1>2, <1>8 DEF XKeeps
  <2>2. XWorkKept'
    BY <1>1, <1>2, <1>6, <1>8, <2>1 DEF XWorkKept, ExtraNoncesDistinct
  <2> QED BY <1>3, <1>4, <1>6, <1>8, <2>1, <2>2
<1>9. ASSUME XGets(new, XRestored(upstream)), ~new.donating, xjobs' = xjobs,
             upstream.donating, upstream.saved # XNoJob
      PROVE  ExtraInv'
  <2>1. PICK j : j = XRestored(old)
    OBVIOUS
  <2>2. /\ j \in XJobType /\ j.id = old.saved.id /\ j.client = old.saved.client
        /\ j.id \in DOMAIN xjobs /\ xjobs[j.id] = j.client
    <3>1. old.saved.id \in Nat /\ old.saved.client \in Int
      BY <1>3 DEF XJobType
    <3>2. j \in XJobType /\ j.id = old.saved.id /\ j.client = old.saved.client
      BY <2>1, <3>1, XJobFields DEF XRestored
    <3> QED BY <1>2, <1>3, <1>9, <3>2 DEF XJobKnown
  <2>3. XGets(new, j) /\ \A w \in xwork : w[1] # j.id
    BY <1>1, <1>2, <1>9, <2>1, <2>2 DEF XWorkKept
  <2>4. new.job = j /\ new.saved = old.saved /\ new.prevJob \in {old.job, XNoJob}
    BY <1>2, <2>3 DEF XGets
  <2>5. XJobKnown(j)' /\ XJobKnown(old.job)' /\ XJobKnown(old.saved)'
    BY <1>3, <1>9, <2>2 DEF XJobKnown
  <2>6. XJobKnown(new.job)' /\ XJobKnown(new.prevJob)' /\ XJobKnown(new.saved)'
    BY <1>5, <2>4, <2>5
  <2>7. /\ xwork' \in SUBSET (Nat \X Nat \X XConns)
        /\ \A w \in xwork' : w[1] \in DOMAIN xjobs'
        /\ \A w \in xwork' : w[1] = new.job.id => w[2] < new.extraNonce
        /\ ExtraNoncesDistinct'
    BY <1>1, <1>9, <2>2, <2>3, XGetsWork
  <2>8. XWorkKept'
    BY <1>1, <1>9, <2>7 DEF XWorkKept
  <2> QED BY <1>3, <1>4, <1>9, <2>4, <2>6, <2>7, <2>8
<1>10. ASSUME XKeeps(new), xjobs' = xjobs,
              \/ new.saved = upstream.saved /\ (new.donating => upstream.donating)
              \/ new.saved = XNoJob
       PROVE  ExtraInv'
  <2>1. /\ new.job = old.job /\ new.prevJob = old.prevJob /\ new.extraNonce = old.extraNonce
        /\ xwork' = xwork /\ new.saved \in {old.saved, XNoJob}
    BY <1>2, <1>10 DEF XKeeps
  <2>2. XJobKnown(new.job)' /\ XJobKnown(new.prevJob)' /\ XJobKnown(new.saved)'
    BY <1>3, <1>5, <1>10, <2>1 DEF XJobKnown
  <2>3. XWorkKept'
    BY <1>1, <1>2, <1>10, <2>1 DEF XWorkKept, ExtraNoncesDistinct
  <2> QED BY <1>3, <1>4, <1>10, <2>1, <2>2, <2>3
<1> QED BY <1>7, <1>8, <1>9, <1>10 DEF XPoolStep

\* setJob, and what the mapper hands out.
LEMMA XSetJobFields ==
    ASSUME NEW mp \in XMapperType, NEW j \in XJobType
    PROVE  LET new == XStorageSetJob(mp, j)
           IN  /\ new \in XMapperType /\ new.job = j
               /\ new.prevJob = IF mp.job.client = j.client THEN mp.job ELSE XNoJob
               /\ new.extraNonce = Cardinality(mp.miners)
               /\ new.active = mp.active /\ new.miners = mp.miners /\ new.results = mp.results
               /\ new.strategy = mp.strategy /\ new.donate = mp.donate
               /\ new.donating = mp.donating /\ new.saved = mp.saved
<1> DEFINE prev == IF mp.job.client = j.client THEN mp.job ELSE XNoJob
           n    == Cardinality(mp.miners)
<1>1. XStorageSetJob(mp, j) = [mp EXCEPT !.prevJob = prev, !.job = j, !.extraNonce = n]
  BY DEF XStorageSetJob
<1>2. prev \in XJobType /\ n \in Nat
  BY XFields, XJobFields, XMinerCount
<1> HIDE DEF prev, n
<1>3. LET new == XStorageSetJob(mp, j)
      IN  /\ new \in XMapperType /\ new.job = j /\ new.prevJob = prev /\ new.extraNonce = n
          /\ new.active = mp.active /\ new.miners = mp.miners /\ new.results = mp.results
          /\ new.strategy = mp.strategy /\ new.donate = mp.donate
          /\ new.donating = mp.donating /\ new.saved = mp.saved
  BY <1>1, <1>2 DEF XMapperType
<1> QED BY <1>3 DEF prev, n

LEMMA XHandingWork ==
    ASSUME NEW mp, XHanding(mp)
    PROVE  /\ upstream' = mp /\ xwork' \subseteq xwork \cup XHandedOut(mp)
           /\ mp.job = upstream.job => xwork' = xwork
BY DEF XHanding

LEMMA XStrategyJobInv ==
    ASSUME ExtraInv, NEW pool \in Pools, XStrategyJob(pool)
    PROVE  ExtraInv'
<1>1. PICK old : old = upstream
  OBVIOUS
<1> DEFINE off == 0
<1>2. PICK mp : mp = IF old.strategy # pool THEN [old EXCEPT !.active = TRUE, !.strategy = pool] ELSE old
  OBVIOUS
<1>3. PICK j : j = XJobOf(Len(xjobs) + 1, pool, FALSE)
  OBVIOUS
<1>4. old \in XMapperType /\ XIssued /\ xjobs \in Seq(Int)
  BY <1>1 DEF ExtraInv, ExtraTypeOK
<1>5. pool \in Nat /\ pool > 0 /\ pool \in Int
  BY XFacts
<1>6. /\ mp \in XMapperType /\ mp.strategy = pool /\ mp.job = old.job /\ mp.prevJob = old.prevJob
      /\ mp.extraNonce = old.extraNonce /\ mp.miners = old.miners /\ mp.results = old.results
      /\ mp.donate = old.donate /\ mp.donating = old.donating /\ mp.saved = old.saved
  <2>1. CASE old.strategy # pool
    BY <1>2, <1>4, <2>1 DEF XMapperType
  <2>2. CASE old.strategy = pool
    BY <1>2, <1>4, <2>2
  <2> QED BY <2>1, <2>2
<1>7. XArrives(j, pool)
  BY <1>3 DEF XArrives, XStrategyJob
<1>8. j \in XJobType /\ j.client = pool /\ ~j.restored /\ j # XNoJob
  BY <1>5, <1>7, XArrival
<1>9. PICK over \in BOOLEAN :
         /\ XHanding(XOnJob(mp, j, FALSE, over))
         /\ xinflight' \subseteq xinflight
         /\ UNCHANGED <<xminer, xsequence, xshares>>
  <2>1. Len(xjobs') = Len(xjobs) + 1
    BY <1>4, <1>7 DEF XArrives
  <2> QED BY <1>1, <1>2, <1>3, <2>1 DEF XStrategyJob
<1>10. PICK set : set = XStorageSetJob(mp, j)
  OBVIOUS
<1>11. /\ set \in XMapperType /\ set.job = j
       /\ set.prevJob = IF old.job.client = pool THEN old.job ELSE XNoJob
       /\ set.extraNonce = Cardinality(old.miners)
       /\ set.miners = old.miners /\ set.results = old.results
       /\ set.strategy = pool /\ set.donate = old.donate
       /\ set.donating = old.donating /\ set.saved = old.saved
  BY <1>6, <1>8, <1>10, XSetJobFields
<1>12. PICK new : new = XOnJob(mp, j, FALSE, over)
  OBVIOUS
<1>13. new = IF old.donate # 0
               THEN IF over THEN [set EXCEPT !.donate = 0, !.donating = FALSE]
                            ELSE [mp EXCEPT !.saved = j]
               ELSE set
  BY <1>6, <1>10, <1>12 DEF XOnJob
<1>14. /\ upstream' = new /\ xwork' \subseteq xwork \cup XHandedOut(new)
       /\ new.job = old.job => xwork' = xwork
  BY <1>1, <1>9, <1>12, XHandingWork
<1>15. CASE old.donate # 0 /\ ~over
  <2>1. new = [mp EXCEPT !.saved = j]
    BY <1>13, <1>15
  <2>2. /\ new \in XMapperType /\ new.saved = j /\ new.job = old.job /\ new.prevJob = old.prevJob
        /\ new.extraNonce = old.extraNonce /\ new.miners = old.miners /\ new.results = old.results
        /\ new.donate = old.donate /\ new.donating = old.donating
    BY <1>6, <1>8, <2>1 DEF XMapperType
  <2>3. XMoved(new) /\ XKeeps(new)
    BY <1>1, <1>9, <1>14, <2>2 DEF XMoved, XKeeps
  <2>4. XIssued'
    BY <1>1, <1>4, <1>14, <1>15, <2>2, XJobFields DEF XIssued
  <2>5. XPoolStep(new)
    BY <1>7, <1>8, <2>2, <2>3, <2>4 DEF XPoolStep
  <2> QED BY <2>5, XPoolStepInv
<1>16. CASE ~(old.donate # 0 /\ ~over)
  <2>1. /\ new \in XMapperType /\ new.job = j
        /\ new.prevJob = IF old.job.client = pool THEN old.job ELSE XNoJob
        /\ new.extraNonce = Cardinality(old.miners)
        /\ new.miners = old.miners /\ new.results = old.results
        /\ new.strategy = pool /\ new.donate = 0
        /\ new.donating => old.donating /\ new.saved = old.saved
        /\ new.saved = old.saved
    <3>1. CASE old.donate # 0
      <4>1. new = [set EXCEPT !.donate = off, !.donating = FALSE]
        BY <1>13, <1>16, <3>1
      <4>2. off \in Int /\ off = 0
        OBVIOUS
      <4> HIDE DEF off
      <4> QED BY <1>11, <4>1, <4>2 DEF XMapperType
    <3>2. CASE old.donate = 0
      BY <1>11, <1>13, <3>2
    <3> QED BY <3>1, <3>2
  <2>2. XMoved(new) /\ XGets(new, j)
    BY <1>1, <1>8, <1>9, <1>14, <2>1 DEF XMoved, XGets
  <2>3. XIssued'
    BY <1>8, <1>14, <2>1 DEF XIssued
  <2>4. XPoolStep(new)
    BY <1>1, <1>7, <1>8, <2>1, <2>2, <2>3 DEF XPoolStep
  <2> QED BY <2>4, XPoolStepInv
<1> QED BY <1>15, <1>16

LEMMA XStrategyPauseInv ==
    ASSUME ExtraInv, XStrategyPause
    PROVE  ExtraInv'
<1>1. PICK old : old = upstream
  OBVIOUS
<1>2. PICK new : new = [old EXCEPT !.active = FALSE, !.strategy = 0]
  OBVIOUS
<1>3. old \in XMapperType /\ XIssued
  BY <1>1 DEF ExtraInv, ExtraTypeOK
<1>4. /\ new \in XMapperType /\ new.job = old.job /\ new.prevJob = old.prevJob
      /\ new.extraNonce = old.extraNonce /\ new.miners = old.miners /\ new.results = old.results
      /\ new.donate = old.donate /\ new.donating = old.donating /\ new.saved = old.saved
      /\ ~new.active
  BY <1>2, <1>3 DEF XMapperType
<1>5. /\ upstream' = new /\ xinflight' \subseteq xinflight
      /\ UNCHANGED <<xminer, xjobs, xsequence, xshares, xwork>>
  BY <1>1, <1>2 DEF XStrategyPause
<1>6. XMoved(new) /\ XKeeps(new)
  BY <1>1, <1>4, <1>5 DEF XMoved, XKeeps
<1>7. XIssued'
  BY <1>1, <1>3, <1>4, <1>5 DEF XIssued
<1>8. XPoolStep(new)
  BY <1>1, <1>4, <1>5, <1>6, <1>7 DEF XPoolStep
<1> QED BY <1>8, XPoolStepInv

LEMMA XDonateStartInv ==
    ASSUME ExtraInv, XDonateStart
    PROVE  ExtraInv'
<1>1. PICK old : old = upstream
  OBVIOUS
<1>2. PICK new : new = [old EXCEPT !.donating = TRUE, !.saved = XNoJob]
  OBVIOUS
<1>3. old \in XMapperType /\ XIssued
  BY <1>1 DEF ExtraInv, ExtraTypeOK
<1>4. /\ new \in XMapperType /\ new.job = old.job /\ new.prevJob = old.prevJob
      /\ new.extraNonce = old.extraNonce /\ new.miners = old.miners /\ new.results = old.results
      /\ new.donate = old.donate /\ new.active = old.active /\ new.strategy = old.strategy
      /\ new.donating /\ new.saved = XNoJob
  BY <1>2, <1>3, XJobFields DEF XMapperType
<1>5. /\ upstream' = new /\ UNCHANGED <<xminer, xjobs, xsequence, xshares, xwork, xinflight>>
  BY <1>1, <1>2 DEF XDonateStart
<1>6. XMoved(new) /\ XKeeps(new)
  BY <1>1, <1>4, <1>5 DEF XMoved, XKeeps
<1>7. XIssued'
  BY <1>1, <1>3, <1>4, <1>5 DEF XIssued
<1>8. XPoolStep(new)
  BY <1>1, <1>4, <1>5, <1>6, <1>7 DEF XPoolStep
<1> QED BY <1>8, XPoolStepInv

LEMMA XDonateLostInv ==
    ASSUME ExtraInv, XDonateLost
    PROVE  ExtraInv'
<1>1. PICK old : old = upstream
  OBVIOUS
<1> DEFINE off == 0
<1>2. PICK new : new = [old EXCEPT !.active = FALSE, !.donate = off]
  OBVIOUS
<1>3. old \in XMapperType /\ XIssued
  BY <1>1 DEF ExtraInv, ExtraTypeOK
<1>4. /\ new \in XMapperType /\ new.job = old.job /\ new.prevJob = old.prevJob
      /\ new.extraNonce = old.extraNonce /\ new.miners = old.miners /\ new.results = old.results
      /\ new.donate = 0 /\ new.donating = old.donating /\ new.saved = old.saved
      /\ ~new.active
  <2>1. off \in Int /\ off = 0
    OBVIOUS
  <2> HIDE DEF off
  <2> QED BY <1>2, <1>3, <2>1 DEF XMapperType
<1>5. /\ upstream' = new /\ xinflight' \subseteq xinflight
      /\ UNCHANGED <<xminer, xjobs, xsequence, xshares, xwork>>
  BY <1>1, <1>2 DEF XDonateLost
<1>6. XMoved(new) /\ XKeeps(new)
  BY <1>1, <1>4, <1>5 DEF XMoved, XKeeps
<1>7. XIssued'
  BY <1>1, <1>3, <1>4, <1>5 DEF XIssued
<1>8. XPoolStep(new)
  BY <1>1, <1>4, <1>5, <1>6, <1>7 DEF XPoolStep
<1> QED BY <1>8, XPoolStepInv

LEMMA XDonateJobInv ==
    ASSUME ExtraInv, XDonateJob
    PROVE  ExtraInv'
<1>1. PICK old : old = upstream
  OBVIOUS
<1>2. PICK c : c = IF old.donate = 0 THEN -Len(xjobs) - 1 ELSE old.donate
  OBVIOUS
<1>3. PICK act : act = IF old.donate = 0 THEN TRUE ELSE old.active
  OBVIOUS
<1>4. PICK mp, j : mp = [old EXCEPT !.active = act, !.donate = c] /\ j = XJobOf(Len(xjobs) + 1, c, FALSE)
  OBVIOUS
<1>5. old \in XMapperType /\ XIssued /\ xjobs \in Seq(Int) /\ Len(xjobs) \in Nat
  BY <1>1 DEF ExtraInv, ExtraTypeOK
<1>6. c \in Int /\ c < 0
  <2>1. old.donate \in Int /\ old.donate <= 0
    BY <1>1, <1>5, XFields DEF XIssued
  <2> QED BY <1>2, <1>5, <2>1
<1>7. act \in BOOLEAN
  <2>1. CASE old.donate = 0
    BY <1>3, <2>1
  <2>2. CASE old.donate # 0
    BY <1>3, <1>5, <2>2, XFields
  <2> QED BY <2>1, <2>2
<1>8. /\ old.donating /\ XArrives(j, c)
      /\ XHanding(XOnJob(mp, j, TRUE, FALSE))
      /\ UNCHANGED <<xminer, xsequence, xshares, xinflight>>
  <2>1. old.donating /\ XArrives(j, c) /\ UNCHANGED <<xminer, xsequence, xshares, xinflight>>
    BY <1>1, <1>2, <1>4 DEF XDonateJob, XArrives
  <2>2. Len(xjobs') = Len(xjobs) + 1
    BY <1>5, <1>6, <2>1 DEF XArrives
  <2>3. mp = [old EXCEPT !.active = IF old.donate = 0 THEN TRUE ELSE @, !.donate = c]
    BY <1>3, <1>4, <1>5
  <2> QED BY <1>1, <1>2, <1>4, <2>1, <2>2, <2>3 DEF XDonateJob
<1>9. j \in XJobType /\ j.client = c /\ ~j.restored /\ j # XNoJob
  BY <1>6, <1>8, XArrival
<1>10. /\ mp \in XMapperType /\ mp.job = old.job /\ mp.miners = old.miners
       /\ mp.results = old.results /\ mp.donate = c /\ mp.donating /\ mp.saved = old.saved
  BY <1>4, <1>5, <1>6, <1>7, <1>8 DEF XMapperType
<1>11. PICK new : new = XStorageSetJob(mp, j)
  OBVIOUS
<1>12. /\ new \in XMapperType /\ new.job = j
       /\ new.prevJob = IF old.job.client = c THEN old.job ELSE XNoJob
       /\ new.extraNonce = Cardinality(old.miners)
       /\ new.miners = old.miners /\ new.results = old.results
       /\ new.donate = c /\ new.donating /\ new.saved = old.saved
  BY <1>9, <1>10, <1>11, XSetJobFields
<1>13. upstream' = new /\ xwork' \subseteq xwork \cup XHandedOut(new)
  BY <1>8, <1>11, XHandingWork DEF XOnJob
<1>14. XMoved(new) /\ XGets(new, j)
  BY <1>1, <1>8, <1>9, <1>12, <1>13 DEF XMoved, XGets
<1>15. XIssued'
  BY <1>6, <1>9, <1>12, <1>13 DEF XIssued
<1>16. XPoolStep(new)
  BY <1>1, <1>8, <1>9, <1>12, <1>14, <1>15 DEF XPoolStep
<1> QED BY <1>16, XPoolStepInv

LEMMA XDonateEndInv ==
    ASSUME ExtraInv, XDonateEnd
    PROVE  ExtraInv'
<1>1. PICK old, j : old = upstream /\ j = XRestored(old)
  OBVIOUS
<1>2. old \in XMapperType /\ XIssued /\ XJobsKnown
  BY <1>1 DEF ExtraInv, ExtraTypeOK
<1>3. old.donate # 0 /\ old.saved # XNoJob
  BY <1>1 DEF XDonateEnd
<1>4. /\ j \in XJobType /\ j.client = old.saved.client /\ j.restored /\ j.id = old.saved.id
  <2>1. old.saved.id \in Nat /\ old.saved.client \in Int
    BY <1>2, XFields DEF XJobType
  <2> QED BY <1>1, <2>1, XJobFields DEF XRestored
<1>5. j # XNoJob
  BY <1>4, XJobFields
<1>6. old.job.client # j.client /\ old.donating
  <2>1. j.client \in Pools
    BY <1>1, <1>2, <1>3, <1>4 DEF XJobsKnown
  <2>2. j.client > 0 /\ j.client \in Int
    BY <2>1, XFacts
  <2>3. old.job.client = old.donate /\ old.donate <= 0 /\ old.donate \in Int /\ old.donating
    BY <1>1, <1>2, <1>3, XFields DEF XIssued
  <2> QED BY <2>2, <2>3
<1>7. PICK set : set = XStorageSetJob(old, j)
  OBVIOUS
<1>8. /\ set \in XMapperType /\ set.job = j /\ set.prevJob = XNoJob
      /\ set.extraNonce = Cardinality(old.miners)
      /\ set.miners = old.miners /\ set.results = old.results /\ set.saved = old.saved
  BY <1>2, <1>4, <1>6, <1>7, XSetJobFields
<1> DEFINE off == 0
<1>9. PICK new : new = [set EXCEPT !.donate = off, !.donating = FALSE]
  OBVIOUS
<1>10. /\ new \in XMapperType /\ new.job = j /\ new.prevJob = XNoJob
       /\ new.extraNonce = Cardinality(old.miners)
       /\ new.miners = old.miners /\ new.results = old.results /\ new.saved = old.saved
       /\ new.donate = 0 /\ ~new.donating
  <2>1. off \in Int /\ off = 0
    OBVIOUS
  <2> HIDE DEF off
  <2> QED BY <1>8, <1>9, <2>1 DEF XMapperType
<1>11. /\ upstream' = new /\ xwork' \subseteq xwork \cup XHandedOut(new)
       /\ xinflight' \subseteq xinflight /\ UNCHANGED <<xminer, xjobs, xsequence, xshares>>
  <2>1. XHanding(new) /\ xinflight' \subseteq xinflight /\ UNCHANGED <<xminer, xjobs, xsequence, xshares>>
    BY <1>1, <1>7, <1>9 DEF XDonateEnd
  <2> QED BY <2>1, XHandingWork
<1>12. XMoved(new) /\ XGets(new, XRestored(upstream))
  BY <1>1, <1>6, <1>10, <1>11 DEF XMoved, XGets
<1>13. XIssued'
  BY <1>4, <1>5, <1>10, <1>11 DEF XIssued
<1>14. XPoolStep(new)
  BY <1>1, <1>3, <1>6, <1>10, <1>11, <1>12, <1>13 DEF XPoolStep
<1> QED BY <1>14, XPoolStepInv

\* A step of the miners leaves the jobs of the mapper alone.
LEMMA XLoginInv ==
    ASSUME ExtraInv, NEW m \in XConns, XLogin(m)
    PROVE  ExtraInv'
<1>1. PICK old : old = upstream
  OBVIOUS
<1>2. PICK n : n = IF old.active THEN old.extraNonce + 1 ELSE old.extraNonce
  OBVIOUS
<1>3. PICK new : new = [old EXCEPT !.miners = old.miners \cup {m}, !.extraNonce = n]
  OBVIOUS
<1>4. /\ ExtraTypeOK /\ XMinersIn /\ XJobsKnown /\ XWorkKept /\ XIssued /\ XContexts
      /\ old \in XMapperType
  BY <1>1 DEF ExtraInv, ExtraTypeOK
<1>5. old.extraNonce \in Nat /\ n \in Nat /\ old.miners \cup {m} \in SUBSET XConns
  BY <1>2, <1>4, XFields
<1>6. /\ new \in XMapperType /\ new.miners = old.miners \cup {m} /\ new.extraNonce = n
      /\ new.job = old.job /\ new.prevJob = old.prevJob /\ new.saved = old.saved
      /\ new.results = old.results /\ new.donate = old.donate /\ new.active = old.active
      /\ new.strategy = old.strategy /\ new.donating = old.donating
  BY <1>3, <1>4, <1>5 DEF XMapperType
<1>7. /\ xminer' = [xminer EXCEPT ![m] = "in"] /\ upstream' = new
      /\ xwork' = IF old.active THEN xwork \cup {<<old.job.id, old.extraNonce, m>>} ELSE xwork
      /\ UNCHANGED <<xjobs, xsequence, xshares, xinflight>>
  <2>1. new = XStorageAdd(old, m)
    BY <1>2, <1>3, <1>4 DEF XStorageAdd
  <2> QED BY <1>1, <2>1 DEF XLogin
<1>8. xminer' \in [XConns -> {"new", "in", "closed"}] /\ xminer'[m] = "in"
      /\ \A l \in XConns : l # m => xminer'[l] = xminer[l]
  BY <1>4, <1>7 DEF ExtraTypeOK
<1>9. old.active => old.job.id \in DOMAIN xjobs /\ old.job.id \in Nat
  <2>1. old.job \in XJobType
    BY <1>4, XFields
  <2> QED BY <1>1, <1>4, <2>1 DEF XIssued, XJobsKnown, XJobKnown, XJobType
<1>10. ExtraTypeOK'
  <2>1. xwork' \in SUBSET (Nat \X Nat \X XConns)
    BY <1>4, <1>5, <1>7, <1>9 DEF ExtraTypeOK
  <2> QED BY <1>4, <1>6, <1>7, <1>8, <2>1 DEF ExtraTypeOK
<1>11. XMinersIn'
  <2>1. old.miners \subseteq XConns
    BY <1>4, XFields
  <2> QED BY <1>1, <1>4, <1>6, <1>7, <1>8, <2>1 DEF XMinersIn
<1>12. XJobsKnown'
  BY <1>1, <1>4, <1>6, <1>7 DEF XJobsKnown, XJobKnown
<1>13. XWorkKept'
  <2>1. \A w \in xwork' : \/ w \in xwork
                          \/ old.active /\ w = <<old.job.id, old.extraNonce, m>>
    BY <1>7
  <2>2. \A w \in xwork : w[2] \in Nat
    BY <1>4 DEF ExtraTypeOK
  <2>3. \A w \in xwork : w[1] = old.job.id => w[2] < old.extraNonce
    BY <1>1, <1>4 DEF XWorkKept
  <2>4. \A w \in xwork' : w[1] \in DOMAIN xjobs'
    BY <1>4, <1>7, <1>9, <2>1 DEF XWorkKept
  <2>5. \A w \in xwork' : w[1] = new.job.id => w[2] < new.extraNonce
    BY <1>2, <1>5, <1>6, <2>1, <2>2, <2>3
  <2>6. new.donating /\ new.saved # XNoJob =>
           new.saved.id # new.job.id /\ \A w \in xwork' : w[1] # new.saved.id
    BY <1>1, <1>4, <1>6, <2>1 DEF XWorkKept
  <2>7. ASSUME NEW v \in xwork', NEW w \in xwork', v[1] = w[1], v[2] = w[2] PROVE v[3] = w[3]
    <3>1. CASE v \in xwork /\ w \in xwork
      BY <1>4, <2>7, <3>1 DEF XWorkKept, ExtraNoncesDistinct
    <3>2. CASE v \notin xwork \/ w \notin xwork
      BY <1>5, <2>1, <2>2, <2>3, <2>7, <3>2
    <3> QED BY <3>1, <3>2
  <2> QED BY <1>7, <2>4, <2>5, <2>6, <2>7 DEF XWorkKept, ExtraNoncesDistinct
<1>14. XIssued'
  BY <1>1, <1>4, <1>6, <1>7 DEF XIssued
<1>15. XContexts'
  BY <1>1, <1>4, <1>6, <1>7 DEF XContexts, ExtraRouting
<1> QED BY <1>10, <1>11, <1>12, <1>13, <1>14, <1>15 DEF ExtraInv

LEMMA XRemoveInv ==
    ASSUME ExtraInv, NEW m \in XConns, XRemove(m)
    PROVE  ExtraInv'
<1>1. PICK old : old = upstream
  OBVIOUS
<1>2. PICK new : new = [old EXCEPT !.miners = old.miners \ {m}]
  OBVIOUS
<1>3. /\ ExtraTypeOK /\ XMinersIn /\ XJobsKnown /\ XWorkKept /\ XIssued /\ XContexts
      /\ old \in XMapperType
  BY <1>1 DEF ExtraInv, ExtraTypeOK
<1>4. old.miners \subseteq XConns
  BY <1>3, XFields
<1>5. /\ new \in XMapperType /\ new.miners = old.miners \ {m} /\ new.extraNonce = old.extraNonce
      /\ new.job = old.job /\ new.prevJob = old.prevJob /\ new.saved = old.saved
      /\ new.results = old.results /\ new.donate = old.donate /\ new.active = old.active
      /\ new.strategy = old.strategy /\ new.donating = old.donating
  BY <1>2, <1>3, <1>4 DEF XMapperType
<1>6. /\ xminer' = [xminer EXCEPT ![m] = "closed"] /\ upstream' = new
      /\ UNCHANGED <<xjobs, xsequence, xshares, xinflight, xwork>>
  BY <1>1, <1>2 DEF XRemove, XStorageRemove
<1>7. ExtraTypeOK'
  BY <1>3, <1>5, <1>6 DEF ExtraTypeOK
<1>8. XMinersIn'
  <2>1. \A l \in XConns : l # m => xminer'[l] = xminer[l]
    BY <1>3, <1>6 DEF ExtraTypeOK
  <2> QED BY <1>1, <1>3, <1>4, <1>5, <1>6, <2>1 DEF XMinersIn
<1>9. XJobsKnown'
  BY <1>1, <1>3, <1>5, <1>6 DEF XJobsKnown, XJobKnown
<1>10. XWorkKept'
  BY <1>1, <1>3, <1>5, <1>6 DEF XWorkKept, ExtraNoncesDistinct
<1>11. XIssued'
  BY <1>1, <1>3, <1>5, <1>6 DEF XIssued
<1>12. XContexts'
  BY <1>1, <1>3, <1>5, <1>6 DEF XContexts, ExtraRouting
<1> QED BY <1>7, <1>8, <1>9, <1>10, <1>11, <1>12 DEF ExtraInv

\* A request goes to the client of its job, or its job was restored.
LEMMA XRequestRouted ==
    ASSUME ExtraInv, NEW id \in DOMAIN xjobs, upstream.active, XIsValidJobId(upstream, id),
           XUpstream(upstream) # 0, NEW seq \in Nat, NEW req \in Nat
    PROVE  LET p == XRequest(upstream, seq, req, id)
           IN  /\ p \in XRequestType /\ p.seq = seq /\ p.req = req /\ p.job = id
               /\ xjobs[id] = p.client \/ (p.restored /\ p.client \in 1..XPools)
<1>1. PICK mp : mp = upstream
  OBVIOUS
<1>2. PICK p : p = XRequest(mp, seq, req, id)
  OBVIOUS
<1>3. mp \in XMapperType /\ XJobsKnown /\ XIssued /\ xjobs \in Seq(Int) /\ id \in Nat
  BY <1>1 DEF ExtraInv, ExtraTypeOK
<1>4. /\ mp.job \in XJobType /\ mp.prevJob \in XJobType /\ mp.strategy \in Pools \cup {0}
      /\ mp.donate \in Int
  BY <1>3, XFields
<1>5. XUpstream(mp) \in Int
  BY <1>4, XFacts DEF XUpstream
<1>6. PICK r \in BOOLEAN : r = IF mp.job.id = id THEN mp.job.restored ELSE mp.prevJob.restored
  BY <1>4 DEF XJobType
<1>7. p = [seq |-> seq, req |-> req, job |-> id, client |-> XUpstream(mp), restored |-> r]
  BY <1>2, <1>6 DEF XRequest
<1>8. /\ p \in XRequestType /\ p.seq = seq /\ p.req = req /\ p.job = id
      /\ p.client = XUpstream(mp) /\ p.restored = r
  BY <1>3, <1>5, <1>7 DEF XRequestType
<1>9. id # 0 /\ (mp.job.id = id \/ (mp.prevJob # XNoJob /\ mp.prevJob.id = id))
  BY <1>1, <1>3 DEF XIsValidJobId
<1>10. xjobs[id] = mp.job.client /\ (r = mp.job.restored \/ ~mp.job.restored)
  <2>1. CASE mp.job.id = id
    BY <1>1, <1>3, <1>6, <1>9, <2>1, XJobFields DEF XJobsKnown, XJobKnown
  <2>2. CASE mp.job.id # id
    BY <1>1, <1>3, <1>6, <1>9, <2>2, XJobFields DEF XJobsKnown, XJobKnown, XIssued
  <2> QED BY <2>1, <2>2
<1>11. xjobs[id] = p.client \/ (p.restored /\ p.client \in 1..XPools)
  <2>1. CASE mp.donate # 0
    BY <1>1, <1>3, <1>8, <1>10, <2>1 DEF XIssued, XUpstream
  <2>2. CASE mp.donate = 0
    <3>1. p.client = mp.strategy /\ mp.strategy # 0
      BY <1>1, <1>8, <2>2 DEF XUpstream
    <3>2. mp.job.client = mp.strategy \/ mp.job.restored
      BY <1>1, <1>3, <2>2, <3>1 DEF XIssued
    <3> QED BY <1>4, <1>8, <1>10, <3>1, <3>2 DEF Pools
  <2> QED BY <2>1, <2>2
<1> QED BY <1>1, <1>2, <1>8, <1>11

\* A step that files or answers a share.
LEMMA XResultsStep ==
    ASSUME ExtraInv, NEW R \in SUBSET XContextType,
           upstream' = [upstream EXCEPT !.results = R], UNCHANGED <<xminer, xjobs, xwork>>
    PROVE  /\ upstream' \in XMapperType /\ upstream'.results = R
           /\ upstream'.miners = upstream.miners
           /\ XMinersIn' /\ XJobsKnown' /\ XWorkKept' /\ XIssued'
<1>1. PICK old, new : old = upstream /\ new = [old EXCEPT !.results = R]
  OBVIOUS
<1>2. old \in XMapperType /\ XMinersIn /\ XJobsKnown /\ XWorkKept /\ XIssued
  BY <1>1 DEF ExtraInv, ExtraTypeOK
<1>3. /\ new \in XMapperType /\ new.miners = old.miners /\ new.extraNonce = old.extraNonce
      /\ new.job = old.job /\ new.prevJob = old.prevJob /\ new.saved = old.saved
      /\ new.results = R /\ new.donate = old.donate /\ new.active = old.active
      /\ new.strategy = old.strategy /\ new.donating = old.donating
  BY <1>1, <1>2 DEF XMapperType
<1>4. upstream' = new
  BY <1>1
<1>5. XMinersIn'
  BY <1>1, <1>2, <1>3, <1>4 DEF XMinersIn
<1>6. XJobsKnown'
  BY <1>1, <1>2, <1>3, <1>4 DEF XJobsKnown, XJobKnown
<1>7. XWorkKept'
  BY <1>1, <1>2, <1>3, <1>4 DEF XWorkKept, ExtraNoncesDistinct
<1>8. XIssued'
  BY <1>1, <1>2, <1>3, <1>4 DEF XIssued
<1> QED BY <1>1, <1>3, <1>4, <1>5, <1>6, <1>7, <1>8

LEMMA XSubmitInv ==
    ASSUME ExtraInv, NEW m \in XConns, NEW id \in DOMAIN xjobs,
           NEW sameAlgo \in BOOLEAN, NEW sent \in BOOLEAN, XSubmit(m, id, sameAlgo, sent)
    PROVE  ExtraInv'
<1> DEFINE req    == Len(xshares) + 1
           error  == ~upstream.active \/ ~XIsValidJobId(upstream, id) \/ ~sameAlgo
           seq    == IF sent THEN xsequence ELSE -1
           others == {r \in upstream.results : r.seq # seq}
           ctx    == [seq |-> seq, req |-> req, miner |-> m]
           p      == XRequest(upstream, xsequence, req, id)
<1>1. /\ xminer[m] = "in" /\ UNCHANGED <<xminer, xjobs, xwork>>
      /\ IF error
           THEN /\ xshares' = Append(xshares, [miner |-> m, answers |-> {<<m, req, TRUE>>}])
                /\ UNCHANGED <<upstream, xsequence, xinflight>>
           ELSE /\ sent => XUpstream(upstream) # 0
                /\ xshares' = Append(xshares, [miner |-> m, answers |-> {}])
                /\ upstream' = [upstream EXCEPT !.results = others \cup {ctx}]
                /\ xsequence' = IF sent THEN xsequence + 1 ELSE xsequence
                /\ xinflight' = IF sent THEN xinflight \cup {p} ELSE xinflight
  <2>1. sent => XRequest(upstream, seq, req, id) = p
    OBVIOUS
  <2> QED BY <2>1 DEF XSubmit
<1>2. /\ ExtraTypeOK /\ XContexts /\ ExtraRouting
      /\ upstream \in XMapperType /\ xshares \in Seq(XShareType) /\ xsequence \in Nat
      /\ xinflight \in SUBSET XRequestType /\ upstream.results \in SUBSET XContextType
  BY XFields DEF ExtraInv, ExtraTypeOK, XContexts
<1>3. req \in Nat /\ req \notin DOMAIN xshares
  BY <1>2
<1>4. PICK a \in SUBSET (XConns \X Nat \X BOOLEAN) :
         a \subseteq {<<m, req, TRUE>>} /\ xshares' = Append(xshares, [miner |-> m, answers |-> a])
  <2> HIDE DEF error, req
  <2>1. <<m, req, TRUE>> \in XConns \X Nat \X BOOLEAN
    BY <1>3
  <2> QED BY <1>1, <2>1
<1>5. /\ xshares' \in Seq(XShareType) /\ DOMAIN xshares' = DOMAIN xshares \cup {req}
      /\ xshares'[req].miner = m /\ xshares'[req].answers \subseteq {<<m, req, TRUE>>}
      /\ \A r \in DOMAIN xshares : r # req /\ xshares'[r] = xshares[r]
  <2> DEFINE share == [miner |-> m, answers |-> a]
  <2>1. share \in XShareType /\ share.miner = m /\ share.answers = a
    BY DEF XShareType
  <2>2. xshares' = Append(xshares, share)
    BY <1>4
  <2> HIDE DEF share
  <2>3. xshares' \in Seq(XShareType) /\ DOMAIN xshares' = DOMAIN xshares \cup {req}
    BY <1>2, <2>1, <2>2
  <2>4. xshares'[req] = share
    BY <1>2, <2>1, <2>2
  <2>5. \A r \in DOMAIN xshares : r # req /\ xshares'[r] = xshares[r]
    BY <1>2, <2>1, <2>2
  <2> QED BY <1>4, <2>1, <2>3, <2>4, <2>5
<1> HIDE DEF req, ctx, p
<1>6. \A r \in DOMAIN xshares' : xshares'[r].answers \subseteq {<<xshares'[r].miner, r, TRUE>>}
  <2>1. TAKE r \in DOMAIN xshares'
  <2>2. CASE r = req
    BY <1>5, <2>2
  <2>3. CASE r # req
    BY <1>2, <1>5, <2>3 DEF ExtraRouting
  <2> QED BY <2>2, <2>3
\* The share is refused at once.
<1>7. CASE error
  <2>1. UNCHANGED <<upstream, xsequence, xinflight, xminer, xjobs, xwork>>
    BY <1>1, <1>7
  <2>2. ExtraTypeOK'
    BY <1>2, <1>5, <2>1 DEF ExtraTypeOK
  <2>3. XMinersIn' /\ XJobsKnown' /\ XWorkKept' /\ XIssued'
    BY <2>1 DEF ExtraInv, XMinersIn, XJobsKnown, XJobKnown, XWorkKept, ExtraNoncesDistinct, XIssued
  <2>4. ExtraRouting'
    BY <1>2, <1>6, <2>1 DEF ExtraRouting
  <2>5. XContexts'
    BY <1>2, <1>5, <2>1, <2>4 DEF XContexts
  <2> QED BY <2>2, <2>3, <2>5 DEF ExtraInv
\* The share is filed, and sent if it can be.
<1>8. CASE ~error
  <2>1. /\ sent => XUpstream(upstream) # 0
        /\ upstream' = [upstream EXCEPT !.results = others \cup {ctx}]
        /\ xsequence' = IF sent THEN xsequence + 1 ELSE xsequence
        /\ xinflight' = IF sent THEN xinflight \cup {p} ELSE xinflight
    BY <1>1, <1>8
  <2>2. /\ ctx \in XContextType /\ ctx.seq = seq /\ ctx.req = req /\ ctx.miner = m
    BY <1>2, <1>3 DEF ctx, XContextType
  <2>3. others \cup {ctx} \in SUBSET XContextType
    BY <1>2, <2>2
  <2>4. sent => /\ p \in XRequestType /\ p.seq = xsequence /\ p.req = req /\ p.job = id
                /\ xjobs[id] = p.client \/ (p.restored /\ p.client \in 1..XPools)
    BY <1>2, <1>3, <1>8, <2>1, XRequestRouted DEF p
  <2> HIDE DEF error
  <2>5. PICK R : R = others \cup {ctx}
    OBVIOUS
  <2>6. /\ upstream' \in XMapperType /\ upstream'.results = R
        /\ XMinersIn' /\ XJobsKnown' /\ XWorkKept' /\ XIssued'
    BY <1>1, <2>1, <2>3, <2>5, XResultsStep
  <2>7. xinflight' \in SUBSET XRequestType /\ xsequence' \in Nat /\ xsequence <= xsequence'
    BY <1>2, <2>1, <2>4
  <2>8. ExtraTypeOK'
    BY <1>1, <1>2, <1>5, <2>6, <2>7 DEF ExtraTypeOK
  <2>9. ASSUME NEW q \in xinflight'
        PROVE  \/ q \in xinflight /\ q.seq < xsequence
               \/ sent /\ q.seq = xsequence /\ q.req = req /\ q.job = id /\ q = p
    BY <1>2, <2>1, <2>4 DEF XContexts
  <2>10. ASSUME NEW r \in upstream'.results
         PROVE  /\ r.seq < xsequence'
                /\ r.req \in DOMAIN xshares' /\ r.miner = xshares'[r.req].miner
                /\ \A q \in xinflight' : r.seq = q.seq => r.req = q.req
    <3>1. r = ctx \/ (r \in upstream.results /\ r.seq # seq)
      BY <2>5, <2>6, <2>10
    <3>2. CASE r = ctx
      <4>1. \A q \in xinflight : q.seq \in Nat /\ q.seq < xsequence
        BY <1>2 DEF XContexts, XRequestType
      <4>2. ASSUME NEW q \in xinflight', r.seq = q.seq PROVE r.req = q.req
        BY <1>2, <2>2, <2>9, <3>2, <4>1, <4>2
      <4>3. r.seq < xsequence'
        BY <1>2, <2>1, <2>2, <3>2
      <4> QED BY <1>5, <2>2, <3>2, <4>2, <4>3
    <3>3. CASE r \in upstream.results /\ r.seq # seq
      <4>1. /\ r.seq < xsequence /\ r.req \in DOMAIN xshares /\ r.miner = xshares[r.req].miner
            /\ \A q \in xinflight : r.seq = q.seq => r.req = q.req
            /\ r.seq \in Int
        BY <1>2, <3>3 DEF XContexts, XContextType
      <4>2. \A q \in xinflight' : r.seq = q.seq => r.req = q.req
        BY <1>2, <2>9, <4>1
      <4>3. r.seq < xsequence'
        BY <1>2, <2>7, <4>1
      <4> QED BY <1>5, <4>1, <4>2, <4>3
    <3> QED BY <3>1, <3>2, <3>3
  <2>11. ASSUME NEW q \in xinflight'
         PROVE  /\ q.seq < xsequence' /\ q.req \in DOMAIN xshares' /\ q.job \in DOMAIN xjobs'
                /\ xjobs'[q.job] = q.client \/ (q.restored /\ q.client \in 1..XPools)
    <3>1. CASE q \in xinflight
      <4>1. q.seq < xsequence /\ q.seq \in Nat
        BY <1>2, <3>1 DEF XContexts, XRequestType
      <4>2. q.seq < xsequence'
        BY <1>2, <2>7, <4>1
      <4> QED BY <1>1, <1>2, <1>5, <3>1, <4>2 DEF XContexts, ExtraRouting
    <3>2. CASE q \notin xinflight
      BY <1>1, <1>2, <1>5, <2>1, <2>4, <2>9, <3>2
    <3> QED BY <3>1, <3>2
  <2>12. XContexts'
    BY <1>6, <2>10, <2>11 DEF XContexts, ExtraRouting
  <2> QED BY <2>6, <2>8, <2>12 DEF ExtraInv
<1> QED BY <1>7, <1>8

LEMMA XResultInv ==
    ASSUME ExtraInv, NEW p \in xinflight, XResult(p)
    PROVE  ExtraInv'
<1>1. PICK mp : mp = upstream
  OBVIOUS
<1> DEFINE ctx    == {r \in mp.results : r.seq = p.seq}
           R      == mp.results \ ctx
           told   == {<<r.miner, r.req, xminer[r.miner] = "in">> : r \in
                        {c \in ctx : c.miner \in mp.miners}}
           share  == xshares[p.req]
           all    == share.answers \cup told
           now    == [share EXCEPT !.answers = all]
<1>2. /\ upstream' = [upstream EXCEPT !.results = R]
      /\ xshares' = [xshares EXCEPT ![p.req] = now]
      /\ xinflight' = xinflight \ {p} /\ UNCHANGED <<xminer, xjobs, xsequence, xwork>>
  BY <1>1 DEF XResult
<1>3. mp \in XMapperType /\ ExtraTypeOK /\ XMinersIn /\ XContexts /\ ExtraRouting
  BY <1>1 DEF ExtraInv, ExtraTypeOK, XContexts
<1>4. /\ p.req \in DOMAIN xshares /\ share \in XShareType
      /\ share.answers \subseteq {<<share.miner, p.req, TRUE>>}
      /\ xshares \in Seq(XShareType) /\ p.req \in Nat
  <2>1. p.req \in DOMAIN xshares /\ xshares \in Seq(XShareType)
    BY <1>3 DEF XContexts, ExtraTypeOK
  <2>2. share \in XShareType /\ p.req \in Nat
    BY <2>1
  <2>3. share.answers \subseteq {<<share.miner, p.req, TRUE>>}
    BY <1>3, <2>1 DEF ExtraRouting
  <2> QED BY <2>1, <2>2, <2>3
<1>5. told \subseteq {<<share.miner, p.req, TRUE>>}
  <2>1. ASSUME NEW r \in ctx, r.miner \in mp.miners
        PROVE  r.miner = share.miner /\ r.req = p.req /\ xminer[r.miner] = "in"
    BY <1>1, <1>3, <2>1 DEF XContexts, XMinersIn
  <2> HIDE DEF ctx, share
  <2> QED BY <2>1
<1>6. /\ now \in XShareType /\ now.miner = share.miner
      /\ now.answers \subseteq {<<share.miner, p.req, TRUE>>}
  <2> HIDE DEF share, told
  <2>1. all \in SUBSET (XConns \X Nat \X BOOLEAN) /\ all \subseteq {<<share.miner, p.req, TRUE>>}
    <3>1. share.miner \in XConns
      BY <1>4 DEF XShareType
    <3>2. <<share.miner, p.req, TRUE>> \in XConns \X Nat \X BOOLEAN
      BY <1>4, <3>1
    <3>3. all \subseteq {<<share.miner, p.req, TRUE>>}
      BY <1>4, <1>5
    <3> QED BY <3>2, <3>3
  <2> HIDE DEF all
  <2>2. now \in XShareType /\ now.miner = share.miner /\ now.answers = all
    BY <1>4, <2>1 DEF XShareType
  <2> QED BY <2>1, <2>2
<1> HIDE DEF now
<1>7. /\ xshares' \in Seq(XShareType) /\ DOMAIN xshares' = DOMAIN xshares
      /\ xshares'[p.req] = now /\ \A r \in DOMAIN xshares : r # p.req => xshares'[r] = xshares[r]
  <2> HIDE DEF share
  <2>1. xshares' \in Seq(XShareType)
    BY <1>2, <1>4, <1>6
  <2>2. DOMAIN xshares' = DOMAIN xshares
    BY <1>2, <1>4
  <2> QED BY <1>2, <1>4, <2>1, <2>2
<1>8. \A r \in DOMAIN xshares : xshares'[r].miner = xshares[r].miner
  BY <1>6, <1>7
<1>9. R \in SUBSET XContextType
  BY <1>3, XFields
<1> HIDE DEF ctx, told, share
<1>10. PICK S : S = R
  OBVIOUS
<1>11. /\ upstream' \in XMapperType /\ upstream'.results = S
       /\ XMinersIn' /\ XJobsKnown' /\ XWorkKept' /\ XIssued'
  BY <1>2, <1>9, <1>10, XResultsStep
<1>12. \A r \in upstream'.results : r \in upstream.results
  BY <1>1, <1>10, <1>11
<1>13. ExtraTypeOK'
  BY <1>2, <1>3, <1>7, <1>11 DEF ExtraTypeOK
<1>14. ExtraRouting'
  <2>1. \A r \in DOMAIN xshares' : xshares'[r].answers \subseteq {<<xshares'[r].miner, r, TRUE>>}
    BY <1>3, <1>6, <1>7, <1>8 DEF ExtraRouting, share
  <2> QED BY <1>2, <1>3, <2>1 DEF ExtraRouting
<1>15. XContexts'
  BY <1>2, <1>3, <1>7, <1>8, <1>12, <1>14 DEF XContexts
<1> QED BY <1>11, <1>13, <1>15 DEF ExtraInv

LEMMA ExtraInitInv == ExtraInit => ExtraInv
<1> SUFFICES ASSUME ExtraInit PROVE ExtraInv
  OBVIOUS
<1>1. PICK mp : mp = Mapper0
  OBVIOUS
<1>2. /\ upstream = mp /\ xminer = [m \in XConns |-> "new"] /\ xjobs = <<>> /\ xsequence = 1
      /\ xshares = <<>> /\ xinflight = {} /\ xwork = {}
  BY <1>1 DEF ExtraInit, XConns
<1>3. /\ mp \in XMapperType /\ mp.job = XNoJob /\ mp.prevJob = XNoJob /\ mp.saved = XNoJob
      /\ mp.miners = {} /\ mp.results = {} /\ mp.donate = 0 /\ ~mp.active
  BY <1>1, XJobFields DEF Mapper0, XMapperType
<1>4. ExtraTypeOK
  BY <1>2, <1>3 DEF ExtraTypeOK
<1>5. XMinersIn /\ XJobsKnown /\ XWorkKept /\ XIssued /\ XContexts
  BY <1>2, <1>3 DEF XMinersIn, XJobsKnown, XJobKnown, XWorkKept, ExtraNoncesDistinct, XIssued,
                    XContexts, ExtraRouting
<1> QED BY <1>4, <1>5 DEF ExtraInv

LEMMA ExtraStep ==
    ASSUME ExtraInv, [ExtraNext]_extraVars
    PROVE  ExtraInv'
<1>1. CASE UNCHANGED extraVars
  BY <1>1 DEF extraVars, ExtraInv, ExtraTypeOK, XMinersIn, XJobsKnown, XJobKnown, XWorkKept,
              ExtraNoncesDistinct, XIssued, XContexts, ExtraRouting
<1>2. CASE ExtraNext
  BY <1>2, XStrategyJobInv, XStrategyPauseInv, XDonateStartInv, XDonateJobInv, XDonateLostInv,
     XDonateEndInv, XLoginInv, XRemoveInv, XSubmitInv, XResultInv DEF ExtraNext, XConns, Pools
<1> QED BY <1>1, <1>2

(***************************************************************************)
(* The donate route                                                        *)
(***************************************************************************)

DMinerType ==
    [st : {"new", "in", "closing", "deleted"}, routeId : {-1, 0}, mapperId : Int]

DMapperType ==
    [miner : DMiners, client : {"connecting", "up", "closed"}, active : BOOLEAN]

\* The types of the state of the donate route that the mappers depend on.
DonateTypeOK ==
    /\ dminer \in [DMiners -> DMinerType]
    /\ mappers \in [DOMAIN mappers -> DMapperType]
    /\ DOMAIN mappers \in SUBSET Nat
    /\ dsequence \in Nat

\* MapperPerMiner, and also of a routed miner that is being closed: it has its
\* mapper until it is removed.  Ids of mappers are not used twice.
Routed ==
    /\ \A i \in DOMAIN mappers :
          /\ i < dsequence /\ dminer[mappers[i].miner].st \in {"in", "closing"}
          /\ dminer[mappers[i].miner].routeId = 0
          /\ dminer[mappers[i].miner].mapperId = i
    /\ \A m \in DMiners :
          /\ dminer[m].st = "new" => dminer[m].routeId = -1
          /\ dminer[m].st \in {"in", "closing"} /\ dminer[m].routeId = 0 =>
                /\ dminer[m].mapperId \in DOMAIN mappers
                /\ mappers[dminer[m].mapperId].miner = m

DonateInv == DonateTypeOK /\ Routed

LEMMA DonatePerMiner == DonateInv => MapperPerMiner
BY DEF DonateInv, Routed, MapperPerMiner

\* The state of a miner changes, and not where it is routed; it is not removed
\* and does not become new.
LEMMA DStateInv ==
    ASSUME DonateInv, NEW m \in DMiners, NEW s \in {"in", "closing"},
           s = "in" => dminer[m].st \in {"new", "in"},
           dminer[m].st # "deleted",
           dminer' = [dminer EXCEPT ![m].st = s],
           DOMAIN mappers' = DOMAIN mappers, mappers' \in [DOMAIN mappers' -> DMapperType],
           \A i \in DOMAIN mappers : mappers'[i].miner = mappers[i].miner,
           dsequence' = dsequence
    PROVE  DonateInv'
<1>1. DonateTypeOK /\ Routed
  BY DEF DonateInv
<1>2. /\ dminer' \in [DMiners -> DMinerType] /\ dminer'[m].st = s
      /\ dminer'[m].routeId = dminer[m].routeId /\ dminer'[m].mapperId = dminer[m].mapperId
      /\ \A l \in DMiners : l # m => dminer'[l] = dminer[l]
  BY <1>1 DEF DonateTypeOK, DMinerType
<1>3. DonateTypeOK'
  BY <1>1, <1>2 DEF DonateTypeOK
<1>4. ASSUME NEW i \in DOMAIN mappers'
      PROVE  /\ i < dsequence' /\ dminer'[mappers'[i].miner].st \in {"in", "closing"}
             /\ dminer'[mappers'[i].miner].routeId = 0
             /\ dminer'[mappers'[i].miner].mapperId = i
  <2>1. mappers[i].miner \in DMiners
    BY <1>1 DEF DonateTypeOK, DMapperType
  <2> QED BY <1>1, <1>2, <2>1 DEF Routed
<1>5. ASSUME NEW l \in DMiners
      PROVE  /\ dminer'[l].st = "new" => dminer'[l].routeId = -1
             /\ dminer'[l].st \in {"in", "closing"} /\ dminer'[l].routeId = 0 =>
                   /\ dminer'[l].mapperId \in DOMAIN mappers'
                   /\ mappers'[dminer'[l].mapperId].miner = l
  <2>1. CASE l # m
    BY <1>1, <1>2, <2>1 DEF Routed
  <2>2. CASE l = m
    <3>1. dminer[m].routeId = 0 => dminer[m].st \in {"in", "closing"}
      BY <1>1 DEF Routed, DonateTypeOK, DMinerType
    <3> QED BY <1>1, <1>2, <2>2, <3>1 DEF Routed
  <2> QED BY <2>1, <2>2
<1>6. Routed'
  BY <1>4, <1>5 DEF Routed
<1> QED BY <1>3, <1>6 DEF DonateInv

LEMMA DLoginInv ==
    ASSUME DonateInv, NEW m \in DMiners, NEW url \in {"none", "bad", "good"}, DLogin(m, url)
    PROVE  DonateInv'
<1>1. DonateTypeOK /\ Routed /\ dminer[m].st = "new"
  BY DEF DonateInv, DLogin
<1>2. CASE /\ dminer' = [dminer EXCEPT ![m].st = "in"] \/ dminer' = [dminer EXCEPT ![m].st = "closing"]
           /\ UNCHANGED <<mappers, dsequence>>
  BY <1>1, <1>2, DStateInv DEF DonateTypeOK
<1>3. CASE /\ dminer' = [dminer EXCEPT ![m] = [st |-> "in", routeId |-> 0, mapperId |-> dsequence]]
           /\ mappers' = [i \in DOMAIN mappers \cup {dsequence} |->
                            IF i = dsequence
                              THEN [miner |-> m, client |-> "connecting", active |-> TRUE]
                              ELSE mappers[i]]
           /\ dsequence' = dsequence + 1
  <2>1. /\ dsequence \in Nat /\ dsequence \notin DOMAIN mappers /\ dsequence' \in Nat
        /\ \A i \in DOMAIN mappers : i \in Nat /\ i < dsequence' /\ i # dsequence
    BY <1>1, <1>3 DEF DonateTypeOK, Routed
  <2>2. /\ dminer' \in [DMiners -> DMinerType] /\ dminer'[m].st = "in"
        /\ dminer'[m].routeId = 0 /\ dminer'[m].mapperId = dsequence
        /\ \A l \in DMiners : l # m => dminer'[l] = dminer[l]
    BY <1>1, <1>3, <2>1 DEF DonateTypeOK, DMinerType
  <2>3. /\ DOMAIN mappers' = DOMAIN mappers \cup {dsequence}
        /\ mappers'[dsequence] \in DMapperType /\ mappers'[dsequence].miner = m
        /\ \A i \in DOMAIN mappers : mappers'[i] = mappers[i]
    BY <1>3, <2>1 DEF DMapperType
  <2>4. DonateTypeOK'
    <3>1. \A i \in DOMAIN mappers' : mappers'[i] \in DMapperType
      BY <1>1, <2>3 DEF DonateTypeOK
    <3>2. mappers' = [i \in DOMAIN mappers' |-> mappers'[i]]
      BY <1>3
    <3>3. mappers' \in [DOMAIN mappers' -> DMapperType]
      BY <3>1, <3>2
    <3> QED BY <2>1, <2>2, <2>3, <3>3 DEF DonateTypeOK
  <2>5. ASSUME NEW i \in DOMAIN mappers'
        PROVE  /\ i < dsequence' /\ dminer'[mappers'[i].miner].st \in {"in", "closing"}
               /\ dminer'[mappers'[i].miner].routeId = 0
               /\ dminer'[mappers'[i].miner].mapperId = i
    <3>1. CASE i = dsequence
      BY <1>3, <2>1, <2>2, <2>3, <3>1
    <3>2. CASE i \in DOMAIN mappers
      <4>1. mappers[i].miner \in DMiners /\ mappers[i].miner # m
        BY <1>1, <3>2 DEF DonateTypeOK, DMapperType, Routed
      <4> QED BY <1>1, <2>1, <2>2, <2>3, <3>2, <4>1 DEF Routed
    <3> QED BY <2>3, <3>1, <3>2
  <2>6. ASSUME NEW l \in DMiners
        PROVE  /\ dminer'[l].st = "new" => dminer'[l].routeId = -1
               /\ dminer'[l].st \in {"in", "closing"} /\ dminer'[l].routeId = 0 =>
                     /\ dminer'[l].mapperId \in DOMAIN mappers'
                     /\ mappers'[dminer'[l].mapperId].miner = l
    <3>1. CASE l = m
      BY <2>2, <2>3, <3>1
    <3>2. CASE l # m
      BY <1>1, <2>2, <2>3, <3>2 DEF Routed
    <3> QED BY <3>1, <3>2
  <2> QED BY <2>4, <2>5, <2>6 DEF DonateInv, Routed
<1> QED BY <1>2, <1>3 DEF DLogin

LEMMA DRemoveInv ==
    ASSUME DonateInv, NEW m \in DMiners, DRemove(m)
    PROVE  DonateInv'
<1>1. PICK id : id = dminer[m].mapperId
  OBVIOUS
<1>2. /\ DonateTypeOK /\ Routed /\ dminer[m].st = "closing"
      /\ dminer' = [dminer EXCEPT ![m].st = "deleted"] /\ dsequence' = dsequence
      /\ mappers' = IF id < 0 \/ dminer[m].routeId # 0 \/ id \notin DOMAIN mappers
                      THEN mappers ELSE [j \in DOMAIN mappers \ {id} |-> mappers[j]]
  BY <1>1 DEF DonateInv, DRemove
<1>3. /\ dminer' \in [DMiners -> DMinerType] /\ dminer'[m].st = "deleted"
      /\ \A l \in DMiners : l # m => dminer'[l] = dminer[l]
  BY <1>2 DEF DonateTypeOK, DMinerType
<1>4. /\ mappers' \in [DOMAIN mappers' -> DMapperType]
      /\ \A i \in DOMAIN mappers' : /\ i \in DOMAIN mappers /\ mappers'[i] = mappers[i]
                                    /\ mappers[i].miner # m
      /\ \A i \in DOMAIN mappers : mappers[i].miner # m => i \in DOMAIN mappers'
  <2>1. CASE dminer[m].routeId # 0
    BY <1>2, <2>1 DEF DonateTypeOK, Routed
  <2>2. CASE dminer[m].routeId = 0
    <3>1. id \in DOMAIN mappers /\ id \in Nat /\ mappers[id].miner = m
      BY <1>1, <1>2, <2>2 DEF Routed, DonateTypeOK
    <3>2. mappers' = [j \in DOMAIN mappers \ {id} |-> mappers[j]]
      BY <1>2, <2>2, <3>1
    <3>3. \A i \in DOMAIN mappers : mappers[i].miner = m => i = id
      BY <1>1, <1>2 DEF Routed
    <3>4. mappers' \in [DOMAIN mappers' -> DMapperType]
      BY <1>2, <3>2 DEF DonateTypeOK
    <3> QED BY <3>1, <3>2, <3>3, <3>4
  <2> QED BY <2>1, <2>2
<1>5. DonateTypeOK'
  BY <1>2, <1>3, <1>4 DEF DonateTypeOK
<1>6. ASSUME NEW i \in DOMAIN mappers'
      PROVE  /\ i < dsequence' /\ dminer'[mappers'[i].miner].st \in {"in", "closing"}
             /\ dminer'[mappers'[i].miner].routeId = 0
             /\ dminer'[mappers'[i].miner].mapperId = i
  <2>1. mappers[i].miner \in DMiners
    BY <1>2, <1>4 DEF DonateTypeOK, DMapperType
  <2> QED BY <1>2, <1>3, <1>4, <2>1 DEF Routed
<1>7. ASSUME NEW l \in DMiners
      PROVE  /\ dminer'[l].st = "new" => dminer'[l].routeId = -1
             /\ dminer'[l].st \in {"in", "closing"} /\ dminer'[l].routeId = 0 =>
                   /\ dminer'[l].mapperId \in DOMAIN mappers'
                   /\ mappers'[dminer'[l].mapperId].miner = l
  <2>1. CASE l = m
    BY <1>3, <2>1
  <2>2. CASE l # m
    BY <1>2, <1>3, <1>4, <2>2 DEF Routed
  <2> QED BY <2>1, <2>2
<1> QED BY <1>5, <1>6, <1>7 DEF DonateInv, Routed

LEMMA DonateInitInv == DonateInit => DonateInv
<1> SUFFICES ASSUME DonateInit PROVE DonateInv
  OBVIOUS
<1>1. /\ dminer = [m \in DMiners |-> [st |-> "new", routeId |-> -1, mapperId |-> -1]]
      /\ mappers = [i \in {} |-> 0] /\ DOMAIN mappers = {} /\ dsequence = 0
  BY DEF DonateInit
<1>2. DonateTypeOK
  BY <1>1 DEF DonateTypeOK, DMinerType
<1>3. Routed
  BY <1>1 DEF Routed
<1> QED BY <1>2, <1>3 DEF DonateInv

LEMMA DonateStep ==
    ASSUME DonateInv, [DonateNext]_donateVars
    PROVE  DonateInv'
<1>1. DonateTypeOK /\ Routed
  BY DEF DonateInv
<1>2. CASE UNCHANGED <<dminer, mappers, dsequence>>
  BY <1>2 DEF DonateInv, DonateTypeOK, Routed
<1>3. ASSUME NEW m \in DMiners, DSubmit(m) PROVE DonateInv'
  BY <1>2, <1>3 DEF DSubmit
<1>4. ASSUME NEW i \in DOMAIN mappers, DResult(i) PROVE DonateInv'
  BY <1>2, <1>4 DEF DResult
<1>5. ASSUME NEW i \in DOMAIN mappers, DClientLogin(i) PROVE DonateInv'
  <2>1. /\ mappers' = [mappers EXCEPT ![i].client = "up"] /\ UNCHANGED <<dminer, dsequence>>
    BY <1>5 DEF DClientLogin
  <2>2. /\ DOMAIN mappers' = DOMAIN mappers /\ mappers' \in [DOMAIN mappers' -> DMapperType]
        /\ \A j \in DOMAIN mappers : mappers'[j].miner = mappers[j].miner
    BY <1>1, <2>1 DEF DonateTypeOK, DMapperType
  <2>3. DonateTypeOK'
    BY <1>1, <2>1, <2>2 DEF DonateTypeOK
  <2>4. Routed'
    BY <1>1, <2>1, <2>2 DEF Routed
  <2> QED BY <2>3, <2>4 DEF DonateInv
<1>6. ASSUME NEW i \in DOMAIN mappers, DClientClose(i) PROVE DonateInv'
  <2>1. /\ mappers' = [mappers EXCEPT ![i].client = "closed", ![i].active = FALSE]
        /\ dminer' = [dminer EXCEPT ![mappers[i].miner].st = "closing"] /\ dsequence' = dsequence
    BY <1>6 DEF DClientClose
  <2>2. /\ DOMAIN mappers' = DOMAIN mappers /\ mappers' \in [DOMAIN mappers' -> DMapperType]
        /\ \A j \in DOMAIN mappers : mappers'[j].miner = mappers[j].miner
    BY <1>1, <2>1 DEF DonateTypeOK, DMapperType
  <2>3. PICK m \in DMiners : m = mappers[i].miner /\ dminer[m].st # "deleted"
    BY <1>1 DEF DonateTypeOK, DMapperType, Routed
  <2> QED BY <2>1, <2>2, <2>3, DStateInv
<1>7. ASSUME NEW m \in DMiners, DMinerClose(m) PROVE DonateInv'
  BY <1>1, <1>7, DStateInv DEF DMinerClose, DonateTypeOK
<1>8. CASE DonateNext
  BY <1>3, <1>4, <1>5, <1>6, <1>7, <1>8, DLoginInv, DRemoveInv DEF DonateNext
<1> QED BY <1>2, <1>8 DEF donateVars

(***************************************************************************)
(* The composition                                                         *)
(*                                                                         *)
(* One part runs at a time, so a step keeps the invariants of the others.  *)
(***************************************************************************)

SplittersInv == NonceInv /\ ExtraInv /\ DonateInv /\ SimpleInv /\ ConnInv

LEMMA IdleStart ==
    ASSUME ConnectionsIdle
    PROVE  ConnInv
<1>1. ServingOK
  BY DEF ConnectionsIdle, ServingOK
<1>2. /\ miners = [c \in MinerIds |-> NoMiner] /\ listed = {}
      /\ counters = NewCounters /\ totals = NewTotals /\ table = NewTable
  BY DEF ConnectionsIdle
<1> QED BY <1>1, <1>2, NobodyYet

LEMMA SplittersInit == Init => SplittersInv
<1> SUFFICES ASSUME Init PROVE SplittersInv
  OBVIOUS
<1>1. NonceInit /\ ExtraInit /\ DonateInit /\ SimpleInit /\ (ConnectionsInit \/ ConnectionsIdle)
  BY DEF Init
<1>2. ConnInv
  BY <1>1, ConnectionsStart, IdleStart
<1> QED BY <1>1, <1>2, NonceInvInit, ExtraInitInv, DonateInitInv, SimpleInitInv DEF SplittersInv

LEMMA SplittersStep ==
    ASSUME SplittersInv, [Next]_allVars
    PROVE  SplittersInv'
<1>1. /\ [NonceNext]_nonceVars /\ [ExtraNext]_extraVars
      /\ [DonateNext]_donateVars /\ [SimpleNext]_simpleVars
      /\ [ConnectionsNext]_connectionVars
  BY DEF Next, allVars
<1>2. NonceInv'
  BY <1>1, NonceInvNext, NonceInvStutter DEF SplittersInv
<1>3. ExtraInv' /\ DonateInv' /\ SimpleInv'
  BY <1>1, ExtraStep, DonateStep, SimpleStep DEF SplittersInv
<1>4. ConnInv'
  BY <1>1, ConnectionsStep, ConnectionsStutter DEF SplittersInv
<1> QED BY <1>2, <1>3, <1>4 DEF SplittersInv

\* The invariants of the five parts hold together, whichever part runs
\* (the constructor of Proxy makes one splitter and the DonateSplitter, and
\* Proxy::connect the servers).
THEOREM SplittersInvariance == Spec => []SplittersInv
<1>1. Init => SplittersInv
  BY SplittersInit
<1>2. SplittersInv /\ [Next]_allVars => SplittersInv'
  BY SplittersStep
<1> QED BY <1>1, <1>2, PTL DEF Spec

\* In every mode, two miners never search the same nonces of a job: a byte of
\* the nonce (NonceStorage), an extra nonce (ExtraNonceStorage) or a job of
\* one's own (SimpleMapper::isReusable, m_dirty) tells them apart.
THEOREM WorkDisjointTheorem == Spec => []WorkDisjoint
<1>1. SplittersInv => WorkDisjoint
  BY DEF SplittersInv, WorkDisjoint, NonceInv, WorkInv, ExtraInv, XWorkKept, SimpleInv, SimpleWork
<1> QED BY <1>1, SplittersInvariance, PTL

\* In every mode a share goes to the client that sent its job, or for a job
\* saved during a donation to a later one of the user's pools, and the answer
\* goes to the miner of the share (submit and onResultAccepted of the mappers).
THEOREM SharesRoutedTheorem == Spec => []SharesRouted
<1>1. SplittersInv => SharesRouted
  BY DEF SplittersInv, SharesRouted, NonceInv, RouteInv, ExtraInv, XContexts, SimpleInv,
         SimpleRequests
<1> QED BY <1>1, SplittersInvariance, PTL

\* In every mode and on the donate route, a miner's mapper exists and knows it,
\* and no mapper keeps a miner that left (login and remove of the splitters).
THEOREM MappersMatchMinersTheorem == Spec => []MappersMatchMiners
<1>1. SplittersInv => MappersMatchMiners
  BY DonatePerMiner DEF SplittersInv, MappersMatchMiners, NonceInv, PlaceInv, SimpleInv
<1> QED BY <1>1, SplittersInvariance, PTL

\* Stats and Workers count the open connections exactly, but for one per close
\* event that an accept event overwrote while it was delivered (Events::exec).
THEOREM CountsExactTheorem == Spec => []CountsExact
<1>1. SplittersInv => CountsExact
  BY DEF SplittersInv, SimpleInv, SimpleCounts
<1> QED BY <1>1, SplittersInvariance, PTL

\* The counters of the proxy, the totals of Stats and the tables of Workers are
\* those of the connections there are, in any order of accepts, logins, first
\* jobs, failures to send, expired deadlines, closes, shares and ticks
\* (Miner::setState, Stats::onEvent, Workers::add and remove).
THEOREM MinersAccountedTheorem == Spec => []MinersAccounted
<1>1. SplittersInv => MinersAccounted
  BY AccountsTrue DEF SplittersInv
<1> QED BY <1>1, SplittersInvariance, PTL

\* A miner that is not closed came through TLS where the port asks for it, has
\* one answer to its login, is within its deadline and, with a verifier, has a
\* difficulty no lower than the configured one, unless it took the donate route
\* (Miner::startTLS, sendJob, Miners::tick, CustomDiff::login).
THEOREM MinersServedTheorem == Spec => []MinersServed
<1>1. SplittersInv => MinersServed
  BY ServiceTrue DEF SplittersInv
<1> QED BY <1>1, SplittersInvariance, PTL

=============================================================================
