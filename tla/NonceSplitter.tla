--------------------------- MODULE NonceSplitter ---------------------------
(***************************************************************************)
(* The nicehash mode of the proxy: NonceSplitter places miners on mappers, *)
(* a NonceMapper joins up to 256 miners on one connection to a pool, and   *)
(* its NonceStorage gives every miner a byte of the nonce of its own.      *)
(*                                                                         *)
(* A mapper uses two strategies: the pools of the user (m_strategy) and,   *)
(* when donateLevel() > 0, the donation (m_donate).  Each call of a        *)
(* strategy listener is one step; a login of a connection calls onActive   *)
(* and then onJob before control returns to the event loop.  Runtime       *)
(* reload is disabled in this build (Base::reload, Base::onFileChanged),   *)
(* so m_pending stays empty and is not part of the state.                  *)
(***************************************************************************)
EXTENDS Integers, Sequences, FiniteSets

CONSTANTS
    NMiners,        \* connections of miners; Miner::id() counts from 1
    NSlots,         \* bytes of a mapper, 256 in the code
    MaxMappers,     \* bound on upstreams
    MaxJobs,        \* bound on jobs received
    MaxSessions,    \* bound on logins at pools
    MaxShares,      \* bound on shares submitted
    UseDonate       \* donateLevel() > 0

ASSUME NonceAssumption ==
    /\ {NMiners, NSlots, MaxMappers} \subseteq Nat \ {0}
    /\ {MaxJobs, MaxSessions, MaxShares} \subseteq Nat
    /\ UseDonate \in BOOLEAN

Miners == 1..NMiners
Slots  == 0..(NSlots - 1)

\* A job the storage gets; restored says that it is one a donation had saved.
JobOf(id, client, restored) == [id |-> id, client |-> client, restored |-> restored]

NoJob == JobOf(0, 0, FALSE)             \* an invalid Job

VARIABLES
    upstreams,      \* m_upstreams: the mappers, m_id is the index minus 1
    miner,          \* of each miner: state, mapperId() and fixedByte()
    jobs,           \* the client of every job received; a job's id is its number
    sessions,       \* logins so far; a job's clientId is its session
    sequence,       \* BaseClient::m_sequence, one for all clients
    shares,         \* of each share: who submitted it, and the answers written
                    \* for it: to whom, under which id, and if to an open connection
    inflight,       \* submit requests the pools have not answered
    work            \* <<job, byte, miner>>: nonce ranges handed out, of the
                    \* jobs that a mapper holds or has saved

nonceVars == <<upstreams, miner, jobs, sessions, sequence, shares, inflight,
               work>>

\* A NonceMapper with its NonceStorage and its strategies.  m_index starts
\* at a random byte.
NewMapper(i) ==
    [suspended |-> 0, active |-> FALSE, job |-> NoJob, prevJob |-> NoJob,
     used |-> [b \in Slots |-> 0], index |-> i, miners |-> {},
     results |-> {}, strategy |-> [st |-> "stopped", session |-> 0],
     donate |-> [st |-> "off", session |-> 0], saved |-> NoJob]

IsSuspended(mp) == mp.suspended > 0

IsUsed(mp) == \E b \in Slots : mp.used[b] > 0

(***************************************************************************)
(* NonceStorage                                                            *)
(***************************************************************************)

\* nextIndex: the first free byte at or after m_index, else the first one
\* before it, else -1.
NextIndex(mp) ==
    LET free   == {b \in Slots : mp.used[b] = 0}
        after  == {b \in free : b >= mp.index}
        First(S) == CHOOSE b \in S : \A c \in S : b <= c
    IN  IF after # {} THEN First(after)
        ELSE IF free # {} THEN First(free)
        ELSE -1

StorageAdd(mp, m) ==
    LET b == NextIndex(mp)
    IN  [mp EXCEPT !.used[b] = m, !.index = b, !.miners = @ \cup {m}]

\* Mutants: the byte is free at once; the miner stays in the map.
StorageRemoveFrees(mp, m, b) == [mp EXCEPT !.used[b] = 0, !.miners = @ \ {m}]
StorageRemoveKeeps(mp, m, b) == [mp EXCEPT !.used[b] = -m]

\* The byte of a miner that left keeps its negative id until the next job.
StorageRemove(mp, m, b) ==
    [mp EXCEPT !.used[b] = -m, !.miners = @ \ {m}]

StorageReset(mp) == [mp EXCEPT !.used = [b \in Slots |-> 0]]

StorageSetJob(mp, job) ==
    [mp EXCEPT !.used    = [b \in Slots |-> IF mp.used[b] < 0 THEN 0 ELSE mp.used[b]],
               !.prevJob = IF mp.job.client = job.client THEN mp.job ELSE NoJob,
               !.job     = job]

\* The miners a job is sent to, with the byte each of them is given.
HandedOut(mp) ==
    {<<mp.job.id, b, mp.used[b]>> : b \in {c \in Slots : mp.used[c] \in mp.miners}}

\* isValidJobId: the current job, or the one before it of the same client.
IsValidJobId(mp, id) ==
    \/ mp.job.id = id
    \/ mp.prevJob # NoJob /\ mp.prevJob.id = id

(***************************************************************************)
(* NonceMapper                                                             *)
(***************************************************************************)

\* Mutant: a suspended mapper that takes a miner again stays suspended.
MapperConnectSuspended(mp) ==
    [mp EXCEPT !.strategy = [st |-> "connecting", session |-> 0]]

\* connect: DonateStrategy::connect does nothing.
MapperConnect(mp) ==
    [mp EXCEPT !.suspended = 0, !.strategy = [st |-> "connecting", session |-> 0]]

\* suspend, with the onPause that the strategies' stop() leads to.
MapperSuspend(mp) ==
    [StorageReset(mp) EXCEPT !.suspended = 1, !.active = FALSE,
                             !.strategy = [st |-> "stopped", session |-> 0],
                             !.donate = [st |-> "off", session |-> 0]]

MapperGc(k, mp) ==
    IF IsSuspended(mp) THEN [mp EXCEPT !.suspended = @ + 1]
    ELSE IF k = 1 \/ IsUsed(mp) THEN mp
    ELSE MapperSuspend(mp)

\* onJob.  While donating, a job of the user's pools is only saved, unless
\* the donation has lasted long enough (over), which ends it.
OnJob(mp, job, fromDonate, over) ==
    IF mp.donate.st = "active" /\ ~fromDonate
      THEN IF over
             THEN [StorageSetJob(mp, job) EXCEPT !.donate = [st |-> "off", session |-> 0]]
             ELSE [mp EXCEPT !.saved = job]
      ELSE StorageSetJob(mp, job)

\* Ranges of a job that no mapper holds any more are forgotten.
Live(ranges) ==
    {w \in ranges : \E k \in DOMAIN upstreams' :
        w[1] \in {upstreams'[k].job.id, upstreams'[k].saved.id}}

\* Everything a mapper hands out in a step, and the shares lost with a session.
Handing(k, mp) ==
    /\ upstreams' = [upstreams EXCEPT ![k] = mp]
    /\ work' = IF mp.job # upstreams[k].job THEN Live(work \cup HandedOut(mp)) ELSE work

Drop(closed) == inflight' = {p \in inflight : p.session \notin closed}

\* The job m_pending holds, as the mapper hands it out.
Restored(mp) == JobOf(mp.saved.id, mp.saved.client, TRUE)

Ended(mp, new) == {mp.donate.session} \ {new.donate.session}

\* The login of a pool connection: onActive, then onJob with its first job.
\* The first pool of a failover list takes over from another that is up.
StrategyLogin(k) ==
    /\ upstreams[k].strategy.st \in {"connecting", "up"}
    /\ sessions < MaxSessions /\ Len(jobs) < MaxJobs
    /\ sessions' = sessions + 1
    /\ jobs' = Append(jobs, sessions')
    /\ \E over \in BOOLEAN :
          LET mp  == [upstreams[k] EXCEPT !.active = TRUE,
                        !.strategy = [st |-> "up", session |-> sessions']]
              job == JobOf(Len(jobs'), sessions', FALSE)
              new == OnJob(mp, job, FALSE, over)
          IN  /\ Handing(k, new)
              /\ Drop({upstreams[k].strategy.session} \cup Ended(mp, new))
    /\ UNCHANGED <<miner, sequence, shares>>

\* A new job of the user's pool.
StrategyJob(k) ==
    /\ upstreams[k].strategy.st = "up"
    /\ Len(jobs) < MaxJobs
    /\ jobs' = Append(jobs, upstreams[k].strategy.session)
    /\ \E over \in BOOLEAN :
          LET mp  == upstreams[k]
              new == OnJob(mp, JobOf(Len(jobs'), mp.strategy.session, FALSE), FALSE, over)
          IN  /\ Handing(k, new)
              /\ Drop(Ended(mp, new))
    /\ UNCHANGED <<miner, sessions, sequence, shares>>

\* The pool connection is lost: onPause.  The client reconnects by itself.
StrategyPause(k) ==
    /\ upstreams[k].strategy.st = "up"
    /\ upstreams' = [upstreams EXCEPT ![k].active = FALSE,
                       ![k].strategy = [st |-> "connecting", session |-> 0]]
    /\ Drop({upstreams[k].strategy.session})
    /\ UNCHANGED <<miner, jobs, sessions, sequence, shares, work>>

(***************************************************************************)
(* The donation of a mapper (DonateStrategy)                               *)
(***************************************************************************)

\* tick: m_ticks reaches m_target, the donation client starts to connect.
DonateStart(k) ==
    /\ UseDonate
    /\ upstreams[k].donate.st = "off"
    /\ upstreams' = [upstreams EXCEPT ![k].saved = NoJob, ![k].donate.st = "connecting"]
    /\ UNCHANGED <<miner, jobs, sessions, sequence, shares, inflight, work>>

\* onJobReceived: the first job makes the donation active.
DonateJob(k) ==
    /\ upstreams[k].donate.st # "off"
    /\ Len(jobs) < MaxJobs
    /\ LET first == upstreams[k].donate.st = "connecting"
           s     == IF first THEN sessions + 1 ELSE upstreams[k].donate.session
           mp    == [upstreams[k] EXCEPT !.active = IF first THEN TRUE ELSE @,
                       !.donate = [st |-> "active", session |-> s]]
       IN  /\ s <= MaxSessions
           /\ jobs' = Append(jobs, s)
           /\ sessions' = IF first THEN s ELSE sessions
           /\ Handing(k, OnJob(mp, JobOf(Len(jobs'), s, FALSE), TRUE, FALSE))
    /\ UNCHANGED <<miner, sequence, shares, inflight>>

\* onClose while active: onPause of the mapper, although its own pool may
\* still be connected.
DonateLost(k) ==
    /\ upstreams[k].donate.st = "active"
    /\ upstreams' = [upstreams EXCEPT ![k].active = FALSE,
                       ![k].donate = [st |-> "connecting", session |-> 0]]
    /\ Drop({upstreams[k].donate.session})
    /\ UNCHANGED <<miner, jobs, sessions, sequence, shares, work>>

\* NonceMapper::tick: the donation has lasted long enough and a job of the
\* user's pool was saved.  It may be older than the session of the pool: the
\* loss of the donation and a new login in between leave m_pending.job alone.
DonateEnd(k) ==
    /\ upstreams[k].donate.st = "active"
    /\ upstreams[k].saved # NoJob
    /\ Handing(k, [StorageSetJob(upstreams[k], Restored(upstreams[k]))
                     EXCEPT !.donate = [st |-> "off", session |-> 0]])
    /\ Drop({upstreams[k].donate.session})
    /\ UNCHANGED <<miner, jobs, sessions, sequence, shares>>

(***************************************************************************)
(* NonceSplitter                                                           *)
(***************************************************************************)

Start ==
    /\ upstreams = <<>>
    /\ \E i \in Slots : upstreams' = <<MapperConnect(NewMapper(i))>>
    /\ UNCHANGED <<miner, jobs, sessions, sequence, shares, inflight, work>>

\* Mapper k takes miner m: it must have a free byte; a suspended mapper
\* connects again, an active one sends its job.
Place(ups, k, m) ==
    LET mp  == StorageAdd(ups[k], m)
        new == IF IsSuspended(mp) THEN MapperConnect(mp) ELSE mp
    IN  /\ upstreams' = [ups EXCEPT ![k] = new]
        /\ miner' = [miner EXCEPT ![m] = [st |-> "in", mapper |-> k, byte |-> mp.index]]
        /\ work' = IF mp.active THEN work \cup {<<mp.job.id, mp.index, m>>} ELSE work

\* login: the first mapper in use with a free byte, else the first suspended
\* one, else a new one.  Ids are handed out in the order of the logins: the
\* code compares them for equality only.
Login(m) ==
    /\ miner[m].st = "new" /\ upstreams # <<>>
    /\ \A l \in 1..(m - 1) : miner[l].st # "new"
    /\ LET free(susp) == {k \in DOMAIN upstreams :
                             /\ IsSuspended(upstreams[k]) = susp
                             /\ NextIndex(upstreams[k]) # -1}
           First(S) == CHOOSE k \in S : \A l \in S : k <= l
       IN  IF free(FALSE) # {} THEN Place(upstreams, First(free(FALSE)), m)
           ELSE IF free(TRUE) # {} THEN Place(upstreams, First(free(TRUE)), m)
           ELSE /\ Len(upstreams) < MaxMappers
                /\ \E i \in Slots :
                      Place(Append(upstreams, MapperConnect(NewMapper(i))), Len(upstreams) + 1, m)
    /\ UNCHANGED <<jobs, sessions, sequence, shares, inflight>>

Remove(m) ==
    /\ miner[m].st = "in"
    /\ LET k == miner[m].mapper
       IN  upstreams' = [upstreams EXCEPT ![k] = StorageRemove(@, m, miner[m].byte)]
    /\ miner' = [miner EXCEPT ![m].st = "closed"]
    /\ UNCHANGED <<jobs, sessions, sequence, shares, inflight, work>>

\* gc: every mapper, then the suspended ones at the end are deleted.
Gc ==
    /\ upstreams # <<>>
    /\ LET ups  == [k \in DOMAIN upstreams |-> MapperGc(k, upstreams[k])]
           keep == CHOOSE n \in 1..Len(ups) :
                      /\ ups[n].suspended < 2
                      /\ \A k \in (n + 1)..Len(ups) : ups[k].suspended >= 2
           new  == SubSeq(ups, 1, keep)
       IN  /\ upstreams' = new
           /\ upstreams' # upstreams
           /\ work' = Live(work)
           /\ inflight' = {p \in inflight : \E k \in DOMAIN new :
                              p.session \in {new[k].strategy.session, new[k].donate.session}}
    /\ UNCHANGED <<miner, jobs, sessions, sequence, shares>>

\* The client a share goes to.
Upstream(mp) == IF mp.donate.st = "active" THEN mp.donate.session ELSE mp.strategy.session

\* What becomes of a share that is sent: the session it goes to, whether that
\* is the donation, and whether its job was restored.
Request(mp, seq, req, id) ==
    [seq |-> seq, req |-> req, job |-> id, session |-> Upstream(mp),
     donation |-> mp.donate.st = "active",
     restored |-> IF mp.job.id = id THEN mp.job.restored ELSE mp.prevJob.restored]

\* submit: refused at once, sent, or stored under the sequence -1 when the
\* client could not send it.
Submit(m, id, sameAlgo, sent) ==
    /\ miner[m].st = "in" /\ Len(shares) < MaxShares
    /\ LET k      == miner[m].mapper
           mp     == upstreams[k]
           req    == Len(shares) + 1
           error  == ~mp.active \/ ~IsValidJobId(mp, id) \/ ~sameAlgo
           seq    == IF sent THEN sequence ELSE -1
           others == {r \in mp.results : r.seq # seq}
       IN  IF error
             THEN /\ sent
                  /\ shares' = Append(shares, [miner |-> m, answers |-> {<<m, req, TRUE>>}])
                  /\ UNCHANGED <<upstreams, sequence, inflight>>
             ELSE /\ sent => Upstream(mp) # 0
                  /\ shares' = Append(shares, [miner |-> m, answers |-> {}])
                  /\ upstreams' = [upstreams EXCEPT ![k].results =
                                     others \cup {[seq |-> seq, req |-> req, miner |-> m]}]
                  /\ sequence' = IF sent THEN sequence + 1 ELSE sequence
                  /\ inflight' = IF sent
                                   THEN inflight \cup {Request(mp, seq, req, id)}
                                   ELSE inflight
    /\ UNCHANGED <<miner, jobs, sessions, work>>

\* onResultAccepted, with submitCtx: the context is looked up by the sequence
\* and answered if the storage still knows the miner.
Result(p) ==
    /\ \E k \in DOMAIN upstreams :
          /\ p.session \in {upstreams[k].strategy.session, upstreams[k].donate.session}
          /\ LET ctx == {r \in upstreams[k].results : r.seq = p.seq}
             IN  /\ upstreams' = [upstreams EXCEPT ![k].results = @ \ ctx]
                 /\ shares' = [shares EXCEPT ![p.req].answers = @ \cup
                      {<<r.miner, r.req, miner[r.miner].st = "in">> : r \in
                         {c \in ctx : c.miner \in upstreams[k].miners}}]
    /\ inflight' = inflight \ {p}
    /\ UNCHANGED <<miner, jobs, sessions, sequence, work>>

NonceInit ==
    /\ upstreams = <<>>
    /\ miner = [m \in Miners |-> [st |-> "new", mapper |-> 0, byte |-> 0]]
    /\ jobs = <<>> /\ sessions = 0 /\ sequence = 1
    /\ shares = <<>> /\ inflight = {} /\ work = {}

NonceNext ==
    \/ Start
    \/ Gc
    \/ \E m \in Miners : Login(m) \/ Remove(m)
    \/ \E m \in Miners, id \in DOMAIN jobs, sameAlgo, sent \in BOOLEAN :
          Submit(m, id, sameAlgo, sent)
    \/ \E k \in DOMAIN upstreams :
          \/ StrategyLogin(k) \/ StrategyJob(k) \/ StrategyPause(k)
          \/ DonateStart(k) \/ DonateJob(k) \/ DonateLost(k) \/ DonateEnd(k)
    \/ \E p \in inflight : Result(p)

NonceSpec == NonceInit /\ [][NonceNext]_nonceVars

(***************************************************************************)
(* Properties                                                              *)
(***************************************************************************)

\* No two miners ever search the same part of the nonce space of one job:
\* the byte of a miner that left is not given away before the next job,
\* across suspension, reuse of mappers and a donation (NonceStorage::remove,
\* setJob, reset).
DisjointWork ==
    \A v, w \in work : v[1] = w[1] /\ v[2] = w[2] => v[3] = w[3]

\* Client::submit does not compare the client of a share with its own: only the
\* job ids the storage accepts keep a share from a connection that never issued
\* its job.  A share goes to the connection that did, with one exception: a job
\* saved during a donation and handed out after it may go to a later session of
\* the user's pool, never to the donation (NonceMapper::tick, submit).  The answer
\* reaches the miner that submitted the share, if that is still connected, under
\* the id of its request (submitCtx).
NonceRouting ==
    /\ \A p \in inflight :
          \/ jobs[p.job] = p.session
          \/ p.restored /\ ~p.donation /\ jobs[p.job] < p.session
    /\ \A r \in DOMAIN shares :
          shares[r].answers \subseteq {<<shares[r].miner, r, TRUE>>}

\* The mapper id of a connected miner names a mapper that holds the miner and
\* its byte, whatever mappers gc has suspended and deleted.
MinersPlaced ==
    \A m \in Miners : miner[m].st = "in" =>
        /\ miner[m].mapper \in DOMAIN upstreams
        /\ ~IsSuspended(upstreams[miner[m].mapper])
        /\ m \in upstreams[miner[m].mapper].miners
        /\ upstreams[miner[m].mapper].used[miner[m].byte] = m

=============================================================================
