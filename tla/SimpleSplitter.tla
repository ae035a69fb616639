--------------------------- MODULE SimpleSplitter ---------------------------
(***************************************************************************)
(* The simple mode of the proxy and the events its miners cause.           *)
(*                                                                         *)
(* SimpleSplitter gives every miner a SimpleMapper, that is a connection   *)
(* to a pool, of its own; when a miner leaves, its mapper is stopped at    *)
(* once (reuse-timeout 0) or kept for another miner.  What happens to a    *)
(* miner is told to all parts of the proxy by Events::exec, which calls    *)
(* the listeners of an event's type in the order of their subscription.    *)
(* Events live in one static buffer, Event::m_buf: an event that is        *)
(* started while another is delivered overwrites it, and is not delivered  *)
(* itself because m_ready is false.  The listeners that keep state, Miners,*)
(* Login, Stats, Workers and the event stream, are here.                   *)
(*                                                                         *)
(* A daemon client completes its pending submissions as ambiguous when it  *)
(* is disconnected; a stratum client forgets them.                         *)
(***************************************************************************)
EXTENDS Integers, Sequences, FiniteSets

CONSTANTS
    SMiners,        \* connections; Miner::id() counts from 1
    SMaxJobs,       \* bound on jobs received
    SMaxShares,     \* bound on shares that reach the splitter
    HistorySize,    \* kJobHistorySize, 5 in the code
    Worker(_)       \* the worker name of a connection

ASSUME SimpleAssumption ==
    {SMiners, SMaxJobs, SMaxShares, HistorySize} \subseteq Nat \ {0}

Conns == 1..SMiners
SNoJob == [id |-> 0, client |-> 0, via |-> "none"]

VARIABLES
    config,         \* daemon: the pools are daemons; reuse: reuse-timeout;
                    \* donate: a donation level above 0
    conn,           \* of each connection: state and mapperId()
    supstreams,     \* m_upstreams: mappers by id
    idles,          \* m_idles: ids of mappers without a miner
    released,       \* m_released: stopped mappers to delete at the next tick
    mapperSeq,      \* m_sequence
    sjobs,          \* jobs received so far
    pending,        \* submissions without a result: [mapper, via, client, req]
    sshares,        \* of each share: who submitted it and who was answered
    swork,          \* <<job, miner>>: jobs sent
    stats,          \* Stats::m_data
    workers,        \* of each worker name: Worker::m_connections
    seenClose,      \* connections the event stream reported as disconnected
    overwritten,    \* close events overwritten while they were delivered
    finalised,      \* results that a client reported
    dispatched      \* accept events that were delivered

simpleVars == <<config, conn, supstreams, idles, released, mapperSeq, sjobs, pending,
                sshares, swork, stats, workers, seenClose, overwritten, finalised,
                dispatched>>

NewSimpleMapper(m) ==
    [miner |-> m, active |-> FALSE, dirty |-> FALSE, job |-> SNoJob, history |-> <<>>,
     idle |-> 0, client |-> 0, donate |-> 0]

(***************************************************************************)
(* SimpleMapper                                                            *)
(***************************************************************************)

\* Mutation: a mapper can be reused before it got a new job.
IsReusableDirty(mp) ==
    mp.active /\ mp.miner = 0 /\ ~(config.daemon /\ mp.job.via = "pool")

\* Mutation: jobs with entropy are handed on as well.
IsReusableEntropy(mp) == mp.active /\ mp.miner = 0 /\ ~mp.dirty

\* isReusable: a job of a daemon holds entropy of its connection, so such a
\* mapper is never given to another miner.
IsReusable(mp) ==
    mp.active /\ mp.miner = 0 /\ ~mp.dirty /\ ~(config.daemon /\ mp.job.via = "pool")

\* setJob: the job before is kept for late shares if it is of the same
\* strategy and client.
SetJob(mp, job) ==
    LET same == mp.job # SNoJob /\ mp.job.via = job.via /\ mp.job.client = job.client
        all  == <<mp.job>> \o mp.history
    IN  [mp EXCEPT !.history = IF same THEN SubSeq(all, 1, IF Len(all) > HistorySize THEN HistorySize ELSE Len(all))
                                       ELSE <<>>,
                   !.job = job, !.dirty = FALSE]

\* findJob: the current job or one of the history that is not too old.
FindJob(mp, id, tooOld) ==
    LET recent == IF tooOld THEN {} ELSE {mp.history[i] : i \in DOMAIN mp.history}
    IN  {j \in {mp.job} \cup recent : j # SNoJob /\ j.id = id}

\* The client of a strategy that can send, 0 for none.
ClientOf(mp, via) == IF via = "donate" THEN mp.donate ELSE mp.client

\* onActive and onJob, of the pool or of the donation; over: the donation has
\* lasted long enough.  A job of the pool is dropped while donating.
MapperJob(k, via, over) ==
    /\ k \in DOMAIN supstreams
    /\ via = "donate" => config.donate
    /\ sjobs < SMaxJobs
    /\ sjobs' = sjobs + 1
    /\ LET mp    == supstreams[k]
           first == ClientOf(mp, via) = 0
           c     == IF first THEN sjobs + 1 ELSE ClientOf(mp, via)
           up    == [mp EXCEPT !.active = IF first THEN TRUE ELSE @,
                       !.client = IF via = "pool" THEN c ELSE @,
                       !.donate = IF via = "donate" THEN c ELSE IF over THEN 0 ELSE @]
           drop  == via = "pool" /\ mp.donate # 0 /\ ~over
           new   == IF drop THEN up
                    ELSE SetJob(up, [id |-> sjobs + 1, client |-> c, via |-> via])
       IN  /\ over => via = "pool" /\ mp.donate # 0
           /\ supstreams' = [supstreams EXCEPT ![k] = new]
           /\ swork' = IF drop \/ mp.miner = 0 THEN swork
                       ELSE swork \cup {<<sjobs + 1, mp.miner>>}
           /\ pending' = IF over THEN {p \in pending : p.mapper # k \/ p.via # "donate"} ELSE pending
    /\ UNCHANGED <<config, conn, idles, released, mapperSeq, sshares, stats, workers,
                   seenClose, overwritten, finalised, dispatched>>

\* The connection of the donation is lost; onPause ignores it.
DonationLost(k) ==
    /\ supstreams[k].donate # 0
    /\ supstreams' = [supstreams EXCEPT ![k].donate = 0]
    /\ pending' = {p \in pending : p.mapper # k \/ p.via # "donate"}
    /\ UNCHANGED <<config, conn, idles, released, mapperSeq, sjobs, sshares, swork, stats,
                   workers, seenClose, overwritten, finalised, dispatched>>

(***************************************************************************)
(* Events::exec and the listeners                                          *)
(***************************************************************************)

\* Events::subscribe, as the constructor of Proxy calls it.
Listeners ==
    [Connection |-> <<"Miners", "Stats", "EventStream">>,
     Close  |-> <<"Miners", "Donate", "Splitter", "Stats", "AccessLog", "Workers", "EventStream">>,
     Login  |-> <<"Login", "Donate", "CustomDiff", "Splitter", "Stats", "AccessLog", "Workers",
                  "EventStream">>,
     Submit |-> <<"Donate", "Splitter", "Stats", "Workers", "EventStream">>,
     Accept |-> <<"Stats", "ShareLog", "Workers", "EventStream">>]

\* Events::exec: the listeners that are shown the event itself.  When the
\* splitter causes a nested event, those after it are shown that one instead.
Reached(type, overwrittenBySplitter) ==
    LET order == Listeners[type]
        at(x) == CHOOSE i \in DOMAIN order : order[i] = x
    IN  {order[i] : i \in {i \in DOMAIN order :
                            overwrittenBySplitter => i <= at("Splitter")}}

\* Stats::accept and reject: a rejected share of the donation does not count.
StatsAccept(s, outcome, isDonate) ==
    IF outcome = "accepted" THEN [s EXCEPT !.accepted = @ + 1]
    ELSE IF isDonate THEN s ELSE [s EXCEPT !.rejected = @ + 1]

\* Workers::login and add: one more connection under the miner's worker name.
WorkersAdd(w, m) == [w EXCEPT ![Worker(m)] = @ + 1]

\* Mutation: a connection that never logged in is removed from its worker too.
WorkersRemoveAlways(w, m) == [w EXCEPT ![Worker(m)] = @ - 1]

\* Workers::remove: only a miner with a mapper was added (indexByMiner).
WorkersRemove(w, m) ==
    IF conn[m].mapper = -1 THEN w ELSE [w EXCEPT ![Worker(m)] = @ - 1]

\* A result of mapper k reaches onResultAccepted: an accept event for Stats,
\* ShareLog and Workers, then the answer to the miner of the mapper, if any.
ResultAccepted(p, outcome) ==
    /\ finalised' = finalised + 1
    /\ dispatched' = dispatched + 1
    /\ stats' = StatsAccept(stats, outcome, p.via = "donate")
    /\ LET to == supstreams[p.mapper].miner
       IN  sshares' = IF to = 0 THEN sshares
                      ELSE [sshares EXCEPT ![p.req].answered = @ \cup {to}]

PoolResult(p, outcome) ==
    /\ p.mapper \in DOMAIN supstreams
    /\ ResultAccepted(p, outcome)
    /\ pending' = pending \ {p}
    /\ UNCHANGED <<config, conn, supstreams, idles, released, mapperSeq, sjobs, swork,
                   workers, seenClose, overwritten>>

\* The pool connection of a mapper is lost: onPause.  The daemon client first
\* completes what is pending, one accept event each.
MapperPause(k) ==
    /\ supstreams[k].client # 0
    /\ LET lost == {p \in pending : p.mapper = k /\ p.via = "pool"}
           to   == supstreams[k].miner
       IN  /\ pending' = pending \ lost
           /\ IF config.daemon
                THEN /\ finalised' = finalised + Cardinality(lost)
                     /\ dispatched' = dispatched + Cardinality(lost)
                     /\ sshares' = [r \in DOMAIN sshares |->
                          IF to # 0 /\ \E p \in lost : p.req = r
                            THEN [sshares[r] EXCEPT !.answered = @ \cup {to}] ELSE sshares[r]]
                ELSE UNCHANGED <<finalised, dispatched, sshares>>
    /\ supstreams' = [supstreams EXCEPT ![k].client = 0, ![k].active = FALSE]
    /\ UNCHANGED <<config, conn, idles, released, mapperSeq, sjobs, swork, stats, workers,
                   seenClose, overwritten>>

\* A connection is accepted: Miners and Stats.
Connection(m) ==
    /\ conn[m].st = "none"
    /\ \A l \in 1..(m - 1) : conn[l].st # "none"
    /\ conn' = [conn EXCEPT ![m].st = "connected"]
    /\ stats' = [stats EXCEPT !.connections = @ + 1]
    /\ UNCHANGED <<config, supstreams, idles, released, mapperSeq, sjobs, pending, sshares,
                   swork, workers, seenClose, overwritten, finalised, dispatched>>

\* Login: a wrong password rejects the event, and the miner is closed.
LoginRejected(m) ==
    /\ conn[m].st = "connected"
    /\ conn' = [conn EXCEPT ![m].st = "closing"]
    /\ UNCHANGED <<config, supstreams, idles, released, mapperSeq, sjobs, pending, sshares,
                   swork, stats, workers, seenClose, overwritten, finalised, dispatched>>

\* SimpleSplitter::login and Workers::login: a mapper that can be reused, or
\* a new one that starts to connect.
SimpleLogin(m) ==
    /\ conn[m].st = "connected"
    /\ LET reuse == {k \in idles : IsReusable(supstreams[k])}
           k     == IF reuse = {} THEN mapperSeq ELSE CHOOSE i \in reuse : \A j \in reuse : i <= j
       IN  /\ conn' = [conn EXCEPT ![m] = [st |-> "in", mapper |-> k]]
           /\ idles' = idles \ {k}
           /\ mapperSeq' = IF reuse = {} THEN mapperSeq + 1 ELSE mapperSeq
           /\ supstreams' = [i \in DOMAIN supstreams \cup {k} |->
                IF i # k THEN supstreams[i]
                ELSE IF reuse = {} THEN NewSimpleMapper(m)
                ELSE [supstreams[k] EXCEPT !.miner = m, !.idle = 0]]
           /\ swork' = IF reuse # {} /\ supstreams[k].job # SNoJob
                         THEN swork \cup {<<supstreams[k].job.id, m>>} ELSE swork
    /\ workers' = WorkersAdd(workers, m)
    /\ UNCHANGED <<config, released, sjobs, pending, sshares, stats, seenClose, overwritten,
                   finalised, dispatched>>

\* SimpleMapper::submit: answered at once, or sent by the strategy of its job.
SimpleSubmit(m, id, tooOld, sameAlgo, sent) ==
    /\ conn[m].st = "in" /\ Len(sshares) < SMaxShares
    /\ LET k     == conn[m].mapper
           mp    == supstreams[k]
           found == FindJob(mp, id, tooOld)
           ok    == mp.active /\ found # {} /\ sameAlgo /\ sent
           j     == CHOOSE x \in found : TRUE
       IN  /\ ok => ClientOf(mp, j.via) # 0
           /\ sshares' = Append(sshares, [miner |-> m, answered |-> IF ok THEN {} ELSE {m}])
           /\ stats' = IF ok THEN stats ELSE [stats EXCEPT !.invalid = @ + 1]
           /\ pending' = IF ok THEN pending \cup {[mapper |-> k, via |-> j.via, job |-> id,
                                                   client |-> ClientOf(mp, j.via),
                                                   issuer |-> j.client, req |-> Len(sshares) + 1]}
                         ELSE pending
    /\ UNCHANGED <<config, conn, supstreams, idles, released, mapperSeq, sjobs, swork, workers,
                   seenClose, overwritten, finalised, dispatched>>

\* The connection ends, from either side; the close event comes later.
BeginClose(m) ==
    /\ conn[m].st \in {"connected", "in"}
    /\ conn' = [conn EXCEPT ![m].st = "closing"]
    /\ UNCHANGED <<config, supstreams, idles, released, mapperSeq, sjobs, pending, sshares,
                   swork, stats, workers, seenClose, overwritten, finalised, dispatched>>

\* The close event.  Miners and the splitter come first.  With reuse-timeout 0
\* the splitter stops the mapper, whose daemon client completes what is pending:
\* each accept event is built over the close event and refused by exec.  The
\* listeners after the splitter - Stats, AccessLog, Workers and the event stream -
\* then see a rejected accept event instead of the close event.
Close(m) ==
    /\ conn[m].st = "closing"
    /\ LET k      == conn[m].mapper
           mapped == k \in DOMAIN supstreams
           stop   == mapped /\ config.reuse = 0
           lost   == {p \in pending : stop /\ p.mapper = k}
           over   == config.daemon /\ \E p \in lost : p.via = "pool"
           idle   == [supstreams[k] EXCEPT !.miner = 0, !.dirty = TRUE]
       IN  /\ supstreams' = IF ~mapped THEN supstreams
                            ELSE IF stop THEN [i \in DOMAIN supstreams \ {k} |-> supstreams[i]]
                            ELSE [supstreams EXCEPT ![k] = idle]
           /\ released' = IF stop THEN released \cup {k} ELSE released
           /\ idles' = IF mapped /\ ~stop THEN idles \cup {k} ELSE idles
           /\ pending' = pending \ lost
           /\ finalised' = IF config.daemon
                             THEN finalised + Cardinality({p \in lost : p.via = "pool"})
                             ELSE finalised
           /\ overwritten' = IF over THEN overwritten \cup {m} ELSE overwritten
           /\ stats' = IF "Stats" \in Reached("Close", over)
                         THEN [stats EXCEPT !.connections = @ - 1] ELSE stats
           /\ workers' = IF "Workers" \in Reached("Close", over)
                           THEN WorkersRemove(workers, m) ELSE workers
           /\ seenClose' = IF "EventStream" \in Reached("Close", over)
                             THEN seenClose \cup {m} ELSE seenClose
    /\ conn' = [conn EXCEPT ![m].st = "closed"]
    /\ UNCHANGED <<config, mapperSeq, sjobs, sshares, swork, dispatched>>

\* SimpleSplitter::tick: released mappers are deleted, mappers that were idle
\* for too long are stopped and released.
SimpleTick ==
    /\ released # {} \/ idles # {}
    /\ LET late == {k \in idles : supstreams[k].idle > config.reuse}
           lost == {p \in pending : p.mapper \in late}
           done == {p \in lost : config.daemon /\ p.via = "pool"}
       IN  /\ released' = late
           /\ idles' = idles \ late
           /\ supstreams' = [k \in DOMAIN supstreams \ late |->
                IF supstreams[k].miner = 0 THEN [supstreams[k] EXCEPT !.idle = @ + 1]
                ELSE supstreams[k]]
           /\ pending' = pending \ lost
           /\ finalised' = finalised + Cardinality(done)
           /\ dispatched' = dispatched + Cardinality(done)
    /\ UNCHANGED <<config, conn, mapperSeq, sjobs, sshares, swork, stats, workers, seenClose,
                   overwritten>>

SimpleInit ==
    /\ config \in [daemon : BOOLEAN, reuse : {0, 1}, donate : BOOLEAN]
    /\ conn = [m \in Conns |-> [st |-> "none", mapper |-> -1]]
    /\ supstreams = [k \in {} |-> 0] /\ idles = {} /\ released = {}
    /\ mapperSeq = 0 /\ sjobs = 0
    /\ pending = {} /\ sshares = <<>> /\ swork = {}
    /\ stats = [connections |-> 0, accepted |-> 0, rejected |-> 0, invalid |-> 0]
    /\ workers = [w \in {Worker(m) : m \in Conns} |-> 0]
    /\ seenClose = {} /\ overwritten = {} /\ finalised = 0 /\ dispatched = 0

SimpleNext ==
    \/ \E m \in Conns :
          Connection(m) \/ LoginRejected(m) \/ SimpleLogin(m) \/ BeginClose(m) \/ Close(m)
    \/ \E m \in Conns, id \in 1..sjobs, tooOld, sameAlgo, sent \in BOOLEAN :
          SimpleSubmit(m, id, tooOld, sameAlgo, sent)
    \/ \E k \in DOMAIN supstreams, via \in {"pool", "donate"}, over \in BOOLEAN : MapperJob(k, via, over)
    \/ \E k \in DOMAIN supstreams : MapperPause(k) \/ DonationLost(k)
    \/ \E p \in pending, outcome \in {"accepted", "rejected"} : PoolResult(p, outcome)
    \/ SimpleTick

SimpleSpec == SimpleInit /\ [][SimpleNext]_simpleVars

(***************************************************************************)
(* Properties                                                              *)
(***************************************************************************)

Open == {m \in Conns : conn[m].st \in {"connected", "in", "closing"}}

\* The counts of connections, of Stats for all and of Workers by name, are
\* exact but for one thing: a close event that was overwritten during its
\* delivery is never counted, so each leaves both counts one too high.
CountsExact ==
    /\ stats.connections = Cardinality(Open) + Cardinality(overwritten)
    /\ \A w \in DOMAIN workers :
          workers[w] = Cardinality({m \in Open \cup overwritten :
                                      Worker(m) = w /\ conn[m].mapper # -1})

\* A job is sent to one miner only: a mapper is reused only after a new job
\* arrived (m_dirty), and never when its jobs hold a connection's entropy.
OneMinerPerJob == \A v, w \in swork : v[1] = w[1] => v[2] = w[2]

\* A share goes to the client that issued its job; with daemons only the miner
\* that submitted a share is answered for it.  (A stratum mapper that was
\* reused answers its new miner for a share of the one before.)
SimpleRouting ==
    /\ \A p \in pending : p.client = p.issuer
    /\ config.daemon /\ ~config.donate =>
         \A r \in DOMAIN sshares : sshares[r].answered \subseteq {sshares[r].miner}

\* m_upstreams, m_idles and m_released agree: a connected miner's mapper exists
\* and is its own, idle mappers are those without a miner, and a mapper waits
\* for deletion only after it left both maps.
MappersAgree ==
    /\ \A m \in Conns : conn[m].st = "in" =>
          conn[m].mapper \in DOMAIN supstreams /\ supstreams[conn[m].mapper].miner = m
    /\ idles = {k \in DOMAIN supstreams : supstreams[k].miner = 0}
    /\ released \cap DOMAIN supstreams = {}

\* Every result that a client completes is told to the listeners of accept
\* events, as the comment in DaemonClient::disconnect asks.
ResultsDispatched == dispatched = finalised

=============================================================================
