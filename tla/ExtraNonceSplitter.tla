------------------------- MODULE ExtraNonceSplitter -------------------------
(***************************************************************************)
(* The extra_nonce mode of the proxy, allowed only when every pool is a    *)
(* daemon: one ExtraNonceMapper holds all miners, and ExtraNonceStorage    *)
(* gives each of them an extra nonce of its own for every job.  A job of a *)
(* daemon names the pool it came from, not the connection, so it survives  *)
(* a reconnection; a job of the donation names its session.  The mapper is *)
(* never suspended (suspend() has no caller) and, runtime reload being     *)
(* disabled, has no pending strategy.                                      *)
(***************************************************************************)
EXTENDS Integers, Sequences, FiniteSets

CONSTANTS
    XMiners,        \* connections of miners; Miner::id() counts from 1
    XPools,         \* pools of the failover list
    XJobs,          \* bound on jobs received
    XShares,        \* bound on shares submitted
    XDonate         \* donateLevel() > 0

ASSUME ExtraNonceAssumption ==
    /\ {XMiners, XPools} \subseteq Nat \ {0}
    /\ {XJobs, XShares} \subseteq Nat
    /\ XDonate \in BOOLEAN

\* A job the storage gets; restored says that it is one a donation had saved.
XJobOf(id, client, restored) == [id |-> id, client |-> client, restored |-> restored]

XNoJob == XJobOf(0, 0, FALSE)           \* an invalid Job

VARIABLES
    upstream,       \* m_upstream, with its storage and strategies
    xminer,         \* state of each miner: new, in or closed
    xjobs,          \* the client of every job received; a job's id is its number
    xsequence,      \* BaseClient::m_sequence
    xshares,        \* of each share: who submitted it, and its answers
    xinflight,      \* submit requests without an answer
    xwork           \* <<job, extra nonce, miner>> handed out for the jobs
                    \* that the mapper holds or has saved

extraVars == <<upstream, xminer, xjobs, xsequence, xshares, xinflight, xwork>>

\* The mapper before connect(): strategy and donate hold the client that is
\* active, 0 for none.
Mapper0 ==
    [active |-> FALSE, job |-> XNoJob, prevJob |-> XNoJob, extraNonce |-> 0,
     miners |-> {}, results |-> {}, strategy |-> 0, donate |-> 0,
     donating |-> FALSE, saved |-> XNoJob]

(***************************************************************************)
(* ExtraNonceStorage                                                       *)
(***************************************************************************)

\* add: an active storage sends its job with the next extra nonce.
XStorageAdd(mp, m) ==
    [mp EXCEPT !.miners = @ \cup {m},
               !.extraNonce = IF mp.active THEN @ + 1 ELSE @]

XStorageRemove(mp, m) == [mp EXCEPT !.miners = @ \ {m}]

\* Mutants: the counter is not advanced past the miners that got the job; the
\* previous job is kept whoever sent it.
XStorageSetJobZero(mp, job) ==
    [mp EXCEPT !.prevJob = IF mp.job.client = job.client THEN mp.job ELSE XNoJob,
               !.job = job, !.extraNonce = 0]
XStorageSetJobAnyClient(mp, job) ==
    [mp EXCEPT !.prevJob = mp.job, !.job = job, !.extraNonce = Cardinality(mp.miners)]

\* setJob: extra nonces start again at 0, in the order of the miners' ids.
XStorageSetJob(mp, job) ==
    [mp EXCEPT !.prevJob = IF mp.job.client = job.client THEN mp.job ELSE XNoJob,
               !.job = job, !.extraNonce = Cardinality(mp.miners)]

XIsValidJobId(mp, id) ==
    \/ mp.job.id = id
    \/ mp.prevJob # XNoJob /\ mp.prevJob.id = id

XHandedOut(mp) ==
    {<<mp.job.id, Cardinality({l \in mp.miners : l < m}), m>> : m \in mp.miners}

(***************************************************************************)
(* ExtraNonceMapper                                                        *)
(***************************************************************************)

\* onJob: see NonceMapper; a donation that lasted long enough ends here.
XOnJob(mp, job, fromDonate, over) ==
    IF mp.donate # 0 /\ ~fromDonate
      THEN IF over
             THEN [XStorageSetJob(mp, job) EXCEPT !.donate = 0, !.donating = FALSE]
             ELSE [mp EXCEPT !.saved = job]
      ELSE XStorageSetJob(mp, job)

XHanding(mp) ==
    /\ upstream' = mp
    /\ xwork' = IF mp.job # upstream.job
                  THEN {w \in xwork \cup XHandedOut(mp) : w[1] \in {mp.job.id, mp.saved.id}}
                  ELSE xwork

\* A daemon of the failover list gets active and sends its first template - the
\* first of the list also takes over from another - or the active one sends
\* another template.
XStrategyJob(pool) ==
    /\ upstream.strategy \in {0, pool} \/ pool = 1
    /\ Len(xjobs) < XJobs
    /\ xjobs' = Append(xjobs, pool)
    /\ \E over \in BOOLEAN :
          LET mp  == IF upstream.strategy # pool
                       THEN [upstream EXCEPT !.active = TRUE, !.strategy = pool]
                       ELSE upstream
              new == XOnJob(mp, XJobOf(Len(xjobs'), pool, FALSE), FALSE, over)
          IN  /\ XHanding(new)
              /\ xinflight' = {p \in xinflight : p.client \in {pool, new.donate}}
    /\ UNCHANGED <<xminer, xsequence, xshares>>

XStrategyPause ==
    /\ upstream.strategy # 0
    /\ upstream' = [upstream EXCEPT !.active = FALSE, !.strategy = 0]
    /\ xinflight' = {p \in xinflight : p.client # upstream.strategy}
    /\ UNCHANGED <<xminer, xjobs, xsequence, xshares, xwork>>

\* tick: m_ticks reaches m_target.
XDonateStart ==
    /\ XDonate /\ ~upstream.donating
    /\ upstream' = [upstream EXCEPT !.donating = TRUE, !.saved = XNoJob]
    /\ UNCHANGED <<xminer, xjobs, xsequence, xshares, xinflight, xwork>>

\* A session of the donation has a client id of its own, below 0.
XDonateJob ==
    /\ upstream.donating
    /\ Len(xjobs) < XJobs
    /\ LET first == upstream.donate = 0
           c     == IF first THEN -Len(xjobs) - 1 ELSE upstream.donate
           mp    == [upstream EXCEPT !.active = IF first THEN TRUE ELSE @, !.donate = c]
       IN  /\ xjobs' = Append(xjobs, c)
           /\ XHanding(XOnJob(mp, XJobOf(Len(xjobs'), c, FALSE), TRUE, FALSE))
    /\ UNCHANGED <<xminer, xsequence, xshares, xinflight>>

XDonateLost ==
    /\ upstream.donate # 0
    /\ upstream' = [upstream EXCEPT !.active = FALSE, !.donate = 0]
    /\ xinflight' = {p \in xinflight : p.client # upstream.donate}
    /\ UNCHANGED <<xminer, xjobs, xsequence, xshares, xwork>>

\* The job m_pending holds, as the mapper hands it out.
XRestored(mp) == XJobOf(mp.saved.id, mp.saved.client, TRUE)

\* ExtraNonceMapper::tick with a saved job, which may be of a pool that the
\* failover list has left since: nothing but the next donation resets it.
XDonateEnd ==
    /\ upstream.donate # 0 /\ upstream.saved # XNoJob
    /\ XHanding([XStorageSetJob(upstream, XRestored(upstream)) EXCEPT !.donate = 0, !.donating = FALSE])
    /\ xinflight' = {p \in xinflight : p.client # upstream.donate}
    /\ UNCHANGED <<xminer, xjobs, xsequence, xshares>>

(***************************************************************************)
(* ExtraNonceSplitter                                                      *)
(***************************************************************************)

XLogin(m) ==
    /\ xminer[m] = "new"
    /\ \A l \in 1..(m - 1) : xminer[l] # "new"
    /\ xminer' = [xminer EXCEPT ![m] = "in"]
    /\ upstream' = XStorageAdd(upstream, m)
    /\ xwork' = IF upstream.active
                  THEN xwork \cup {<<upstream.job.id, upstream.extraNonce, m>>}
                  ELSE xwork
    /\ UNCHANGED <<xjobs, xsequence, xshares, xinflight>>

XRemove(m) ==
    /\ xminer[m] = "in"
    /\ xminer' = [xminer EXCEPT ![m] = "closed"]
    /\ upstream' = XStorageRemove(upstream, m)
    /\ UNCHANGED <<xjobs, xsequence, xshares, xinflight, xwork>>

XUpstream(mp) == IF mp.donate # 0 THEN mp.donate ELSE mp.strategy

\* The request of a share that is sent, and whether its job was restored.
XRequest(mp, seq, req, id) ==
    [seq |-> seq, req |-> req, job |-> id, client |-> XUpstream(mp),
     restored |-> IF mp.job.id = id THEN mp.job.restored ELSE mp.prevJob.restored]

XSubmit(m, id, sameAlgo, sent) ==
    /\ xminer[m] = "in" /\ Len(xshares) < XShares
    /\ LET mp     == upstream
           req    == Len(xshares) + 1
           error  == ~mp.active \/ ~XIsValidJobId(mp, id) \/ ~sameAlgo
           seq    == IF sent THEN xsequence ELSE -1
           others == {r \in mp.results : r.seq # seq}
       IN  IF error
             THEN /\ sent
                  /\ xshares' = Append(xshares, [miner |-> m, answers |-> {<<m, req, TRUE>>}])
                  /\ UNCHANGED <<upstream, xsequence, xinflight>>
             ELSE /\ sent => XUpstream(mp) # 0
                  /\ xshares' = Append(xshares, [miner |-> m, answers |-> {}])
                  /\ upstream' = [mp EXCEPT !.results =
                                    others \cup {[seq |-> seq, req |-> req, miner |-> m]}]
                  /\ xsequence' = IF sent THEN xsequence + 1 ELSE xsequence
                  /\ xinflight' = IF sent
                                    THEN xinflight \cup {XRequest(mp, seq, req, id)}
                                    ELSE xinflight
    /\ UNCHANGED <<xminer, xjobs, xwork>>

XResult(p) ==
    /\ LET ctx == {r \in upstream.results : r.seq = p.seq}
       IN  /\ upstream' = [upstream EXCEPT !.results = @ \ ctx]
           /\ xshares' = [xshares EXCEPT ![p.req].answers = @ \cup
                {<<r.miner, r.req, xminer[r.miner] = "in">> : r \in
                   {c \in ctx : c.miner \in upstream.miners}}]
    /\ xinflight' = xinflight \ {p}
    /\ UNCHANGED <<xminer, xjobs, xsequence, xwork>>

ExtraInit ==
    /\ upstream = Mapper0
    /\ xminer = [m \in 1..XMiners |-> "new"]
    /\ xjobs = <<>> /\ xsequence = 1
    /\ xshares = <<>> /\ xinflight = {} /\ xwork = {}

ExtraNext ==
    \/ \E pool \in 1..XPools : XStrategyJob(pool)
    \/ XStrategyPause
    \/ XDonateStart \/ XDonateJob \/ XDonateLost \/ XDonateEnd
    \/ \E m \in 1..XMiners : XLogin(m) \/ XRemove(m)
    \/ \E m \in 1..XMiners, id \in DOMAIN xjobs, sameAlgo, sent \in BOOLEAN :
          XSubmit(m, id, sameAlgo, sent)
    \/ \E p \in xinflight : XResult(p)

(***************************************************************************)
(* Properties                                                              *)
(***************************************************************************)

\* An extra nonce of a job is given to one miner only, whoever joins and
\* leaves, across pauses, fail-over and donations: two miners with the same
\* one would search the same nonces (ExtraNonceStorage::add, setJob).
ExtraNoncesDistinct ==
    \A v, w \in xwork : v[1] = w[1] /\ v[2] = w[2] => v[3] = w[3]

\* A share goes to the client its job came from - the pool of the failover
\* list or the session of the donation - with one exception: a job saved during
\* a donation and handed out after it may go to another pool, never to the
\* donation.  Its answer goes to the miner that submitted it, while that is
\* connected.
ExtraRouting ==
    /\ \A p \in xinflight :
          \/ xjobs[p.job] = p.client
          \/ p.restored /\ p.client \in 1..XPools
    /\ \A r \in DOMAIN xshares : xshares[r].answers \subseteq {<<xshares[r].miner, r, TRUE>>}

=============================================================================
