------------------------------- MODULE Miner -------------------------------
(***************************************************************************)
(* Downstream connections in daemon mode (proxy/Miner.cpp) with the parts  *)
(* they share state with: the private jobs a daemon template turns into    *)
(* (DaemonClient, SimpleMapper), the duplicate-share cache and the two     *)
(* asynchronous services a share waits for, the RandomX verifier and the   *)
(* daemon's submitblock.  The budgets of the verifier and the retries of   *)
(* submitblock are choices here and have modules of their own.             *)
(*                                                                         *)
(* A nonce is named by the result it really hashes to, so a submission is  *)
(* honest when its claimed result is its nonce.                            *)
(***************************************************************************)
EXTENDS Naturals, Sequences, FiniteSets, FiniteSetsExt

CONSTANTS
    Owners,                 \* keys of Storage<Miner>
    Sources,                \* ids of daemon template sources
    Heights,                \* block heights
    Clients,                \* ids of the DaemonClients of a mapper's strategies
    Results,                \* PoW results
    Quality,                \* Results -> {"low", "share", "block"}
    VerifierModes,          \* with a RandomXVerifier, without one, or both cases
    AllowReorg,             \* the daemon's height may go down
    kTelemetryJobCount,     \* jobs a connection remembers
    maxConsecutiveRejections,
    kMaxConsecutiveInfrastructureFailures,
    kMaxEntries, kMaxEntriesPerSource,
    MaxTemplates,           \* bound: templates fetched in a behaviour
    MaxDisconnects,         \* bound: upstream disconnects in a behaviour
    MaxRequests             \* bound: submit requests received in a behaviour

\* A job exists per template a connection received, reconnects included.
Tokens == 1..(MaxTemplates + MaxDisconnects + 1)

ASSUME MinerAssumption ==
    /\ Quality \in [Results -> {"low", "share", "block"}]
    /\ VerifierModes \subseteq BOOLEAN /\ AllowReorg \in BOOLEAN
    /\ Owners \subseteq Nat /\ Sources \subseteq Nat \ {0} /\ Heights \subseteq Nat \ {0}
    /\ Clients \subseteq Nat \ {0} /\ IsFiniteSet(Owners)
    /\ {kTelemetryJobCount, maxConsecutiveRejections, kMaxConsecutiveInfrastructureFailures,
        kMaxEntries, kMaxEntriesPerSource, MaxTemplates, MaxDisconnects, MaxRequests} \subseteq Nat

VARIABLES
    cache,          \* the GlobalShareCache
    miner,          \* per connection, with its mapper and DaemonClient
    latest,         \* m_latest of each source: its height, 0 before the first
    retired,        \* sources shut down; ids are not reused
    pending,        \* PendingShares in the verifier
    inflight,       \* submissions owned by a DaemonClient
    log,            \* every submit request with what the miner was answered
    credited,       \* accepted shares: <<request, owner, token, nonce>>
    templates, disconnects,
    useVerifier     \* a RandomXVerifier is configured; never changes

vars == <<cache, miner, latest, retired, pending, inflight, log, credited,
          templates, disconnects, useVerifier>>

Keys == [owner : Owners, token : Tokens, result : Results]

C == INSTANCE GlobalShareCache WITH held <- {}, spent <- {}, MaxToken <- 0

NoReservation == [key |-> 0, sourceId |-> 0, height |-> 0, token |-> 0]

NewMiner ==
    [ state |-> "new",          \* m_state
      source |-> 0,             \* DaemonClient::m_source, 0 when disconnected
      client |-> 0,             \* the strategy's active client
      jobClient |-> 0,          \* the client of SimpleMapper::m_currentJob
      deferred |-> 0,           \* m_pendingSnapshot: its height, 0 for none
      jobs |-> <<>>,            \* m_telemetryJobs, newest first
      jobHeight |-> 0,          \* m_jobHeight
      sequence |-> 0,           \* m_jobIssuanceSequence
      generation |-> 0,         \* m_verificationGeneration
      rejections |-> 0,         \* m_consecutiveShareRejections
      failures |-> 0 ]          \* m_consecutiveInfrastructureFailures

Init ==
    /\ cache = C!EmptyCache
    /\ miner = [o \in Owners |-> NewMiner]
    /\ latest = [s \in Sources |-> 0]
    /\ retired = {}
    /\ pending = {} /\ inflight = {} /\ credited = {}
    /\ log = <<>>
    /\ templates = 0 /\ disconnects = 0
    /\ useVerifier \in VerifierModes

-----------------------------------------------------------------------------
(* The connection                                                          *)

isWritable(m) == m.state \in {"wait", "ready"}

shutdown(m) == [m EXCEPT !.state = "closing"]

recordShareOutcome(m, accepted) ==
    IF accepted
    THEN [m EXCEPT !.failures = 0, !.rejections = 0]
    ELSE IF ~ useVerifier \/ maxConsecutiveRejections = 0
    THEN m
    ELSE IF m.rejections + 1 >= maxConsecutiveRejections
    THEN shutdown([m EXCEPT !.rejections = @ + 1])
    ELSE [m EXCEPT !.rejections = @ + 1]

recordInfrastructureOutcome(m, healthy) ==
    IF healthy
    THEN [m EXCEPT !.failures = 0]
    ELSE IF m.failures + 1 >= kMaxConsecutiveInfrastructureFailures
    THEN shutdown([m EXCEPT !.failures = @ + 1])
    ELSE [m EXCEPT !.failures = @ + 1]

isStale(submitted, latestSent) == submitted # 0 /\ latestSent > submitted

\* findTelemetryJob: the retained, unexpired job with this id, if any.
findTelemetryJob(m, t) ==
    {m.jobs[i] : i \in {i \in DOMAIN m.jobs : m.jobs[i].token = t /\ m.jobs[i].live}}

clearTelemetryJobs(m) ==
    [m EXCEPT !.jobs = <<>>, !.jobHeight = 0, !.generation = @ + 1]

\* Mutation: only the height of the newest job is referenced.
eligibleHeights_NewestOnly(m, s) == {m.jobHeight}

eligibleHeights(m, s) ==
    {m.jobs[i].height : i \in {i \in DOMAIN m.jobs : /\ m.jobs[i].source = s
                                                     /\ m.jobs[i].height >= m.jobHeight
                                                     /\ m.jobs[i].live}}

rememberJob(m, h) ==
    LET job  == [token |-> m.sequence + 1, height |-> h, source |-> m.source, live |-> TRUE]
        jobs == <<job>> \o m.jobs
    IN  [m EXCEPT !.sequence = @ + 1,
                  !.jobHeight = h,
                  !.jobs = SubSeq(jobs, 1, IF Len(jobs) > kTelemetryJobCount
                                           THEN kTelemetryJobCount ELSE Len(jobs))]

(***************************************************************************)
(* A template becomes the connection's job: SimpleMapper::setJob drops the *)
(* jobs of another client, Miner::setJob sends the job and, only when it   *)
(* was written, remembers it and rebuilds the bucket references.  A failed *)
(* write shuts the connection down.  st pairs the cache and the miners.    *)
(***************************************************************************)
setJob(st, o, h, written) ==
    LET old  == st.miner[o]
        same == old.jobClient = old.client
        m    == [(IF same THEN old ELSE clearTelemetryJobs(old))
                    EXCEPT !.jobClient = old.client, !.deferred = 0]
        c    == IF same THEN st.cache ELSE C!removeOwner(st.cache, o)
        sent == [rememberJob(m, h) EXCEPT !.state = "ready"]
    IN  IF ~ isWritable(m)
        THEN [cache |-> c, miner |-> [st.miner EXCEPT ![o] = m]]
        ELSE IF ~ written
        THEN [cache |-> c, miner |-> [st.miner EXCEPT ![o] = shutdown(m)]]
        ELSE [cache |-> C!setOwnerHeights(c, o, m.source, eligibleHeights(sent, m.source)),
              miner |-> [st.miner EXCEPT ![o] = sent]]

\* DaemonClient::onDaemonTemplate: without the seed's dataset the snapshot waits.
onDaemonTemplate(st, o, h, seedReady, written) ==
    IF seedReady
    THEN setJob(st, o, h, written)
    ELSE [st EXCEPT !.miner[o].deferred = h]

State == [cache |-> cache, miner |-> miner]

subscribers(s) == {o \in Owners : miner[o].source = s}

\* The last subscriber of a source destroys it, and with it its buckets.
releaseSource(c, s, o) ==
    IF s # 0 /\ subscribers(s) = {o} THEN C!removeSource(c, s) ELSE c

retire(s, o) ==
    IF s # 0 /\ subscribers(s) = {o}
    THEN retired' = retired \cup {s} /\ latest' = [latest EXCEPT ![s] = 0]
    ELSE UNCHANGED <<retired, latest>>

SeedReady == IF useVerifier THEN BOOLEAN ELSE {TRUE}

\* DaemonTemplateSource::acquire: the clients of one pool share its live source.
acquirable(s, cl) ==
    /\ s \notin retired
    /\ \A o \in Owners : miner[o].source # 0 => (miner[o].source = s <=> miner[o].client = cl)

\* DaemonClient::connect: subscribe and replay the source's latest template.
subscribe(o, s, cl, m0, ready, written) ==
    LET st == [State EXCEPT !.miner[o] = [m0 EXCEPT !.source = s, !.client = cl]]
        r  == IF latest[s] = 0 THEN st
              ELSE onDaemonTemplate(st, o, latest[s], ready, written)
    IN  cache' = r.cache /\ miner' = r.miner

Login(o, s, cl, ready, written) ==
    /\ miner[o].state = "new"
    /\ acquirable(s, cl)
    /\ subscribe(o, s, cl, [miner[o] EXCEPT !.state = "wait"], ready, written)
    /\ UNCHANGED <<latest, retired, pending, inflight, log, credited, templates, disconnects, useVerifier>>

Reconnect(o, s, cl, ready, written) ==
    /\ isWritable(miner[o])
    /\ miner[o].source = 0
    /\ acquirable(s, cl)
    /\ subscribe(o, s, cl, miner[o], ready, written)
    /\ UNCHANGED <<latest, retired, pending, inflight, log, credited, templates, disconnects, useVerifier>>

\* A template was fetched: every subscriber first, then the cache.
NewTemplate(s, h, ready, failing) ==
    /\ templates < MaxTemplates
    /\ subscribers(s) # {} /\ failing \subseteq subscribers(s)
    /\ AllowReorg \/ h >= latest[s]
    /\ LET st == FoldSet(LAMBDA o, acc : onDaemonTemplate(acc, o, h, ready, o \notin failing),
                         State, subscribers(s))
       IN  /\ cache' = C!observeHeight(st.cache, s, h)
           /\ miner' = st.miner
    /\ latest' = [latest EXCEPT ![s] = h]
    /\ templates' = templates + 1
    /\ UNCHANGED <<retired, pending, inflight, log, credited, disconnects, useVerifier>>

\* DaemonClient::tick once the dataset of the deferred snapshot is ready.
InstallDeferred(o, written) ==
    /\ miner[o].deferred # 0
    /\ LET st == setJob(State, o, miner[o].deferred, written)
       IN  cache' = st.cache /\ miner' = st.miner
    /\ UNCHANGED <<latest, retired, pending, inflight, log, credited, templates, disconnects, useVerifier>>

\* 120 s passed since the oldest live job was issued.
ExpireJob(o) ==
    /\ \E i \in DOMAIN miner[o].jobs :
          /\ miner[o].jobs[i].live
          /\ \A j \in DOMAIN miner[o].jobs : j > i => ~ miner[o].jobs[j].live
          /\ miner' = [miner EXCEPT ![o].jobs[i].live = FALSE]
    /\ UNCHANGED <<cache, latest, retired, pending, inflight, log, credited,
                   templates, disconnects, useVerifier>>

\* A read error, the peer's end of file, a timeout or a malformed line.
ConnectionLost(o) ==
    /\ isWritable(miner[o])
    /\ miner' = [miner EXCEPT ![o] = shutdown(@)]
    /\ UNCHANGED <<cache, latest, retired, pending, inflight, log, credited,
                   templates, disconnects, useVerifier>>

-----------------------------------------------------------------------------
(* Answers                                                                 *)

\* A reply reaches the miner only while its socket is writable.
answer(lg, q, v) ==
    IF isWritable(miner[lg[q].owner]) THEN [lg EXCEPT ![q].answers = Append(@, v)] ELSE lg

request(o, t, n, c) ==
    [owner |-> o, token |-> t, nonce |-> n, claimed |-> c,
     answers |-> <<>>, submitted |-> FALSE, unverified |-> FALSE]

\* Mutation: the computed identity is forgotten about.
release2_GlobalOnly(c, res) == C!release(c, res.global)

release2(c, res) == C!release(C!release(c, res.global), res.computed)

\* A PendingShare destroyed without retainSubmission.
destroyed(c, shares) == FoldSet(LAMBDA p, acc : release2(acc, p.res), c, shares)

\* Mutation: retainSubmission is not set.
retainSubmission_Unset(c, res) == release2(c, res)

\* A PendingShare destroyed after retainSubmission was set leaves the cache alone.
retainSubmission(c, res) == c

(***************************************************************************)
(* Handing a share to the upstream (SubmitEvent through SimpleSplitter and *)
(* SimpleMapper to DaemonClient::submit).  It may be refused: BadGateway   *)
(* when no client can take it, InvalidJobId when the mapper forgot the     *)
(* job.  res are the reservations still held for the request.              *)
(***************************************************************************)
Outcomes == {"flight", "BadGateway", "InvalidJobId"}

Forward(q, lg, c, res, out) ==
    LET r == lg[q]
        o == r.owner
    IN  \/ /\ out = "flight"
           /\ \E j \in findTelemetryJob(miner[o], r.token) : j.source = miner[o].source
           /\ inflight' = inflight \cup {q}
           /\ log' = [lg EXCEPT ![q].submitted = TRUE]
           /\ cache' = retainSubmission(c, res)
           /\ miner' = [miner EXCEPT ![o] = recordInfrastructureOutcome(@, TRUE)]
        \/ /\ out = "BadGateway"
           /\ log' = answer(lg, q, "Retry")
           /\ cache' = release2(c, res)
           /\ miner' = [miner EXCEPT ![o] = recordInfrastructureOutcome(@, FALSE)]
           /\ UNCHANGED inflight
        \/ /\ out = "InvalidJobId"
           /\ log' = answer(lg, q, "Rejected")
           /\ cache' = retainSubmission(c, res)
           /\ miner' = [miner EXCEPT ![o] = recordShareOutcome(@, FALSE)]
           /\ UNCHANGED inflight

\* DaemonClient's final result: SimpleMapper::onResultAccepted.
DaemonResult(q, out) ==
    LET r == log[q]
        o == r.owner
    IN  /\ q \in inflight
        /\ out = "OK" => /\ Quality[r.nonce] = "block"
                         /\ \A x \in credited : <<x[2], x[3], x[4]>> # <<o, r.token, r.nonce>>
        /\ inflight' = inflight \ {q}
        /\ log' = answer(log, q, IF out = "OK" THEN "OK" ELSE "Rejected")
        /\ credited' = IF out = "OK" THEN credited \cup {<<q, o, r.token, r.nonce>>} ELSE credited
        /\ miner' = IF out = "Ambiguous" THEN miner
                    ELSE [miner EXCEPT ![o] = recordShareOutcome(@, out = "OK")]
        /\ UNCHANGED <<cache, latest, retired, pending, templates, disconnects, useVerifier>>

\* DaemonClient::disconnect answers everything it still owned as ambiguous.
Disconnect(o) ==
    LET mine == {q \in inflight : log[q].owner = o}
    IN  /\ disconnects < MaxDisconnects
        /\ miner[o].source # 0 /\ miner[o].state # "gone"
        /\ inflight' = inflight \ mine
        /\ log' = [q \in DOMAIN log |-> IF q \in mine THEN answer(log, q, "Rejected")[q] ELSE log[q]]
        /\ miner' = [miner EXCEPT ![o].source = 0, ![o].deferred = 0]
        /\ cache' = releaseSource(cache, miner[o].source, o)
        /\ retire(miner[o].source, o)
        /\ disconnects' = disconnects + 1
        /\ UNCHANGED <<pending, credited, templates, useVerifier>>

\* The close callback: CloseEvent stops the mapper and its client, then ~Miner.
Close(o) ==
    LET mine == {p \in pending : p.owner = o}
    IN  /\ miner[o].state = "closing"
        /\ inflight' = {q \in inflight : log[q].owner # o}
        /\ pending' = pending \ mine
        /\ cache' = destroyed(C!removeOwner(releaseSource(cache, miner[o].source, o), o), mine)
        /\ retire(miner[o].source, o)
        /\ miner' = [miner EXCEPT ![o] = [NewMiner EXCEPT !.state = "gone"]]
        /\ UNCHANGED <<log, credited, templates, disconnects, useVerifier>>

-----------------------------------------------------------------------------
(* A submit request                                                        *)

key(o, t, r) == [owner |-> o, token |-> t, result |-> r]

\* The checks of parseRequest in their order; the last one tries the cache.
submitError(o, t, c, fault) ==
    LET m    == miner[o]
        jobs == findTelemetryJob(m, t)
        job  == CHOOSE j \in jobs : TRUE
    IN  IF jobs = {} THEN "InvalidJobId"
        ELSE IF fault # "none" THEN fault
        ELSE IF isStale(job.height, m.jobHeight) THEN "StaleShare"
        ELSE IF ~ useVerifier /\ Quality[c] = "low" THEN "LowDifficulty"
        ELSE CASE C!reserveResult(cache, job.source, job.height, key(o, t, c)) = "Accepted"
                    -> "NoError"
               [] C!reserveResult(cache, job.source, job.height, key(o, t, c)) = "Duplicate"
                    -> "DuplicateShare"
               [] OTHER -> "VerificationFailed"

\* A malformed field is answered like an unknown job, except that InvalidNonce
\* also drops the connection: parseRequest returns false.
Faults == {"none", "InvalidNonce"}

\* The nonce plays no part in a refusal.
SubmitRejected(o, t, c, fault) ==
    LET error == submitError(o, t, c, fault)
        infra == error = "VerificationFailed"
    IN  /\ miner[o].state = "ready" /\ Len(log) < MaxRequests
        /\ error # "NoError"
        /\ log' = Append(log, [request(o, t, c, c) EXCEPT
                                  !.answers = <<IF infra THEN "Retry" ELSE "Refused">>])
        /\ miner' = [miner EXCEPT ![o] =
                        IF infra THEN recordInfrastructureOutcome(@, FALSE)
                        ELSE IF error = "InvalidNonce" THEN shutdown(recordShareOutcome(@, FALSE))
                        ELSE recordShareOutcome(@, FALSE)]
        /\ UNCHANGED <<cache, latest, retired, pending, inflight, credited, templates, disconnects, useVerifier>>

\* The request passed every check: its job, and its reservation.
Admitted(o, t, c) ==
    /\ miner[o].state = "ready" /\ Len(log) < MaxRequests
    /\ submitError(o, t, c, "none") = "NoError"

jobOf(o, t) == CHOOSE j \in findTelemetryJob(miner[o], t) : TRUE

reserved(o, t, c) ==
    LET j == jobOf(o, t) IN C!reserve(cache, j.source, j.height, key(o, t, c))

reservation(o, t, c) ==
    LET j == jobOf(o, t)
    IN  [global |-> C!newReservation(cache, j.source, j.height, key(o, t, c)),
         computed |-> NoReservation]

claimedCandidate(c) == Quality[c] = "block"

\* startVerification succeeds; a candidate gets here when over its budget.
SubmitVerify(o, t, n, c) ==
    /\ useVerifier
    /\ Admitted(o, t, c)
    /\ cache' = reserved(o, t, c)
    /\ log' = Append(log, request(o, t, n, c))
    /\ pending' = pending \cup
          {[req |-> Len(log) + 1, owner |-> o, token |-> t,
            generation |-> miner[o].generation, candidateFallback |-> claimedCandidate(c),
            res |-> reservation(o, t, c)]}
    /\ miner' = [miner EXCEPT ![o] = recordInfrastructureOutcome(@, TRUE)]
    /\ UNCHANGED <<latest, retired, inflight, credited, templates, disconnects, useVerifier>>

\* The verifier refuses the request: an ordinary share fails as infrastructure,
\* a candidate without an emergency budget as CandidateRateLimit.
SubmitUnavailable(o, t, n, c) ==
    /\ useVerifier
    /\ Admitted(o, t, c)
    /\ cache' = release2(reserved(o, t, c), reservation(o, t, c))
    /\ log' = Append(log, [request(o, t, n, c) EXCEPT !.answers = <<"Retry">>])
    /\ miner' = [miner EXCEPT ![o] = IF claimedCandidate(c)
                                     THEN recordShareOutcome(@, FALSE)
                                     ELSE recordInfrastructureOutcome(@, FALSE)]
    /\ UNCHANGED <<latest, retired, pending, inflight, credited, templates, disconnects, useVerifier>>

\* A claimed candidate within its budget, or without a verifier, goes upstream.
SubmitCandidate(o, t, n, c, out) ==
    /\ claimedCandidate(c)
    /\ Admitted(o, t, c)
    /\ Forward(Len(log) + 1, Append(log, request(o, t, n, c)),
               reserved(o, t, c), reservation(o, t, c), out)
    /\ UNCHANGED <<latest, retired, pending, credited, templates, disconnects, useVerifier>>

\* Over budget and refused by the verifier, but the emergency budget grants it.
\* The PendingShare that startVerification gave up has released the reservation.
SubmitEmergency(o, t, n, c, out) ==
    /\ useVerifier /\ claimedCandidate(c)
    /\ Admitted(o, t, c)
    /\ Forward(Len(log) + 1, Append(log, [request(o, t, n, c) EXCEPT !.unverified = TRUE]),
               release2(reserved(o, t, c), reservation(o, t, c)), reservation(o, t, c), out)
    /\ UNCHANGED <<latest, retired, pending, credited, templates, disconnects, useVerifier>>

\* Mutation: a locally accepted share is not remembered.
SubmitLocal_Forgets(o, t, n, c) ==
    /\ ~ useVerifier /\ Quality[c] = "share"
    /\ Admitted(o, t, c)
    /\ log' = Append(log, [request(o, t, n, c) EXCEPT !.answers = <<"OK">>])
    /\ credited' = credited \cup {<<Len(log) + 1, o, t, c>>}
    /\ UNCHANGED <<cache, miner, latest, retired, pending, inflight, templates, disconnects, useVerifier>>

\* Without a verifier a custom-difficulty share is accepted on its claim.
SubmitLocal(o, t, n, c) ==
    /\ ~ useVerifier /\ Quality[c] = "share"
    /\ Admitted(o, t, c)
    /\ cache' = reserved(o, t, c)
    /\ log' = Append(log, [request(o, t, n, c) EXCEPT !.answers = <<"OK">>])
    /\ credited' = credited \cup {<<Len(log) + 1, o, t, c>>}
    /\ UNCHANGED <<miner, latest, retired, pending, inflight, templates, disconnects, useVerifier>>

-----------------------------------------------------------------------------
(* The verifier's answer: completeVerification                             *)

\* The share's job is still the one it was issued against.
current(p) ==
    /\ p.generation = miner[p.owner].generation
    /\ findTelemetryJob(miner[p.owner], p.token) # {}

\* Mutation: the verifier keeps the request it has answered.
Take_Keeps(p) == p \in pending /\ UNCHANGED pending

Take(p) == p \in pending /\ pending' = pending \ {p}

VerifiedAfterClose(p) ==
    /\ Take(p)
    /\ miner[p.owner].state = "closing"
    /\ cache' = destroyed(cache, {p})
    /\ UNCHANGED <<miner, latest, retired, inflight, log, credited, templates, disconnects, useVerifier>>

\* Mutation: a share whose job is gone is dropped without an answer.
VerifiedForOldJob_Silent(p) ==
    /\ Take(p)
    /\ miner[p.owner].state # "closing" /\ ~ current(p)
    /\ UNCHANGED <<cache, miner, log, latest, retired, inflight, credited, templates, disconnects, useVerifier>>

\* The reservation stays: the work was presented, whatever became of its job.
VerifiedForOldJob(p) ==
    /\ Take(p)
    /\ miner[p.owner].state # "closing" /\ ~ current(p)
    /\ cache' = retainSubmission(cache, p.res)
    /\ log' = answer(log, p.req, "Rejected")
    /\ miner' = [miner EXCEPT ![p.owner] = recordShareOutcome(@, FALSE)]
    /\ UNCHANGED <<latest, retired, inflight, credited, templates, disconnects, useVerifier>>

\* The verifier failed: the exact share may be tried again.
VerifyFailed(p) ==
    /\ Take(p)
    /\ miner[p.owner].state # "closing" /\ current(p)
    /\ cache' = destroyed(cache, {p})
    /\ log' = answer(log, p.req, "Retry")
    /\ miner' = [miner EXCEPT ![p.owner] = IF p.candidateFallback
                                           THEN recordShareOutcome(@, FALSE)
                                           ELSE recordInfrastructureOutcome(@, FALSE)]
    /\ UNCHANGED <<latest, retired, inflight, credited, templates, disconnects, useVerifier>>

\* A candidate whose verification failed still goes upstream, budget permitting.
VerifyFailedCandidate(p, out) ==
    /\ Take(p)
    /\ miner[p.owner].state # "closing" /\ current(p)
    /\ p.candidateFallback
    /\ Forward(p.req, log, cache, p.res, out)
    /\ UNCHANGED <<latest, retired, credited, templates, disconnects, useVerifier>>

\* After a mismatch the computed identity is reserved as well.
computedIdentity(p) ==
    LET r == log[p.req]
        g == p.res.global
    IN  IF r.claimed = r.nonce \/ ~ C!hasHeight(cache, g.sourceId, g.height)
        THEN "NotNeeded"
        ELSE C!reserveResult(cache, g.sourceId, g.height, key(p.owner, p.token, r.nonce))

withComputed(p) ==
    LET g == p.res.global
        k == key(p.owner, p.token, log[p.req].nonce)
    IN  IF computedIdentity(p) # "Accepted"
        THEN [cache |-> cache, res |-> p.res]
        ELSE [cache |-> C!reserve(cache, g.sourceId, g.height, k),
              res |-> [p.res EXCEPT !.computed = C!newReservation(cache, g.sourceId, g.height, k)]]

Verified(p) ==
    /\ Take(p)
    /\ miner[p.owner].state # "closing" /\ current(p)
    /\ LET r == log[p.req]
           q == Quality[r.nonce]
           e == computedIdentity(p)
       IN  CASE e = "Capacity" ->
                  /\ cache' = destroyed(cache, {p})
                  /\ log' = answer(log, p.req, "Retry")
                  /\ miner' = [miner EXCEPT ![p.owner] = recordInfrastructureOutcome(@, FALSE)]
                  /\ UNCHANGED <<credited, inflight>>
             [] e # "Capacity" /\ e # "Duplicate" /\ q = "block" ->
                  /\ \E out \in Outcomes :
                        Forward(p.req, log, withComputed(p).cache, withComputed(p).res, out)
                  /\ UNCHANGED credited
             [] r.claimed = r.nonce /\ q = "share" ->
                  /\ log' = answer(log, p.req, "OK")
                  /\ credited' = credited \cup {<<p.req, p.owner, p.token, r.nonce>>}
                  /\ miner' = [miner EXCEPT ![p.owner] = recordShareOutcome(@, TRUE)]
                  /\ cache' = retainSubmission(cache, p.res)
                  /\ UNCHANGED inflight
             [] OTHER ->        \* DuplicateShare, InvalidResult, LowDifficulty
                  /\ cache' = retainSubmission(withComputed(p).cache, withComputed(p).res)
                  /\ log' = answer(log, p.req, "Rejected")
                  /\ miner' = [miner EXCEPT ![p.owner] = recordShareOutcome(@, FALSE)]
                  /\ UNCHANGED <<credited, inflight>>
    /\ UNCHANGED <<latest, retired, templates, disconnects, useVerifier>>

-----------------------------------------------------------------------------
Submit(o, t, n, c) ==
    \/ \E fault \in Faults : SubmitRejected(o, t, c, fault)
    \/ SubmitVerify(o, t, n, c)
    \/ SubmitUnavailable(o, t, n, c)
    \/ \E out \in Outcomes : SubmitCandidate(o, t, n, c, out)
    \/ \E out \in Outcomes : SubmitEmergency(o, t, n, c, out)
    \/ SubmitLocal(o, t, n, c)

Complete(p) ==
    \/ VerifiedAfterClose(p)
    \/ VerifiedForOldJob(p)
    \/ VerifyFailed(p)
    \/ \E out \in Outcomes : VerifyFailedCandidate(p, out)
    \/ Verified(p)

Next ==
    \/ \E o \in Owners, s \in Sources, cl \in Clients, ready \in SeedReady, written \in BOOLEAN :
          Login(o, s, cl, ready, written) \/ Reconnect(o, s, cl, ready, written)
    \/ \E s \in Sources, h \in Heights, ready \in SeedReady, failing \in SUBSET Owners :
          NewTemplate(s, h, ready, failing)
    \/ \E o \in Owners, written \in BOOLEAN : InstallDeferred(o, written)
    \/ \E o \in Owners : ExpireJob(o) \/ ConnectionLost(o) \/ Disconnect(o) \/ Close(o)
    \/ \E o \in Owners, t \in Tokens, n \in Results, c \in Results : Submit(o, t, n, c)
    \/ \E p \in pending : Complete(p)
    \/ \E q \in inflight, out \in {"OK", "Rejected", "Ambiguous"} : DaemonResult(q, out)

Spec == Init /\ [][Next]_vars

(***************************************************************************)
(* The verifier answers every request it took, or times out and fails it;  *)
(* a DaemonClient finalizes every submission after a bounded number of     *)
(* HTTP attempts, each with a timeout.                                     *)
(***************************************************************************)
Fairness ==
    \A q \in 1..MaxRequests :
        /\ WF_vars(\E p \in pending : p.req = q /\ Complete(p))
        /\ WF_vars(\E out \in {"OK", "Rejected", "Ambiguous"} : DaemonResult(q, out))

FairSpec == Spec /\ Fairness

-----------------------------------------------------------------------------
(* Properties                                                              *)

\* submit-eligible: the job would not be refused as unknown or stale.
Eligible(m, i) == m.jobs[i].live /\ ~ isStale(m.jobs[i].height, m.jobHeight)

\* Whatever templates, failed writes, deferred snapshots and disconnects of
\* other connections do, the bucket of every job a connected miner may still
\* submit exists, so its shares never fail as VerificationFailed for want of it
\* (the last part of rememberJob against observeHeight and detachOwner).
BucketForEligibleJob ==
    \A o \in Owners : miner[o].state = "ready" =>
        \A i \in DOMAIN miner[o].jobs :
            LET j == miner[o].jobs[i]
            IN  (Eligible(miner[o], i) /\ j.source = miner[o].jobs[1].source /\ j.source \notin retired)
                    => C!hasHeight(cache, j.source, j.height)

\* What the caller of reserve still relies on: the request is being verified,
\* was handed to the daemon, or was accepted.
Claimed(q) ==
    \/ \E p \in pending : p.req = q
    \/ q \in inflight
    \/ log[q].answers = <<"OK">>

\* While its job is still eligible, the share of such a request is refused when
\* it is submitted again (rememberSubmission in parseRequest).  Candidates sent
\* through the emergency path are the exception: their reservation was released
\* by the PendingShare that startVerification gave up.
ReplayRefused ==
    \A q \in DOMAIN log :
        Claimed(q) /\ ~ log[q].unverified /\ miner[log[q].owner].state = "ready"
            => submitError(log[q].owner, log[q].token, log[q].claimed, "none") # "NoError"

\* The same work (job and nonce) is never accepted twice, whether locally or by
\* the daemon, whatever results are claimed for it.
NoWorkCreditedTwice ==
    \A x, y \in credited : SubSeq(x, 2, 4) = SubSeq(y, 2, 4) => x = y

\* A reservation outlives its request only if the request was answered for good
\* or handed to the daemon: every infrastructure failure releases both of its
\* identities so that genuine work can be retried (forgetSubmission and
\* ~PendingShare on every path out of parseRequest and completeVerification).
NoLeakedReservation ==
    \A k \in Keys : cache.keys[k] # 0 =>
        \E q \in DOMAIN log :
            /\ log[q].owner = k.owner /\ log[q].token = k.token
            /\ k.result \in {log[q].claimed, log[q].nonce}
            /\ Claimed(q) \/ log[q].submitted \/ log[q].answers = <<"Rejected">>

\* A request is answered at most once, and one without an answer on a connected
\* miner still has exactly one owner that will answer it.
OneAnswer ==
    \A q \in DOMAIN log :
        LET owners == Cardinality({p \in pending : p.req = q}) + (IF q \in inflight THEN 1 ELSE 0)
        IN  /\ Len(log[q].answers) + owners <= 1
            /\ miner[log[q].owner].state = "ready" => Len(log[q].answers) + owners = 1

Settled(q) ==
    /\ q \in DOMAIN log
    /\ log[q].answers # <<>> \/ miner[log[q].owner].state \in {"closing", "gone"}

\* Every submit request is answered, unless its connection goes away first.
RequestAnswered ==
    \A q \in 1..MaxRequests : (q \in DOMAIN log) ~> Settled(q)
=============================================================================
