-------------------------- MODULE RandomXVerifier --------------------------
(***************************************************************************)
(* The client of the RandomX verifier sidecar (proxy/RandomXVerifier.cpp): *)
(* a connection that is opened, greeted, lost and reopened, the seeds it   *)
(* keeps prepared in the sidecar, and the queue of verification requests   *)
(* with its limits.  The budgets of candidates are module CandidateBudget; *)
(* the stats control, which changes nothing but event rows, is left out.   *)
(*                                                                         *)
(* Times are abstracted: what a tick finds expired or due is a choice, but *)
(* controls, which all last as long, expire in the order they were sent,   *)
(* and before a seed that was seen after they were sent: its retention is  *)
(* as long and controls go first.                                          *)
(***************************************************************************)
EXTENDS Naturals, FiniteSets

CONSTANTS
    Owners,                 \* miners
    Seeds,                  \* seed hashes, by their m_seedOrder
    maxQueue,               \* m_maxQueue
    maxPendingPerMiner,     \* m_maxPendingPerMiner
    MaxIds,                 \* bound: ids after which no caller asks for more
    MaxFaults               \* bound: lost connections, refused and expired controls

ASSUME VerifierAssumption ==
    /\ Seeds \subseteq Nat \ {0}
    /\ IsFiniteSet(Seeds)
    /\ maxQueue \in Nat \ {0} /\ maxPendingPerMiner \in Nat \ {0}
    /\ MaxIds \in Nat /\ MaxFaults \in Nat

VARIABLES
    link,       \* m_pipe, m_connected, m_ready and m_stopping
    controls,   \* m_controls
    pending,    \* m_pending
    byOwner,    \* m_pendingByOwner, 0 for no entry
    seeds,      \* status of each seed in m_seeds, "none" for no entry
    nextId,     \* m_nextRequestId
    wire,       \* frames on this connection the sidecar has not answered
    prepared,   \* seeds whose dataset the sidecar holds
    faults

verifierVars == <<link, controls, pending, byOwner, seeds, nextId, wire, prepared, faults>>

NoSeed == 0

NoRequest(l) ==
    /\ link = l
    /\ controls = {} /\ pending = {} /\ wire = {} /\ prepared = {}
    /\ byOwner = [o \in Owners |-> 0]
    /\ seeds = [s \in Seeds |-> "none"]
    /\ nextId = 1 /\ faults = 0

VerifierInit == NoRequest("connecting")     \* after start()

-----------------------------------------------------------------------------
(* Frames                                                                  *)

Control(id, op, s) == [id |-> id, op |-> op, seed |-> s, afterSeen |-> TRUE]
Frame(id, op, s) == [id |-> id, op |-> op, seed |-> s]

\* sendControl for each seed of a set, in their order, from the given id on.
idOf(first, set, s) == first + Cardinality({t \in set : t < s})
sentControls(first, op, set) == {Control(idOf(first, set, s), op, s) : s \in set}
sentFrames(first, op, set) == {Frame(idOf(first, set, s), op, s) : s \in set}

present == {s \in Seeds : seeds[s] # "none"}

\* Mutation: the seeds keep their status.
unprepared_Keeps(sd) == sd

\* A new connection knows of no prepared seed.
unprepared(sd) == [s \in Seeds |-> IF sd[s] = "none" THEN "none" ELSE "Wanted"]

(***************************************************************************)
(* What disconnect does apart from the pending requests: what was sent is  *)
(* lost with the connection, and the sidecar may forget what it prepared.  *)
(***************************************************************************)
disconnected(sd) ==
    /\ faults < MaxFaults /\ faults' = faults + 1
    /\ link' = "down"
    /\ controls' = {} /\ wire' = {} /\ prepared' = {}
    /\ seeds' = unprepared(sd)

\* failAll: every pending request is called back with an error.
failAll == pending' = {} /\ byOwner' = [o \in Owners |-> 0]

\* Mutation: the count of the owner is not brought down.
erased_KeepsCount(set) == pending' = pending \ set /\ UNCHANGED byOwner

\* Requests leave the queue, and their owners' counts go down.
erased(set) ==
    /\ pending' = pending \ set
    /\ byOwner' = [o \in Owners |->
          LET n == Cardinality({p \in set : p.owner = o})
          IN  IF byOwner[o] <= n THEN 0 ELSE byOwner[o] - n]

-----------------------------------------------------------------------------
(* The connection                                                          *)

\* A failed connect, read or write, a malformed or refused reply, a late hello.
verifierDisconnect ==
    /\ link \in {"connecting", "hello", "ready"}
    /\ disconnected(seeds)
    /\ failAll
    /\ UNCHANGED nextId

\* onConnect: the connection is up and the hello is on its way.
onConnect ==
    /\ link = "connecting"
    /\ link' = "hello"
    /\ controls' = {Control(nextId, "hello", NoSeed)}
    /\ wire' = {Frame(nextId, "hello", NoSeed)}
    /\ nextId' = nextId + 1
    /\ UNCHANGED <<pending, byOwner, seeds, prepared, faults>>

stop ==
    /\ link # "stopped"
    /\ link' = "stopped"
    /\ failAll
    /\ controls' = {} /\ wire' = {} /\ prepared' = {}
    /\ UNCHANGED <<seeds, nextId, faults>>

\* handleResponse to hello: every wanted seed is requested (requestWantedSeeds).
HelloReply ==
    LET wanted == {s \in Seeds : seeds[s] = "Wanted"}
    IN  /\ link = "hello"
        /\ link' = "ready"
        /\ controls' = sentControls(nextId, "prepare_seed", wanted)
        /\ wire' = sentFrames(nextId, "prepare_seed", wanted)
        /\ nextId' = nextId + Cardinality(wanted)
        /\ seeds' = [s \in Seeds |-> IF s \in wanted THEN "Requested" ELSE seeds[s]]
        /\ UNCHANGED <<pending, byOwner, prepared, faults>>

\* sendDocument fails at once, in onConnect, HelloReply, verify, prepareSeed or
\* tick: what is pending stays and can only time out.
WriteFails(expired, released, added) ==
    /\ disconnected([s \in Seeds |-> IF s \in released THEN "none"
                                     ELSE IF s \in added THEN "Wanted" ELSE seeds[s]])
    /\ erased(expired)
    /\ UNCHANGED nextId

-----------------------------------------------------------------------------
(* Seeds                                                                   *)

seen(s) == {IF c.seed = s THEN [c EXCEPT !.afterSeen = FALSE] ELSE c : c \in controls}

\* A seed that is wanted and due is requested at once.
PrepareAndSend(s) ==
    /\ link = "ready" /\ seeds[s] \in {"none", "Wanted"}
    /\ nextId < MaxIds
    /\ controls' = seen(s) \cup {[Control(nextId, "prepare_seed", s) EXCEPT !.afterSeen = FALSE]}
    /\ wire' = wire \cup {Frame(nextId, "prepare_seed", s)}
    /\ nextId' = nextId + 1
    /\ seeds' = [seeds EXCEPT ![s] = "Requested"]
    /\ UNCHANGED <<link, pending, byOwner, prepared, faults>>

\* Otherwise its sighting is noted.
PrepareLater(s) ==
    /\ ~ (link = "ready" /\ seeds[s] = "none")
    /\ controls' = seen(s)
    /\ seeds' = IF seeds[s] = "none" THEN [seeds EXCEPT ![s] = "Wanted"] ELSE seeds
    /\ UNCHANGED <<link, pending, byOwner, nextId, wire, prepared, faults>>

prepareSeed(s) ==
    \/ PrepareAndSend(s)
    \/ PrepareLater(s)
    \/ link = "ready" /\ seeds[s] \in {"none", "Wanted"} /\ WriteFails({}, {}, {s})

\* The sidecar answers the controls of one seed in the order it got them.
Answerable(f) == \A g \in wire : g.op # "verify" /\ g.seed = f.seed => f.id <= g.id

\* Mutation: a seed that could not be prepared is not wanted again.
afterPrepare_StaysRequested(sd, s, ok) ==
    IF sd[s] = "none" \/ ~ ok THEN sd ELSE [sd EXCEPT ![s] = "Ready"]

\* The reply is for the seed that is in the table now, whenever it was added.
afterPrepare(sd, s, ok) ==
    IF sd[s] = "none" THEN sd ELSE [sd EXCEPT ![s] = IF ok THEN "Ready" ELSE "Wanted"]

\* The sidecar's reply to prepare_seed and handleResponse.
PrepareReply(f, ok) ==
    LET known == \E c \in controls : c.id = f.id
    IN  /\ f.op = "prepare_seed" /\ Answerable(f)
        /\ IF ok THEN UNCHANGED faults ELSE faults < MaxFaults /\ faults' = faults + 1
        /\ wire' = wire \ {f}
        /\ prepared' = IF ok THEN prepared \cup {f.seed} ELSE prepared
        /\ controls' = {c \in controls : c.id # f.id}
        /\ seeds' = IF known THEN afterPrepare(seeds, f.seed, ok) ELSE seeds
        /\ UNCHANGED <<link, pending, byOwner, nextId>>

ReleaseReply(f) ==
    /\ f.op = "release_seed" /\ Answerable(f)
    /\ wire' = wire \ {f}
    /\ prepared' = prepared \ {f.seed}
    /\ controls' = {c \in controls : c.id # f.id}
    /\ UNCHANGED <<link, pending, byOwner, seeds, nextId, faults>>

-----------------------------------------------------------------------------
(* Requests                                                                *)

\* std::min(4, std::max(1, m_maxQueue / 16))
candidateReserve ==
    IF maxQueue <= 1 THEN 0
    ELSE IF maxQueue < 32 THEN 1
    ELSE IF maxQueue >= 64 THEN 4
    ELSE maxQueue \div 16

\* Mutation: no places are kept for candidates.
admissionLimit_NoReserve(priority) == maxQueue

admissionLimit(priority) == IF priority THEN maxQueue ELSE maxQueue - candidateReserve

ownerLimit(priority) == IF priority THEN maxPendingPerMiner + 1 ELSE maxPendingPerMiner

verify(o, s, priority) ==
    /\ link = "ready" /\ seeds[s] = "Ready"
    /\ Cardinality(pending) < admissionLimit(priority)
    /\ byOwner[o] < ownerLimit(priority)
    /\ nextId < MaxIds
    /\ wire' = wire \cup {Frame(nextId, "verify", s)}
    /\ pending' = pending \cup {[id |-> nextId, owner |-> o, priority |-> priority]}
    /\ byOwner' = [byOwner EXCEPT ![o] = byOwner[o] + 1]
    /\ nextId' = nextId + 1
    /\ UNCHANGED <<link, controls, seeds, prepared, faults>>

\* A reply to a request that was called back or cancelled is ignored.
VerifyReply(f) ==
    /\ f.op = "verify"
    /\ wire' = wire \ {f}
    /\ erased({p \in pending : p.id = f.id})
    /\ UNCHANGED <<link, controls, seeds, nextId, prepared, faults>>

cancelOwner(o) ==
    /\ pending' = {p \in pending : p.owner # o}
    /\ byOwner' = [byOwner EXCEPT ![o] = 0]
    /\ UNCHANGED <<link, controls, seeds, nextId, wire, prepared, faults>>

-----------------------------------------------------------------------------
(* tick                                                                    *)

\* The controls a tick may find expired: the oldest ones; hello disconnects.
ExpiredControls ==
    {x \in SUBSET controls : \A c \in x : /\ c.op # "hello"
                                          /\ \A d \in controls : d.id < c.id => d \in x}

\* Mutation: the seed stays requested.
seedsAfterExpiry_Keeps(x, released) ==
    [s \in Seeds |-> IF s \in released THEN "none" ELSE seeds[s]]

\* An expired prepare_seed is to be repeated; unseen seeds are forgotten.
seedsAfterExpiry(x, released) ==
    [s \in Seeds |-> IF s \in released THEN "none"
                     ELSE IF seeds[s] # "none" /\ \E c \in x : c.op = "prepare_seed" /\ c.seed = s
                     THEN "Wanted" ELSE seeds[s]]

\* Mutation: requests only expire on a connection.
tickExpires_Connected(expired) == link = "ready" /\ erased(expired)

tickExpires(expired) == erased(expired)

\* expired requests are called back, x controls given up, released seeds
\* forgotten, and the wanted seeds that are due requested, a second after the
\* attempt before at the earliest.
verifierTick(expired, x, released, due) ==
    LET sd    == seedsAfterExpiry(x, released)
        first == nextId + Cardinality(released)
        up    == link = "ready"
    IN  /\ expired \subseteq pending /\ x \in ExpiredControls
        /\ released \subseteq present
        /\ \A c \in controls : c.seed \in released /\ ~ c.afterSeen => c \in x
        /\ due \subseteq {s \in Seeds : up /\ sd[s] = "Wanted" /\ seeds[s] = "Wanted"}
        /\ faults + Cardinality(x) <= MaxFaults
        /\ faults' = faults + Cardinality(x)
        /\ tickExpires(expired)
        /\ seeds' = [s \in Seeds |-> IF s \in due THEN "Requested" ELSE sd[s]]
        /\ IF up
           THEN /\ controls' = (controls \ x) \cup sentControls(nextId, "release_seed", released)
                                 \cup sentControls(first, "prepare_seed", due)
                /\ wire' = wire \cup sentFrames(nextId, "release_seed", released)
                                \cup sentFrames(first, "prepare_seed", due)
                /\ nextId' = first + Cardinality(due)
           ELSE UNCHANGED <<controls, wire, nextId>>
        /\ link' = IF link = "down" THEN "connecting" ELSE link
        /\ UNCHANGED prepared

\* A tick before the time to reconnect.
tickDown(expired, released) ==
    /\ link = "down"
    /\ expired \subseteq pending /\ released \subseteq present
    /\ tickExpires(expired)
    /\ seeds' = seedsAfterExpiry({}, released)
    /\ UNCHANGED <<link, controls, nextId, wire, prepared, faults>>

Tick == \E expired \in SUBSET pending, released \in SUBSET present :
            \/ \E x \in ExpiredControls, due \in SUBSET Seeds : verifierTick(expired, x, released, due)
            \/ tickDown(expired, released)
            \/ link = "ready" /\ WriteFails(expired, released, {})

Reply(f) == (\E ok \in BOOLEAN : PrepareReply(f, ok)) \/ ReleaseReply(f) \/ VerifyReply(f)

VerifierNext ==
    \/ verifierDisconnect \/ onConnect \/ stop \/ HelloReply
    \/ link \in {"connecting", "hello", "ready"} /\ WriteFails({}, {}, {})
    \/ \E s \in Seeds : prepareSeed(s)
    \/ \E o \in Owners, s \in Seeds, priority \in BOOLEAN : verify(o, s, priority)
    \/ \E o \in Owners : cancelOwner(o)
    \/ \E f \in wire : Reply(f)
    \/ Tick

VerifierSpec == VerifierInit /\ [][VerifierNext]_verifierVars

(***************************************************************************)
(* The proxy's timer ticks every second, the sidecar accepts connections   *)
(* and answers what it got, and deadlines pass.  Faults are finite.        *)
(***************************************************************************)
\* verify draws no id from MaxIds on.
RequestIds == 1..(MaxIds - 1)

VerifierFairness ==
    /\ WF_verifierVars(link = "down" /\ verifierTick({}, {}, {}, {}))
    /\ WF_verifierVars(onConnect) /\ WF_verifierVars(HelloReply)
    /\ \A s \in Seeds :
          /\ WF_verifierVars(\E due \in SUBSET Seeds : s \in due /\ verifierTick({}, {}, {}, due))
          /\ WF_verifierVars(\E f \in wire : f.seed = s /\ f.op # "verify" /\ Reply(f))
    /\ \A i \in RequestIds :
          WF_verifierVars(/\ \E p \in pending : p.id = i
                          /\ \/ verifierTick({p \in pending : p.id = i}, {}, {}, {})
                             \/ tickDown({p \in pending : p.id = i}, {}))

VerifierFairSpec == VerifierSpec /\ VerifierFairness

-----------------------------------------------------------------------------
(* Properties                                                              *)

Ops == {"hello", "prepare_seed", "release_seed"}

\* The types of the state; ids are used once.
VerifierTypeOK ==
    /\ link \in {"connecting", "hello", "ready", "down", "stopped"}
    /\ controls \subseteq [id : Nat, op : Ops, seed : Seeds \cup {NoSeed}, afterSeen : BOOLEAN]
    /\ pending \subseteq [id : Nat, owner : Owners, priority : BOOLEAN]
    /\ byOwner \in [Owners -> Nat]
    /\ seeds \in [Seeds -> {"none", "Wanted", "Requested", "Ready"}]
    /\ nextId \in Nat
    /\ wire \subseteq [id : Nat, op : Ops \cup {"verify"}, seed : Seeds \cup {NoSeed}]
    /\ \A f \in wire : f.op # "hello" => f.seed \in Seeds
    /\ prepared \subseteq Seeds
    /\ faults \in 0..MaxFaults
    /\ \A f \in wire \cup controls \cup pending : f.id < nextId

requestsOf(o) == {p \in pending : p.owner = o}
ordinary == {p \in pending : ~ p.priority}

\* The per-miner count is the number of the miner's pending requests, however
\* replies, timeouts, cancelled owners and lost connections interleave.
OwnerCountExact ==
    \A o \in Owners : byOwner[o] = Cardinality(requestsOf(o))

\* Ordinary requests leave the reserve to candidates, and each miner has at most
\* its limit of ordinary requests and one candidate more.
QueueBounded ==
    /\ Cardinality(pending) <= maxQueue
    /\ Cardinality(ordinary) <= maxQueue - candidateReserve
    /\ \A o \in Owners : /\ Cardinality(requestsOf(o)) <= maxPendingPerMiner + 1
                         /\ Cardinality(requestsOf(o) \cap ordinary) <= maxPendingPerMiner

\* The queue's limits hold and the counts they are checked against are exact.
QueueExact == OwnerCountExact /\ QueueBounded

\* A requested seed has a prepare_seed the proxy still waits for and the sidecar
\* still has to answer: no timeout, release or reconnect leaves it requested for
\* good (nothing but that reply or its timeout asks for it again).
RequestedIsAwaited ==
    link = "ready" => \A s \in Seeds : seeds[s] = "Requested" =>
        \E c \in controls, f \in wire : c.op = "prepare_seed" /\ c.seed = s /\ f.id = c.id

\* The sidecar holds a ready seed's dataset for good, or has a prepare_seed to
\* answer that is newer than every release_seed: a late reply to an earlier
\* request never leaves a ready seed without its dataset.
ReadyIsBacked ==
    link = "ready" => \A s \in Seeds : seeds[s] = "Ready" =>
        LET releases == {f \in wire : f.op = "release_seed" /\ f.seed = s}
        IN  \/ s \in prepared /\ releases = {}
            \/ \E f \in wire : /\ f.op = "prepare_seed" /\ f.seed = s
                              /\ \A r \in releases : r.id < f.id

\* Every seed in the table becomes ready, through lost connections, refused and
\* unanswered requests, unless it is forgotten or the verifier is stopped.
SeedsBecomeReady ==
    \A s \in Seeds : (seeds[s] # "none") ~> (seeds[s] \in {"none", "Ready"} \/ link = "stopped")

\* Every request leaves the queue: even one whose connection failed on a write.
RequestsEnd ==
    \A i \in RequestIds : (\E p \in pending : p.id = i) ~> ~ (\E p \in pending : p.id = i)
=============================================================================
