-------------------------- MODULE MinerConnections --------------------------
(***************************************************************************)
(* The life of a miner's connection, from Server::create to the destructor *)
(* of Miner, and the parts of the proxy that keep count of it: Miners,     *)
(* Counters, Stats and Workers.                                            *)
(*                                                                         *)
(* A connection is closed at once (uv_close) or, after the miner ended its *)
(* side, by uv_shutdown and then uv_close; the close event is sent and the *)
(* object deleted in the callback of uv_close.  Deadlines are counted in   *)
(* ticks of Miners.  What shares go through is the matter of module Miner; *)
(* here a share is only refused or not.                                    *)
(***************************************************************************)
EXTENDS Integers, Sequences, FiniteSetsExt, TLC

CONSTANTS
    MaxMiners,      \* connections; Miner::m_id counts from 1
    MaxResults,     \* bound on shares whose outcome is counted
    ProxySettings,  \* configurations: tls, a context can be made; hosts, of bind;
                    \* verifier, diff, donate, byWorker, customStats
    MinerLogins,    \* what a miner says of itself: worker, good: the password,
                    \* url, diff: the suffix of the user, 0 for none that counts
    kLoginTimeout, kReadyTimeout, kSocketTimeout   \* in ticks of Miners

\* A verifier needs the simple mode (Config::read), in which the donate route is
\* open (Config::isDonateOverProxy).
ASSUME ConnectionsAssumption ==
    /\ {MaxMiners, MaxResults, kLoginTimeout, kReadyTimeout, kSocketTimeout} \subseteq Nat
    /\ kLoginTimeout <= kReadyTimeout /\ kReadyTimeout <= kSocketTimeout
    /\ \A s \in ProxySettings :
         /\ {s.tls, s.verifier, s.donate, s.byWorker, s.customStats} \subseteq BOOLEAN
         /\ s.diff \in Nat /\ \A h \in s.hosts : h.tls \in BOOLEAN
         /\ s.verifier => s.donate
    /\ \A r \in MinerLogins : r.good \in BOOLEAN /\ r.diff \in Nat

VARIABLES
    serving,    \* the configuration, and servers: Proxy::m_servers
    miners,     \* Miner objects by id
    listed,     \* Miners::m_miners
    counters,   \* Counters
    totals,     \* Stats::m_data and m_hashrate
    table       \* Workers: map is m_map, list m_workers, of m_miners

connectionVars == <<serving, miners, listed, counters, totals, table>>

MinerIds == 1..MaxMiners

\* A connection that does not exist yet, or no more.
NoMiner ==
    [state |-> "none", handle |-> "none", left |-> 0, rx |-> "none", strict |-> FALSE,
     login |-> "none", replies |-> 0, route |-> FALSE, mapper |-> FALSE, diff |-> 0]

\* Miner::Miner, for a connection that a server accepts.
newMiner(server) ==
    [NoMiner EXCEPT !.state = "WaitLogin", !.handle = "open", !.left = kLoginTimeout,
                    !.strict = server.tls]

Alive(c) == miners[c].state \notin {"none", "gone"}
Served(c) == Alive(c) /\ miners[c].state # "Closing"

(***************************************************************************)
(* Counters, TickingCounter, Stats                                         *)
(***************************************************************************)

\* What is only printed, the arrivals since the last line, is left out.
NewCounters == [miners |-> 0, maxMiners |-> 0, connections |-> 0]

countersAdd(k) ==
    [k EXCEPT !.miners = k.miners + 1, !.maxMiners = Max({k.maxMiners, k.miners + 1})]

countersRemove(k) == [k EXCEPT !.miners = k.miners - 1]

\* TickingCounter: what was added since the last tick, and the sum of the ticks.
NewTicking == [pending |-> 0, data |-> 0]

ticked(t) == [pending |-> 0, data |-> t.data + t.pending]

tickingAdd(t, d) == [t EXCEPT !.pending = t.pending + d]

NewTotals == [connections |-> 0, accepted |-> 0, rejected |-> 0, invalid |-> 0, hashrate |-> NewTicking]

\* Stats::accept and reject.  A share between the custom and the network
\* difficulty counts only with custom-diff-stats.
statsResult(s, r) ==
    IF r.outcome = "accepted"
    THEN IF r.custom /\ ~serving.customStats THEN s
         ELSE [s EXCEPT !.hashrate = tickingAdd(@, 1), !.accepted = IF r.custom THEN @ ELSE @ + 1]
    ELSE IF r.donate \/ r.outcome = "ambiguous" THEN s
    ELSE [s EXCEPT !.rejected = @ + 1]

\* Stats::tick
statsTick(s) == [s EXCEPT !.hashrate = ticked(@)]

(***************************************************************************)
(* Workers                                                                 *)
(***************************************************************************)

NewTable == [map |-> <<>>, list |-> <<>>, of |-> <<>>]

\* Worker::Worker
NewWorker(name) ==
    [name |-> name, connections |-> 1, accepted |-> 0, rejected |-> 0, invalid |-> 0,
     hashrate |-> NewTicking]

\* std::map::operator[] and the assignment.
mapSet(f, x, y) == [z \in DOMAIN f \cup {x} |-> IF z = x THEN y ELSE f[z]]

\* A miner under a name that nobody had yet.
addNewWorker(t, c, name) ==
    LET w == Len(t.list) + 1
    IN  [map |-> mapSet(t.map, name, w), list |-> Append(t.list, NewWorker(name)),
         of |-> mapSet(t.of, c, w)]

\* Mutation: a miner that comes back under a known name is not counted.
workersAddOnce(t, c, name) ==
    IF name \in DOMAIN t.map THEN [t EXCEPT !.of = mapSet(t.of, c, t.map[name])]
    ELSE addNewWorker(t, c, name)

\* Workers::add
workersAdd(t, c, name) ==
    IF name \in DOMAIN t.map
    THEN LET w == t.map[name]
         IN  [t EXCEPT !.of = mapSet(t.of, c, w),
                       !.list[w] = [t.list[w] EXCEPT !.connections = t.list[w].connections + 1]]
    ELSE addNewWorker(t, c, name)

\* Workers::indexByMiner; 0 is no miner.
indexByMiner(t, c) == IF c # 0 /\ c \in DOMAIN t.of /\ miners[c].mapper THEN t.of[c] ELSE 0

\* What an event changes of the worker of a miner, if it has one.
workersUpdate(t, c, Change(_)) ==
    LET w == indexByMiner(t, c)
    IN  IF w = 0 THEN t ELSE [t EXCEPT !.list[w] = Change(t.list[w])]

\* Workers::onEvent and onRejectedEvent: nothing is counted with workers off,
\* and no miner of the donate route.
countedByWorker(m) == serving.byWorker /\ ~m.route

\* Workers::login
workersLogin(t, c, m, name) == IF countedByWorker(m) THEN workersAdd(t, c, name) ELSE t

\* Workers::remove
workersRemove(t, c) ==
    IF ~countedByWorker(miners[c]) THEN t
    ELSE workersUpdate(t, c, LAMBDA w : [w EXCEPT !.connections = w.connections - 1])

\* Workers::reject: the splitter refused a share.
workersReject(t, c) ==
    IF ~countedByWorker(miners[c]) THEN t
    ELSE workersUpdate(t, c, LAMBDA w : [w EXCEPT !.invalid = w.invalid + 1])

\* Workers::accept
workersResult(t, c, r) ==
    IF ~serving.byWorker \/ (r.custom /\ ~serving.customStats) \/ r.outcome = "ambiguous" THEN t
    ELSE workersUpdate(t, c, LAMBDA w :
           IF r.outcome = "accepted"
           THEN [w EXCEPT !.accepted = w.accepted + 1, !.hashrate = tickingAdd(w.hashrate, 1)]
           ELSE [w EXCEPT !.rejected = w.rejected + 1])

\* Workers::tick
workersTick(t) ==
    [t EXCEPT !.list =
       [w \in DOMAIN t.list |-> [t.list[w] EXCEPT !.hashrate = ticked(t.list[w].hashrate)]]]

(***************************************************************************)
(* Proxy::bind, Server                                                     *)
(***************************************************************************)

\* Server::Server and Server::bind: the address is one and the port is free.
serverBinds(host) == host.version # 0 /\ host.free

\* Mutation: a server for TLS is made without a context.
binds_NoContext(tls, host) == serverBinds(host)

\* Proxy::bind
binds(tls, host) == (host.tls => tls) /\ serverBinds(host)

\* Server::create: the next connection, on a port that listens; the connection
\* event is for Miners and Stats.
Create(c, server) ==
    /\ miners[c].state = "none" /\ \A d \in 1..(c - 1) : miners[d].state # "none"
    /\ server \in serving.servers
    /\ miners' = [miners EXCEPT ![c] = newMiner(server)]
    /\ listed' = listed \cup {c}
    /\ counters' = [counters EXCEPT !.connections = @ + 1]
    /\ totals' = [totals EXCEPT !.connections = @ + 1]
    /\ UNCHANGED <<serving, table>>

\* uv_accept fails: the object is deleted again and nobody hears of it.
AcceptFails(c) ==
    /\ miners[c].state = "none" /\ \A d \in 1..(c - 1) : miners[d].state # "none"
    /\ serving.servers # {}
    /\ miners' = [miners EXCEPT ![c].state = "gone"]
    /\ UNCHANGED <<serving, listed, counters, totals, table>>

(***************************************************************************)
(* Miner                                                                   *)
(***************************************************************************)

\* Miner::shutdown, with setState(ClosingState): the second call does nothing.
\* Of the rest only what the close event needs is kept.
closed(m, hadError) ==
    IF m.state = "Closing" THEN m
    ELSE [NoMiner EXCEPT !.state = "Closing", !.handle = IF hadError THEN "closing" ELSE "shutdown",
                         !.login = m.login, !.mapper = m.mapper, !.route = m.route]

\* Mutation: a miner that leaves is counted out whatever its state was.
setStateAlways(k, before, after) ==
    CASE before = "WaitReady" /\ after = "Ready" -> countersAdd(k)
      [] after = "Closing" /\ before # "Closing" -> countersRemove(k)
      [] OTHER -> k

\* Miner::setState: only those that were ready are counted.
setState(k, before, after) ==
    CASE before = "WaitReady" /\ after = "Ready" -> countersAdd(k)
      [] before = "Ready" /\ after = "Closing" -> countersRemove(k)
      [] OTHER -> k

\* A miner goes from what it is to m.
MinerBecomes(c, m) ==
    /\ miners' = [miners EXCEPT ![c] = m]
    /\ counters' = setState(counters, miners[c].state, m.state)

\* Miner::heartbeat
heartbeat(m) == [m EXCEPT !.left = kSocketTimeout]

\* Mutation: a port for TLS also takes what begins like JSON.
startTLS_Sniffs(m, bytes) == serving.tls /\ bytes # "json"

\* Miner::startTLS, for the first bytes.
startTLS(m, bytes) == serving.tls /\ (m.strict \/ bytes # "json")

\* Miner::read, the first bytes: JSON, the hello of TLS, or something else.
FirstBytes(c, bytes) ==
    LET m == miners[c]
    IN  /\ Served(c) /\ m.rx = "none"
        /\ MinerBecomes(c, IF ~startTLS(m, bytes) THEN [m EXCEPT !.rx = "plain"]
                     ELSE IF bytes = "hello" THEN [m EXCEPT !.rx = "handshake"]
                     ELSE closed(m, TRUE))
        /\ UNCHANGED <<serving, listed, totals, table>>

\* ServerTls::read until the handshake is finished, or fails.
Handshake(c, ok) ==
    /\ Served(c) /\ miners[c].rx = "handshake"
    /\ MinerBecomes(c, IF ok THEN [miners[c] EXCEPT !.rx = "tls"] ELSE closed(miners[c], TRUE))
    /\ UNCHANGED <<serving, listed, totals, table>>

\* Miner::read: the miner ended its side, or the connection broke; or what was
\* queued could not be written (writeRaw).
ReadEnds(c, eof) ==
    /\ Served(c)
    /\ MinerBecomes(c, closed(miners[c], ~eof))
    /\ UNCHANGED <<serving, listed, totals, table>>

\* A line that arrives; TLS is finished or was not started.
Reads(c) == Served(c) /\ miners[c].rx \in {"plain", "tls"}

\* Mutation: the suffix of a user is taken below the configured difficulty.
customDiff_Any(suffix) == IF suffix = 0 THEN serving.diff ELSE suffix

\* CustomDiff::login: with a verifier the configured difficulty is a floor, and
\* without one configured the suffix is ignored.
customDiff(suffix) ==
    IF suffix = 0 \/ (serving.verifier /\ (serving.diff = 0 \/ suffix < serving.diff))
    THEN serving.diff ELSE suffix

\* Miner::parseRequest, "login", and the login event: Login, DonateSplitter,
\* CustomDiff, the splitter and Workers.  The first job may be sent by the
\* splitter at once; it is the next step here.
LoginRequest(c, r) ==
    LET m     == [miners[c] EXCEPT !.state = "WaitReady", !.login = r.worker,
                                   !.left = IF serving.verifier THEN kReadyTimeout ELSE @]
        given == [m EXCEPT !.mapper = TRUE, !.route = serving.donate /\ r.url = "donate"]
        ready == IF given.route THEN given ELSE [given EXCEPT !.diff = customDiff(r.diff)]
    IN  /\ Reads(c) /\ miners[c].state = "WaitLogin"
        /\ IF ~r.good \/ (serving.donate /\ r.url = "bad")
           THEN /\ MinerBecomes(c, closed(m, TRUE))
                /\ UNCHANGED table
           ELSE /\ MinerBecomes(c, ready)
                /\ table' = workersLogin(table, c, ready, r.worker)
        /\ UNCHANGED <<serving, listed, totals>>

\* Miner::parse and parseRequest return false: no object, no such method, a
\* string that is too long, a request before the login or before its answer.
BadRequest(c) ==
    /\ Reads(c)
    /\ MinerBecomes(c, closed(miners[c], TRUE))
    /\ UNCHANGED <<serving, listed, totals, table>>

\* parseRequest, "submit" and "keepalived"; refused: by the splitter.  A request
\* of another method is answered but is no sign of life.
ReadyRequest(c, refused) ==
    /\ Reads(c) /\ miners[c].state = "Ready"
    /\ refused => totals.invalid < MaxResults
    /\ MinerBecomes(c, heartbeat(miners[c]))
    /\ totals' = IF refused THEN [totals EXCEPT !.invalid = @ + 1] ELSE totals
    /\ table' = IF refused THEN workersReject(table, c) ELSE table
    /\ UNCHANGED <<serving, listed>>

\* Mutation: every job is an answer to the login.
sendJob_Answers(m) == [m EXCEPT !.state = "Ready", !.left = kSocketTimeout, !.replies = @ + 1]

\* Miner::sendJob: the first job is the answer to the login.
sendJob(m) ==
    IF m.state = "WaitReady" THEN [heartbeat(m) EXCEPT !.state = "Ready", !.replies = @ + 1] ELSE m

\* forwardJob or setJob, called by the mapper of a miner.
SendJob(c) ==
    /\ Served(c) /\ miners[c].mapper
    /\ MinerBecomes(c, sendJob(miners[c]))
    /\ UNCHANGED <<serving, listed, totals, table>>

\* Miner::send fails after sendJob made the miner ready: the job is too large or
\* cannot be written.
SendJobFails(c) ==
    /\ Served(c) /\ miners[c].mapper
    /\ miners' = [miners EXCEPT ![c] = closed(sendJob(@), TRUE)]
    /\ LET first == setState(counters, miners[c].state, sendJob(miners[c]).state)
       IN  counters' = setState(first, sendJob(miners[c]).state, "Closing")
    /\ UNCHANGED <<serving, listed, totals, table>>

\* The callback of uv_shutdown.
ShutdownDone(c) ==
    /\ Alive(c) /\ miners[c].handle = "shutdown"
    /\ miners' = [miners EXCEPT ![c].handle = "closing"]
    /\ UNCHANGED <<serving, listed, counters, totals, table>>

\* The callback of uv_close: the close event for Miners, the splitter, Stats and
\* Workers, then the destructor.
CloseDone(c) ==
    /\ Alive(c) /\ miners[c].handle = "closing"
    /\ listed' = listed \ {c}
    /\ totals' = [totals EXCEPT !.connections = @ - 1]
    /\ table' = workersRemove(table, c)
    /\ counters' = [counters EXCEPT !.connections = @ - 1]
    /\ miners' = [miners EXCEPT ![c] = [NoMiner EXCEPT !.state = "gone", !.login = miners[c].login]]
    /\ UNCHANGED serving

(***************************************************************************)
(* Timers                                                                  *)
(***************************************************************************)

\* Mutation: only those that never logged in are closed.
expires_Login(m) == m.left < 0 /\ m.state = "WaitLogin"

\* Miners::tick closes the connections whose deadline is over.
expires(m) == m.left < 0

MinersTick ==
    LET aged(m) == [m EXCEPT !.left = m.left - 1]
        over    == {c \in listed : Served(c) /\ expires(aged(miners[c]))}
        ready   == Cardinality({c \in over : miners[c].state = "Ready"})
    IN  /\ \E c \in listed : Served(c)
        /\ miners' = [c \in MinerIds |-> IF c \in over THEN closed(miners[c], TRUE)
                                         ELSE IF Served(c) THEN aged(miners[c]) ELSE miners[c]]
        /\ counters' = [counters EXCEPT !.miners = @ - ready]
        /\ UNCHANGED <<serving, listed, totals, table>>

\* Proxy::tick, every 4th: Stats::tick and Workers::tick.
HashrateTick ==
    /\ totals.hashrate.pending > 0
    /\ totals' = statsTick(totals)
    /\ table' = workersTick(table)
    /\ UNCHANGED <<serving, miners, listed, counters>>

\* The accept event of a share: of the miner its mapper has now, or of none.
ShareResult(c, r) ==
    /\ totals.rejected + totals.hashrate.pending + totals.hashrate.data < MaxResults
    /\ \A w \in DOMAIN table.list : table.list[w].rejected < MaxResults
    /\ c # 0 => Alive(c) /\ miners[c].mapper /\ (miners[c].route => r.donate)
    /\ r.custom => c # 0
    /\ totals' = statsResult(totals, r)
    /\ table' = workersResult(table, c, r)
    /\ UNCHANGED <<serving, miners, listed, counters>>

(***************************************************************************)
(* Specification                                                           *)
(***************************************************************************)

\* custom: Miner itself accepted the share; donate: it was for the donation.
Results ==
    [outcome : {"accepted", "rejected", "ambiguous"}, custom : {FALSE}, donate : BOOLEAN]
        \cup [outcome : {"accepted"}, custom : {TRUE}, donate : {FALSE}]

\* Proxy::connect, with the settings of the configuration.
ConnectionsInit ==
    /\ \E s \in ProxySettings :
         serving = [servers |-> {h \in s.hosts : binds(s.tls, h)}, tls |-> s.tls,
                    verifier |-> s.verifier, diff |-> s.diff, donate |-> s.donate,
                    byWorker |-> s.byWorker, customStats |-> s.customStats]
    /\ miners = [c \in MinerIds |-> NoMiner]
    /\ listed = {} /\ counters = NewCounters /\ totals = NewTotals /\ table = NewTable

ConnectionsNext ==
    \/ \E c \in MinerIds :
         \/ \E s \in serving.servers : Create(c, s)
         \/ AcceptFails(c)
         \/ \E b \in {"json", "hello", "other"} : FirstBytes(c, b)
         \/ \E ok \in BOOLEAN : Handshake(c, ok)
         \/ \E eof \in BOOLEAN : ReadEnds(c, eof)
         \/ \E r \in MinerLogins : LoginRequest(c, r)
         \/ BadRequest(c)
         \/ \E refused \in BOOLEAN : ReadyRequest(c, refused)
         \/ SendJob(c) \/ SendJobFails(c) \/ ShutdownDone(c) \/ CloseDone(c)
    \/ \E c \in MinerIds \cup {0}, r \in Results : ShareResult(c, r)
    \/ MinersTick \/ HashrateTick

(***************************************************************************)
(* Properties                                                              *)
(***************************************************************************)

\* The counts of the proxy are the miners it has, in any order of logins, first
\* jobs, failures to send and ends of connections: Counters::m_miners those that
\* are ready, Counters::connections the objects, Stats and Miners those whose
\* close event is to come, and of Workers each name its open connections that
\* logged in.
ConnectionCounts ==
    /\ counters.miners = Cardinality({c \in MinerIds : miners[c].state = "Ready"})
    /\ counters.maxMiners >= counters.miners
    /\ counters.connections = Cardinality(listed)
    /\ totals.connections = Cardinality(listed)
    /\ listed = {c \in MinerIds : miners[c].state \notin {"none", "gone"}}
    /\ serving.byWorker =>
         \A w \in DOMAIN table.list :
            table.list[w].connections =
               Cardinality({c \in listed : miners[c].mapper /\ ~miners[c].route
                                             /\ miners[c].login = table.list[w].name})

\* What Workers adds up is the part of what Stats adds up that came from miners
\* still known, under the name each miner logged in with.
WorkersAddUp ==
    /\ \A c \in DOMAIN table.of : table.list[table.of[c]].name = miners[c].login
    /\ LET sum(F(_)) == SumFunction([i \in DOMAIN table.list |-> F(table.list[i])])
       IN  /\ sum(LAMBDA w : w.hashrate.pending + w.hashrate.data)
                 <= totals.hashrate.pending + totals.hashrate.data
           /\ sum(LAMBDA w : w.invalid) <= totals.invalid

MinersAccounted == ConnectionCounts /\ WorkersAddUp

\* A miner is served as the configuration says: on a port for TLS only through
\* TLS, after one answer to its login, not longer than its deadline without a
\* sign of life, and - with a verifier, whose work a low difficulty would
\* multiply - never below the configured difficulty, unless it takes the donate
\* route, whose pool sets the difficulty (CustomDiff::login).
MinersServed ==
    \A c \in MinerIds : Served(c) =>
       LET m == miners[c]
       IN  /\ m.strict /\ m.login # "none" => m.rx = "tls"
           /\ m.replies = IF m.state = "Ready" THEN 1 ELSE 0
           /\ m.left >= 0
           /\ serving.verifier /\ m.mapper /\ ~m.route =>
                m.diff = serving.diff \/ (serving.diff > 0 /\ m.diff >= serving.diff)
=============================================================================
