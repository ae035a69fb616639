-------------------------- MODULE FailoverStrategy --------------------------
(***************************************************************************)
(* FailoverStrategy and SinglePoolStrategy: the clients of a mapper and    *)
(* the one of them that is in use.  The answers of the host lookup come in *)
(* a step of their own; one that is cached comes before anything else      *)
(* happens, which is one of the orders here.  Close callbacks run at the   *)
(* end of the loop's iteration, before a lookup is answered.               *)
(*                                                                         *)
(* What pools do is nondeterministic: they accept, refuse, drop, answer or *)
(* stay silent.                                                            *)
(***************************************************************************)
EXTENDS StratumClient

CONSTANTS
    PoolOptions(_), \* sets of options of the pools, for a kind of strategy
    NPools,         \* enabled pools; ids count from 0
    FShares,        \* shares of the miner of a single pool
    Redirected,     \* kinds of strategies whose pools send client.reconnect
    StopsAgain,     \* bound: stop() is called again after it left work behind
    DropsRejected   \* pools close a connection whose login they refused

\* The requests of a client have different numbers.
ASSUME FailoverAssumption ==
    /\ Retries \in Nat \ {0} /\ NPools \in Nat \ {0}
    /\ DropsRejected \in BOOLEAN /\ StopsAgain \in BOOLEAN
    /\ \A kd \in {"single", "failover"} :
         PoolOptions(kd) \subseteq SUBSET {"socks", "tls", "keepalive"}
    /\ "login" \notin FShares

Ids == 0..(NPools - 1)

VARIABLES
    kind,       \* Pools::createStrategy: "single" for one enabled pool
    net,        \* clients, m_active, m_index; on: the mapper wants a
                \* connection; late: stop() left a host lookup or a
                \* replaced socket behind
    fate        \* of each share: "new", "sent", "failed", and its answers

failoverVars == <<kind, net, fate>>

\* createStrategy: one enabled pool makes a SinglePoolStrategy.
Pools(kd) == IF kd = "single" THEN {0} ELSE Ids

NewStrategy(pools) ==
    [cl |-> [k \in DOMAIN pools |-> NewClient(pools[k])], active |-> -1, index |-> 0, on |-> FALSE,
     late |-> FALSE]

Put(n, k, c) == [n EXCEPT !.cl[k] = c]

\* SinglePoolStrategy::onClose, onLoginSuccess and stop.
singleClosed(n) == [n EXCEPT !.active = -1]
singleActive(n) == [n EXCEPT !.active = 0]
singleStopped(n) == [n EXCEPT !.cl[0] = disconnect(n.cl[0]), !.on = FALSE]

\* onClose, called by a client that lost its connection.
onClose(n, k, failures) ==
    LET p == IF n.active = k THEN [n EXCEPT !.active = -1] ELSE n
    IN  IF kind = "single" THEN singleClosed(n)
        ELSE IF failures = -1 THEN n
        ELSE IF p.index = 0 /\ failures < Retries THEN p
        ELSE IF p.index = k /\ k + 1 \in Ids
             THEN [Put(p, k + 1, connect(p.cl[k + 1])) EXCEPT !.index = k + 1]
        ELSE p

\* Client::reconnect; failures are counted up to Retries.
reconnect(n, k) ==
    LET c == n.cl[k]
        d == [c EXCEPT !.keep = FALSE]
        f == IF c.failures >= Retries THEN Retries ELSE c.failures + 1
    IN  IF ~c.listener THEN Put(n, k, Released(c))
        ELSE IF c.failures = -1 THEN onClose(Put(n, k, d), k, -1)
        ELSE onClose(Put(n, k, [setState(d, "reconnecting") EXCEPT !.failures = f]), k, f)

\* Mutants: every other client is disconnected, the first one too; none is.
onLoginSuccessAll(n, k) ==
    LET a == IF k = 0 \/ n.active = -1 THEN k ELSE n.active
    IN  [n EXCEPT !.cl = [j \in DOMAIN n.cl |-> IF j # a THEN disconnect(n.cl[j]) ELSE n.cl[j]],
                  !.active = a, !.index = a]
onLoginSuccessNone(n, k) ==
    LET a == IF k = 0 \/ n.active = -1 THEN k ELSE n.active
    IN  [n EXCEPT !.active = a, !.index = a]

\* onLoginSuccess: the first pool and the first to log in become active; the
\* other backups are disconnected, the first pool never.
onLoginSuccess(n, k) ==
    LET a == IF k = 0 \/ n.active = -1 THEN k ELSE n.active
    IN  IF kind = "single" THEN singleActive(n)
        ELSE [n EXCEPT !.cl = [j \in DOMAIN n.cl |->
                                 IF j # 0 /\ j # a THEN disconnect(n.cl[j]) ELSE n.cl[j]],
                       !.active = a,
                       !.index = IF a # n.active THEN a ELSE n.index]

(***************************************************************************)
(* The mapper                                                              *)
(***************************************************************************)

Alive == \A k \in DOMAIN net.cl : net.cl[k].listener

StrategyConnect ==
    /\ ~net.on /\ Alive
    /\ net' = [Put(net, net.index, connect(net.cl[net.index])) EXCEPT !.on = TRUE]
    /\ UNCHANGED <<kind, fate>>

\* stop.
StrategyStop ==
    /\ net.on /\ Alive /\ (net.late => StopsAgain)
    /\ LET left == net.late \/ \E k \in DOMAIN net.cl : net.cl[k].dns \/ net.cl[k].old.st # "none"
           off == [net EXCEPT !.cl = [k \in DOMAIN net.cl |-> disconnect(net.cl[k])], !.on = FALSE,
                              !.index = 0, !.active = -1]
       IN  net' = [(IF kind = "single" THEN singleStopped(net) ELSE off) EXCEPT !.late = left]
    /\ UNCHANGED <<kind, fate>>

\* The destructor; the mapper is gone.
StrategyDelete ==
    /\ Alive
    /\ net' = [net EXCEPT !.cl = [k \in DOMAIN net.cl |-> deleteLater(net.cl[k])],
                          !.on = FALSE, !.active = -1]
    /\ UNCHANGED <<kind, fate>>

\* A new mapper makes a strategy of its own.
StrategyCreate ==
    /\ \A k \in DOMAIN net.cl : net.cl[k].released
    /\ net' = NewStrategy([k \in DOMAIN net.cl |-> net.cl[k].pool])
    /\ UNCHANGED <<kind, fate>>

StrategySubmit(s, ok) ==
    /\ fate[s].st = "new" /\ net.on
    /\ kind = "single" \/ net.active >= 0
    /\ LET k == IF kind = "single" THEN 0 ELSE net.active
           c == submit(net.cl[k], s, ok)
       IN  /\ net' = Put(net, k, c)
           /\ fate' = [fate EXCEPT ![s].st = IF s \in c.sock.asked THEN "sent" ELSE "failed"]
    /\ UNCHANGED kind

(***************************************************************************)
(* Callbacks of the event loop, for client k                               *)
(***************************************************************************)

Step(k, c) == net' = Put(net, k, c) /\ UNCHANGED <<kind, fate>>

Resolved(k, found) ==
    LET c == net.cl[k]
    IN  /\ c.dns /\ c.sock.st # "closing"
        /\ net' = IF found /\ c.listener THEN Put(net, k, connectTo(c))
                  ELSE reconnect(Put(net, k, [c EXCEPT !.dns = FALSE]), k)
        /\ UNCHANGED <<kind, fate>>

ConnectOk(k, ok) == net.cl[k].sock.st = "connecting" /\ Step(k, onConnected(net.cl[k], ok))

ConnectError(k) == net.cl[k].sock.st = "connecting" /\ Step(k, onConnectError(net.cl[k], FALSE))

OldConnect(k, done) ==
    /\ net.cl[k].old.st = "connecting" /\ net.cl[k].sock.st \notin {"none", "closing"}
    /\ Step(k, IF done THEN onOldConnected(net.cl[k]) ELSE onConnectError(net.cl[k], TRUE))

\* Client::onClose, the callback of uv_close.
CloseCallback(k) ==
    /\ net.cl[k].sock.st = "closing" /\ ~net.cl[k].released
    /\ net' = reconnect(Put(net, k, setState([net.cl[k] EXCEPT !.sock = NoSocket], "unconnected")), k)
    /\ UNCHANGED <<kind, fate>>

\* tick, of a timer that has expired.
Tick(k) ==
    /\ net.cl[k].armed /\ net.cl[k].listener
    /\ net.cl[k].st \in {"connected", "connecting", "reconnecting"}
    /\ Step(k, IF net.cl[k].st = "reconnecting" THEN connect(net.cl[k]) ELSE expire(net.cl[k]))

\* tick, of the keepalive timer: ping, whose answer is ignored.
Ping(k, ok) ==
    LET c == net.cl[k]
    IN  /\ c.st = "connected" /\ c.keep /\ c.listener
        /\ Step(k, IF c.sock.st # "open" THEN c ELSE IF ok THEN startTimeout(c) ELSE close(c))

SocksRead(k, good, ok) ==
    /\ net.cl[k].phase \in {"socks1", "socks2"} /\ net.cl[k].sock.st = "open"
    /\ net.cl[k].st = "connected"
    /\ Step(k, socksRead(net.cl[k], good, ok))

TlsRead(k, verified, ok) ==
    /\ net.cl[k].phase = "tls1" /\ net.cl[k].sock.st = "open" /\ net.cl[k].st = "connected"
    /\ Step(k, tlsRead(net.cl[k], verified, ok))

ReadError(k, w) ==
    /\ net.cl[k].listener /\ Socket(net.cl[k], w).st = "open"
    /\ Step(k, close(IF w = "old" THEN [net.cl[k] EXCEPT !.old = NoSocket] ELSE net.cl[k]))

\* parse of a line that closes: a job that is a duplicate or is not valid, or a
\* line that is too long.
BadLine(k, w) == Reads(net.cl[k], w) /\ Step(k, close(net.cl[k]))

\* parse of client.reconnect: the socket is left open.
PoolReconnect(k, w) ==
    /\ kind \in Redirected /\ Reads(net.cl[k], w)
    /\ net' = reconnect(net, k)
    /\ UNCHANGED <<kind, fate>>

LoginAccepted(k, w) ==
    /\ Reads(net.cl[k], w) /\ "login" \in Socket(net.cl[k], w).asked
    /\ net' = onLoginSuccess(Put(net, k, [replied(net.cl[k], w, TRUE) EXCEPT !.failures = 0]), k)
    /\ UNCHANGED <<kind, fate>>

LoginRefused(k, w, critical) ==
    LET c == replied(net.cl[k], w, FALSE)
    IN  /\ Reads(net.cl[k], w) /\ "login" \in Socket(net.cl[k], w).asked
        /\ Step(k, IF closesOnError(k, "login", critical) THEN close(c) ELSE c)

\* handleSubmitResponse, of an error or not.
SubmitAnswered(k, w, s, error, critical) ==
    LET c == net.cl[k]
        d == handleSubmitResponse(c, s)
    IN  /\ Reads(net.cl[k], w) /\ s \in Socket(net.cl[k], w).asked /\ (critical => error)
        /\ net' = Put(net, k, IF error /\ closesOnError(k, s, critical) THEN close(d) ELSE d)
        /\ fate' = IF s \in c.results THEN [fate EXCEPT ![s].answers = IF @ < 2 THEN @ + 1 ELSE @] ELSE fate
        /\ UNCHANGED kind

FailoverInit ==
    /\ kind \in {"single", "failover"}
    /\ \E o \in PoolOptions(kind) : net = NewStrategy([k \in Pools(kind) |-> o])
    /\ fate = [s \in (IF kind = "single" THEN FShares ELSE {}) |-> [st |-> "new", answers |-> 0]]

Callback(k) ==
    \/ \E b \in BOOLEAN : Resolved(k, b) \/ ConnectOk(k, b) \/ OldConnect(k, b) \/ Ping(k, b)
    \/ ConnectError(k) \/ CloseCallback(k) \/ Tick(k)
    \/ \E b, ok \in BOOLEAN : SocksRead(k, b, ok) \/ TlsRead(k, b, ok)
    \/ \E w \in {"own", "old"} :
         \/ ReadError(k, w) \/ BadLine(k, w) \/ PoolReconnect(k, w) \/ LoginAccepted(k, w)
         \/ \E b \in BOOLEAN : LoginRefused(k, w, b)
         \/ \E s \in DOMAIN fate, e, b \in BOOLEAN : SubmitAnswered(k, w, s, e, b)

FailoverNext ==
    \/ StrategyConnect \/ StrategyStop \/ StrategyDelete \/ StrategyCreate
    \/ \E s \in DOMAIN fate, ok \in BOOLEAN : StrategySubmit(s, ok)
    \/ \E k \in DOMAIN net.cl : Callback(k)

(***************************************************************************)
(* Fairness: timers expire, callbacks of libuv and answers of the host     *)
(* lookup come, and the first pool is good: what is tried with it again    *)
(* and again succeeds at last.  A pool drops a connection it refused; the  *)
(* client itself has no timeout for it.                                    *)
(***************************************************************************)

Has(k) == k \in DOMAIN net.cl

RefusedLogin(k) ==
    LET c == net.cl[k]
    IN  c.sock.st = "open" /\ c.phase = "line" /\ ~c.sock.in /\ "login" \notin c.sock.asked

RefusedDropped(k) == RefusedLogin(k) /\ ReadError(k, "own")

\* A host lookup, a connect or a login is answered somehow.
Answered(k) ==
    \/ ConnectError(k)
    \/ \E b \in BOOLEAN : Resolved(k, b) \/ ConnectOk(k, b) \/ LoginRefused(k, "own", b)
    \/ LoginAccepted(k, "own")

FailoverFairness ==
    /\ \A k \in Ids :
         WF_failoverVars(Has(k) /\ CloseCallback(k)) /\ WF_failoverVars(Has(k) /\ Tick(k))
    /\ \A k \in Ids \ {0} : WF_failoverVars(Has(k) /\ Answered(k))
    /\ DropsRejected => \A k \in Ids \ {1} : WF_failoverVars(Has(k) /\ RefusedDropped(k))
    /\ SF_failoverVars(Has(0) /\ Resolved(0, TRUE))
    /\ SF_failoverVars(Has(0) /\ ConnectOk(0, TRUE))
    /\ SF_failoverVars(Has(0) /\ net.cl[0].phase = "socks1" /\ SocksRead(0, TRUE, TRUE))
    /\ SF_failoverVars(Has(0) /\ net.cl[0].phase = "socks2" /\ SocksRead(0, TRUE, TRUE))
    /\ SF_failoverVars(Has(0) /\ TlsRead(0, TRUE, TRUE))
    /\ SF_failoverVars(Has(0) /\ LoginAccepted(0, "own"))

FailoverSpec == FailoverInit /\ [][FailoverNext]_failoverVars /\ FailoverFairness

(***************************************************************************)
(* Properties                                                              *)
(***************************************************************************)

Running == net.on /\ Alive

\* A share is answered at most once, and never when submit() returned -1,
\* although pools may repeat answers and connections be replaced meanwhile
\* (BaseClient::handleSubmitResponse, Client::login).
ResultOnce ==
    \A s \in DOMAIN fate : fate[s].answers <= (IF fate[s].st = "sent" THEN 1 ELSE 0)

\* However pools fail, the first pool is tried again: a strategy that is not
\* stopped comes back to it again and again, unless stop() left a host
\* lookup or a replaced socket behind, which go on (Client::disconnect,
\* reconnect, tick, FailoverStrategy::onClose, onLoginSuccess).
PrimaryRetried == <>[](Running /\ ~net.late) => []<>(net.active = 0)

Quiet(c) == ~c.dns /\ c.sock.st = "none" /\ ~(c.st = "reconnecting" /\ c.armed)

\* While the first pool serves, the connections to the backups end, those too
\* that were being looked up when it came back.
BackupsRetire ==
    (net.active = 0 /\ Running) ~>
        (net.active # 0 \/ ~Running \/ \A k \in DOMAIN net.cl \ {0} : Quiet(net.cl[k]))

\* A client that was deleted is released, or its socket is being closed and the
\* callback of that will release it: none is left that nothing refers to, at
\* whatever point of connecting it was (Client::deleteLater, reconnect).
DeletedReleased ==
    \A k \in DOMAIN net.cl :
        ~net.cl[k].listener => net.cl[k].released \/ net.cl[k].sock.st = "closing"

\* A pool that refuses the login fails like one that cannot be reached, and is
\* retried before the next one takes over: "number of times to retry before
\* switch to backup server" (Client::parseResponse, startTimeout).
RefusedIsRetried ==
    (kind = "failover" /\ Running /\ net.active = -1 /\ RefusedLogin(0)) ~> (~Running \/ ~RefusedLogin(0))
=============================================================================
