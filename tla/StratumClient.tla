--------------------------- MODULE StratumClient ---------------------------
(***************************************************************************)
(* Client: one connection to a stratum pool, as functions of its state.    *)
(*                                                                         *)
(* A client goes through host lookup, connect, an optional SOCKS5 and TLS  *)
(* handshake and the login; every failure ends in reconnect(), which tells *)
(* the strategy and waits for the retry pause.  m_expire and m_keepAlive   *)
(* are kept as "armed": a timer that is armed may expire at any tick, and  *)
(* one that is zero never does.                                            *)
(*                                                                         *)
(* connect() does not look at m_socket.  When it is called while a socket  *)
(* is in use, the new socket replaces it and the old one is neither closed *)
(* nor forgotten by the event loop: what it receives is still given to     *)
(* this client.  One such socket, the latest, is kept here.                *)
(*                                                                         *)
(* The numbers of requests (BaseClient::m_sequence) are unique, so a share *)
(* stands for the number of its submit request.                            *)
(***************************************************************************)
EXTENDS Integers, FiniteSets

CONSTANT
    Retries         \* setRetries()

\* A uv_tcp_t: what was asked on it and is not answered, and if a login was
\* accepted.  "dead" is a socket whose connect failed, "mute" one that
\* nobody reads.
NoSocket == [st |-> "none", asked |-> {}, in |-> FALSE]

\* pool: the options of its Pool, among "socks", "tls" and "keepalive".
NewClient(pool) ==
    [pool |-> pool, st |-> "unconnected", failures |-> 0, armed |-> FALSE, keep |-> FALSE,
     dns |-> FALSE, phase |-> "line", sock |-> NoSocket, old |-> NoSocket,
     results |-> {}, listener |-> TRUE, released |-> FALSE]

Released(c) == [NewClient(c.pool) EXCEPT !.listener = FALSE, !.released = TRUE]

\* setState: entering a state arms or clears m_expire.
setState(c, st) ==
    [c EXCEPT !.st = st,
              !.armed = IF c.st = st THEN c.armed
                        ELSE CASE st = "lookup" -> FALSE
                               [] st \in {"connecting", "reconnecting"} -> TRUE
                               [] OTHER -> c.armed]

\* close: uv_close of m_socket, if there is one.
close(c) ==
    IF c.st \in {"closing", "unconnected"} \/ c.sock.st = "none" THEN c
    ELSE [setState(c, "closing") EXCEPT !.sock = [NoSocket EXCEPT !.st = "closing"]]

\* disconnect.
disconnect(c) == close([c EXCEPT !.keep = FALSE, !.armed = FALSE, !.failures = -1])

\* Mutant: the client waits for a socket that it does not have.
deleteLaterWaits(c) ==
    IF ~c.listener THEN c ELSE disconnect([c EXCEPT !.listener = FALSE])

\* deleteLater: released at once, or when the socket is closed.
deleteLater(c) ==
    LET d == disconnect([c EXCEPT !.listener = FALSE])
    IN  IF ~c.listener THEN c
        ELSE IF d.st = "closing" THEN d
        ELSE Released(c)

\* connect and resolve, with the handshake that the new connection begins with.
connect(c) ==
    [setState(c, "lookup") EXCEPT
        !.failures = IF c.failures = -1 THEN 0 ELSE c.failures,
        !.phase = IF "socks" \in c.pool THEN "socks0"
                  ELSE IF "tls" \in c.pool THEN "tls" ELSE "line",
        !.dns = TRUE]

\* onResolved with an address: connect(addr).
connectTo(c) ==
    [setState(c, "connecting") EXCEPT
        !.dns = FALSE,
        !.old = IF c.sock.st \in {"connecting", "open"} THEN c.sock ELSE c.old,
        !.sock = [NoSocket EXCEPT !.st = "connecting"]]

\* startTimeout: clears m_expire, so the response timeout that send() has just
\* set never applies.
startTimeout(c) ==
    [c EXCEPT !.armed = FALSE, !.keep = IF "keepalive" \in c.pool THEN TRUE ELSE c.keep]

\* send: of a request r; ok is whether uv_try_write takes all of it.  TLS takes
\* nothing before its handshake is done.
send(c, r, ok) ==
    IF c.st # "connected" \/ c.sock.st # "open" \/ ("tls" \in c.pool /\ c.phase # "line") THEN c
    ELSE IF ~ok THEN close(c)
    ELSE startTimeout([c EXCEPT !.sock = [c.sock EXCEPT !.asked = c.sock.asked \cup {r}]])

\* login: the results of the last session are forgotten.
login(c, ok) == send([c EXCEPT !.results = {}], "login", ok)

\* handshake, of what comes next on a connection.
handshake(c, ok) ==
    CASE c.phase \in {"socks0", "socks1", "socks2"} -> IF ok THEN [c EXCEPT !.phase = "socks1"] ELSE close(c)
      [] "tls" \in c.pool -> IF ok THEN [c EXCEPT !.phase = "tls1", !.armed = TRUE]
                            ELSE close([c EXCEPT !.armed = TRUE])
      [] OTHER -> login(c, ok)

\* onConnect of m_socket: reading starts and the handshake begins, unless the
\* client is connected already.
onConnected(c, ok) ==
    IF c.st = "connected" THEN [c EXCEPT !.sock = [c.sock EXCEPT !.st = "mute"]]
    ELSE handshake(setState([c EXCEPT !.sock = [c.sock EXCEPT !.st = "open"]], "connected"), ok)

\* onConnect of a socket that was replaced: it is m_socket that is read from
\* and written to, and it may not be connected.
onOldConnected(c) ==
    LET d == [c EXCEPT !.old = NoSocket]
        e == setState(d, "connected")
    IN  IF c.st = "connected" THEN d
        ELSE IF c.sock.st = "open" THEN handshake(e, TRUE)
        ELSE CASE c.phase \in {"socks0", "socks1", "socks2"} -> close(e)
               [] c.phase \in {"tls", "tls1"} -> [e EXCEPT !.phase = "tls1", !.armed = TRUE]
               [] OTHER -> [e EXCEPT !.results = {}]

\* onConnect with an error.
onConnectError(c, isOld) ==
    LET d == IF isOld THEN [c EXCEPT !.old = NoSocket]
             ELSE [c EXCEPT !.sock = [c.sock EXCEPT !.st = "dead"]]
    IN  IF c.st = "connecting" THEN close(d) ELSE d

\* Socks5::read: two replies; the connection is ready after the second.  A
\* reply that is too short is ignored.
socksRead(c, good, ok) ==
    IF ~good THEN close(c)
    ELSE IF c.phase = "socks1"
         THEN IF ok THEN [c EXCEPT !.phase = "socks2"] ELSE close([c EXCEPT !.phase = "socks2"])
    ELSE handshake([c EXCEPT !.phase = IF "tls" \in c.pool THEN "tls" ELSE "line"], ok)

\* Tls::read at the end of the handshake: the certificate is verified.
tlsRead(c, verified, ok) ==
    IF verified THEN login([c EXCEPT !.phase = "line"], ok) ELSE close(c)

\* tick of a client whose timer has expired, but for the reconnect.
expire(c) == IF c.st \in {"connected", "connecting"} THEN close(c) ELSE c

\* submit: the result is expected before the request is sent.
submit(c, s, ok) == send([c EXCEPT !.results = c.results \cup {s}], s, ok)

\* The socket of a client on which it reads, its own or the one before.
Socket(c, w) == IF w = "old" THEN c.old ELSE c.sock

\* The login reply is taken from a socket; pools may repeat other answers.
replied(c, w, accepted) ==
    LET s == [Socket(c, w) EXCEPT !.asked = Socket(c, w).asked \ {"login"}, !.in = accepted]
    IN  IF w = "old" THEN [c EXCEPT !.old = s] ELSE [c EXCEPT !.sock = s]

\* Mutant: the result is not erased.
handleSubmitResponseKeeps(c, s) == c

\* handleSubmitResponse: the result is erased.
handleSubmitResponse(c, s) == [c EXCEPT !.results = c.results \ {s}]

\* parseResponse of an error: closed when isCriticalError, and whenever m_id,
\* the number of the client, is 1.
closesOnError(k, r, critical) == k = 1 \/ critical

\* Lines are read on the socket; the bytes of a replaced socket are plain.
Reads(c, w) ==
    /\ c.listener /\ Socket(c, w).st = "open" /\ c.phase = "line"
    /\ w = "old" \/ c.st # "connected" => c.pool \cap {"socks", "tls"} = {}
=============================================================================
