-------------------------------- MODULE Http --------------------------------
(***************************************************************************)
(* HTTP both ways: HttpClient, which fetches from daemons, and the server  *)
(* of the API (Httpd, Api, ApiRouter).  Both are an HttpContext, kept in   *)
(* one static storage, whose listener is called when a message is complete *)
(* or, for a client, when the connection ends before that.                 *)
(*                                                                         *)
(* Handles close in two steps: uv_close() and, later, the callback that    *)
(* deletes the context; callbacks of other requests come in between.       *)
(***************************************************************************)
EXTENDS Integers, Sequences

CONSTANTS
    Fetches,        \* requests made with fetch()
    Conns,          \* connections to the API
    ApiRequests     \* requests that they send

VARIABLES
    api,        \* Http: token and restricted of the configuration; up: the
                \* server is bound
    fetches,    \* an HttpClient: st of its handle; lookup, connect: requests
                \* of libuv under way; talking: connected; stored: in storage;
                \* hears: m_listener; owner: what it refers to exists; timer;
                \* calls: results given to onHttpData
    conns       \* a context of the server: st, stored, hears as above; asked:
                \* the request; writes that will close it when they are done;
                \* replies: status codes written

httpVars == <<api, fetches, conns>>

(***************************************************************************)
(* HttpContext                                                             *)
(***************************************************************************)

\* Mutant: a context that was closed already tells its listener again.
closeAgain(c, failed) ==
    [c EXCEPT !.stored = FALSE,
              !.st = "closing",
              !.calls = IF failed /\ c.hears /\ c.owner THEN Append(c.calls, "error") ELSE c.calls]

\* close: failed is a negative status.
closeContext(c, failed) ==
    IF ~c.stored THEN c
    ELSE [c EXCEPT !.stored = FALSE,
                   !.st = "closing",
                   !.calls = IF failed /\ c.hears /\ c.owner THEN Append(c.calls, "error") ELSE c.calls]

\* Mutant: the listener is kept after a complete message.
messageCompleteKeeps(c) ==
    IF c.hears /\ c.owner THEN [c EXCEPT !.calls = Append(c.calls, "complete")] ELSE c

\* on_message_complete, of a response.
messageComplete(c) ==
    IF c.hears /\ c.owner THEN [c EXCEPT !.hears = FALSE, !.calls = Append(c.calls, "complete")] ELSE c

\* closeAll: handles are closed and storage keeps what it has.
closeAll(cs) ==
    [f \in DOMAIN cs |-> IF cs[f].stored /\ cs[f].st = "open" THEN [cs[f] EXCEPT !.st = "closing", !.swept = TRUE] ELSE cs[f]]

(***************************************************************************)
(* HttpClient                                                              *)
(***************************************************************************)

NewFetch ==
    [st |-> "idle", lookup |-> FALSE, connect |-> FALSE, talking |-> FALSE, stored |-> FALSE,
     hears |-> FALSE, owner |-> FALSE, timer |-> FALSE, swept |-> FALSE, calls |-> <<>>]

SetFetch(f, c) == fetches' = [fetches EXCEPT ![f] = c] /\ UNCHANGED <<api, conns>>

\* fetch and connect; timeout is whether the request has one.
Fetch(f, timeout) ==
    /\ fetches[f].st = "idle"
    /\ SetFetch(f, [NewFetch EXCEPT !.st = "open", !.lookup = TRUE, !.stored = TRUE, !.hears = TRUE,
                                    !.owner = TRUE, !.timer = timeout])

\* onResolved: an error is left to the timer.  The answer may come after the
\* handle was closed; the connect request is then cancelled with the handle.
Resolved(f, found) ==
    /\ fetches[f].lookup
    /\ SetFetch(f, [fetches[f] EXCEPT !.lookup = FALSE, !.connect = found])

\* onConnect and handshake; only an error when the handle is closing.
TcpConnected(f) ==
    /\ fetches[f].connect /\ fetches[f].st = "open"
    /\ SetFetch(f, [fetches[f] EXCEPT !.connect = FALSE, !.talking = TRUE])

ConnectFails(f) ==
    /\ fetches[f].connect
    /\ SetFetch(f, closeContext([fetches[f] EXCEPT !.connect = FALSE], TRUE))

\* read: bytes that complete a response.
Response(f) ==
    /\ fetches[f].talking /\ fetches[f].st = "open"
    /\ SetFetch(f, messageComplete(fetches[f]))

\* The connection ends, what is read is no response, or a certificate is not
\* the one that is configured.
ReadFails(f) ==
    /\ fetches[f].talking /\ fetches[f].st = "open"
    /\ SetFetch(f, closeContext(fetches[f], TRUE))

\* onTimer, once.
Timeout(f) ==
    /\ fetches[f].timer /\ fetches[f].st \in {"open", "closing"}
    /\ SetFetch(f, closeContext([fetches[f] EXCEPT !.timer = FALSE], TRUE))

\* The close callback deletes the context, with its timer and lookup.  A
\* connect request was cancelled before.
FetchDeleted(f) ==
    /\ fetches[f].st = "closing" /\ ~fetches[f].connect
    /\ SetFetch(f, [fetches[f] EXCEPT !.st = "gone", !.timer = FALSE, !.lookup = FALSE])

\* The client that asked is deleted, and with it its HttpListener.
OwnerDeleted(f) ==
    /\ fetches[f].owner
    /\ SetFetch(f, [fetches[f] EXCEPT !.owner = FALSE])

(***************************************************************************)
(* The API server                                                          *)
(***************************************************************************)

\* isAuthRequired.
authRequired == ~api.restricted \/ api.token

\* Httpd::auth.
auth(r) ==
    CASE r.auth = "none" -> IF authRequired THEN 401 ELSE 200
      [] r.auth # "none" /\ ~api.token -> 401
      [] OTHER -> IF r.auth = "good" THEN 200 ELSE 403

\* Base::onRequest: the configuration is shown, and never replaced.
configReply(r) ==
    CASE r.method = "GET" -> IF api.restricted THEN 403 ELSE 200
      [] r.method \in {"PUT", "POST"} -> 403
      [] OTHER -> 404

\* ApiRouter::onRequest: what it tells of miners, workers and results.
routerReply(r) == IF r.method = "GET" /\ r.url = "summary" THEN 200 ELSE 404

\* HttpApiRequest::done: the status is 200, and an error, of which there is one
\* for every JSON-RPC method, is written by setRpcError() and again here.
rpcReplies == <<200, 200>>

\* HttpApiRequest: what is a JSON-RPC request; one that does not parse or has no
\* method is answered in the constructor.
isRpc(r) == r.method = "POST" /\ r.url = "json_rpc"

\* Api::exec: the codes that are written.
exec(r) ==
    IF isRpc(r) THEN rpcReplies
    ELSE IF r.url = "config" THEN <<configReply(r)>>
    ELSE <<routerReply(r)>>

\* Mutant: a request is answered before its token is looked at.
onHttpDataOpen(r) ==
    CASE r.method = "OPTIONS" -> <<200>>
      [] r.method = "TRACE" -> <<405>>
      [] r.method # "GET" /\ api.restricted -> <<403>>
      [] r.method # "GET" /\ ~r.json -> <<415>>
      [] OTHER -> exec(r)

\* Httpd::onHttpData.
onHttpData(r) ==
    CASE r.method = "OPTIONS" -> <<200>>
      [] r.method = "GET" /\ r.url = "favicon" -> <<404>>
      [] r.method = "TRACE" -> <<405>>
      [] r.method \notin {"OPTIONS", "TRACE"} /\ r.url # "favicon" /\ auth(r) # 200 -> <<auth(r)>>
      [] r.method \in {"PUT", "POST"} /\ auth(r) = 200 /\ api.restricted -> <<403>>
      [] r.method \in {"PUT", "POST"} /\ auth(r) = 200 /\ ~api.restricted /\ ~r.json -> <<415>>
      [] OTHER -> exec(r)

NoRequest == [method |-> "none"]
NewConn == [st |-> "idle", stored |-> FALSE, hears |-> FALSE, asked |-> NoRequest, writes |-> 0,
            ended |-> FALSE, swept |-> FALSE, replies |-> <<>>]

SetConn(c, v) == conns' = [conns EXCEPT ![c] = v] /\ UNCHANGED <<api, fetches>>

\* close(), without a status.
closeConn(v) == IF v.stored THEN [v EXCEPT !.stored = FALSE, !.st = "closing"] ELSE v

\* onConnection.
Accepted(c) ==
    /\ api.up /\ conns[c].st = "idle"
    /\ SetConn(c, [NewConn EXCEPT !.st = "open", !.stored = TRUE, !.hears = TRUE])

\* HttpResponse::end: each is a write that closes the context when it is done.
end(v, codes) == [v EXCEPT !.replies = codes, !.writes = Len(codes)]

\* append, parse and on_message_complete; a second request is not heard.
Asked(c, r) ==
    /\ conns[c].st = "open"
    /\ SetConn(c, IF conns[c].hears
                  THEN end([conns[c] EXCEPT !.hears = FALSE, !.asked = r], onHttpData(r))
                  ELSE conns[c])

\* ~HttpWriteBaton, whether the write was done or cancelled.
Written(c) ==
    /\ conns[c].writes > 0
    /\ SetConn(c, closeConn([conns[c] EXCEPT !.writes = conns[c].writes - 1]))

\* The peer ends the connection or sends what is no request.
ConnEnds(c) ==
    /\ conns[c].st = "open"
    /\ SetConn(c, closeConn([conns[c] EXCEPT !.ended = TRUE]))

\* The close callback, after those of the writes.
ConnDeleted(c) ==
    /\ conns[c].st = "closing" /\ conns[c].writes = 0
    /\ SetConn(c, [conns[c] EXCEPT !.st = "gone"])

\* Api::stop, Httpd::stop: the destructor of the server closes every context,
\* those of HttpClient too.
ApiStop ==
    /\ api.up
    /\ api' = [api EXCEPT !.up = FALSE]
    /\ fetches' = closeAll(fetches)
    /\ conns' = closeAll(conns)

\* Http::load, and whether TcpServer::bind succeeded.
ApiConfigs == [token : BOOLEAN, restricted : BOOLEAN, up : BOOLEAN]

\* Httpd::start; without a server nothing is served until the proxy restarts.
HttpInit ==
    /\ api \in ApiConfigs
    /\ fetches = [f \in Fetches |-> NewFetch]
    /\ conns = [c \in Conns |-> NewConn]

HttpNext ==
    \/ ApiStop
    \/ \E f \in Fetches :
         \/ TcpConnected(f) \/ ConnectFails(f) \/ Response(f) \/ ReadFails(f)
         \/ Timeout(f) \/ FetchDeleted(f) \/ OwnerDeleted(f)
         \/ \E b \in BOOLEAN : Fetch(f, b) \/ Resolved(f, b)
    \/ \E c \in Conns :
         \/ Accepted(c) \/ Written(c) \/ ConnEnds(c) \/ ConnDeleted(c)
         \/ \E r \in ApiRequests : Asked(c, r)

(***************************************************************************)
(* Properties                                                              *)
(***************************************************************************)

\* A listener is told of a request once: not again when the connection ends
\* after the response, when a connect request is cancelled after a timeout, or
\* when the server of the API closes every context.  A request that this swept
\* away may be told of not at all, or of an error when its connect is cancelled;
\* any other is not deleted without a call while its owner exists
\* (HttpContext::close, on_message_complete, HttpClient::onConnect, onTimer).
ListenerToldOnce ==
    \A f \in Fetches :
        /\ Len(fetches[f].calls) <= 1
        /\ (fetches[f].st = "gone" /\ fetches[f].owner /\ ~fetches[f].swept) => Len(fetches[f].calls) = 1

\* The API shows its configuration only with the token and without
\* "restricted", and a summary only to who may see it; what has a complete
\* request is answered before it is deleted unless the peer or the proxy ended
\* the connection (Httpd::onHttpData, auth, Api::exec, HttpResponse::end).
ApiGuarded ==
    \A c \in Conns : LET v == conns[c] IN
        /\ (v.replies = <<200>> /\ v.asked.method # "OPTIONS" /\ v.asked.url = "config")
              => v.asked.auth = "good" /\ ~api.restricted
        /\ (v.replies = <<200>> /\ v.asked.method # "OPTIONS" /\ api.token) => v.asked.auth = "good"
        /\ (v.st = "gone" /\ ~v.ended /\ ~v.swept) => v.replies # <<>>
=============================================================================
