----------------------------- MODULE MCServices -----------------------------
(***************************************************************************)
(* Services on small instances: two connections, sources, heights and      *)
(* interchangeable shares; blocks with up to six other transactions;       *)
(* targets of ten bits; seven bytes in lines of two; up to four frames;    *)
(* two proxies on one socket path; three lines of a log; three key pairs.  *)
(***************************************************************************)
EXTENDS Services

CONSTANTS k1, k2

MCKeys == {k1, k2}
ShareSymmetry == Permutations(MCKeys)

\* Two lookups of one host; an error of the first starts one of another host.
MCHostOf(l) == IF l = "l2" THEN "b" ELSE "a"
MCThen(l) == IF l = "l1" THEN "l2" ELSE "none"

\* Fields of tx extra: as usual, in other orders, repeated, or not understood.
MCExtraLayouts ==
    {<<"pubkey", "nonce">>, <<"nonce", "pubkey", "merge">>, <<"pubkey", "nonce", "pubkey", "nonce">>,
     <<"pubkey", "unknown", "nonce">>, <<"nonce">>, <<"pubkey">>}

MCApiRequests ==
    [method : {"GET"}, url : {"summary", "config"}, auth : {"none", "good", "bad"}, json : {FALSE}]
        \cup [method : {"GET"}, url : {"favicon"}, auth : {"none"}, json : {FALSE}]
        \cup [method : {"POST"}, url : {"json_rpc", "config"}, auth : {"good"}, json : BOOLEAN]
        \cup [method : {"OPTIONS", "TRACE"}, url : {"summary"}, auth : {"none"}, json : {FALSE}]

\* Options that change nothing, name a pool, or a daemon and
\* a pool, or ask for a donation.
MCOptions == {<<>>, <<"url">>, <<"donate">>, <<"coin", "url", "daemon", "user", "url">>}

SoloPool == [NewPool EXCEPT !.url = TRUE, !.daemon = TRUE, !.user = TRUE, !.coin = TRUE]
Solo == [EmptyDoc EXCEPT !.pools = <<SoloPool>>, !.mode = "simple", !.verifier = "yes"]
MCFileDocs ==
    {Solo, [Solo EXCEPT !.watch = "yes"], [Solo EXCEPT !.pools = <<[SoloPool EXCEPT !.user = FALSE]>>],
     [Solo EXCEPT !.verifier = "bad"],
     [EmptyDoc EXCEPT !.pools = <<[NewPool EXCEPT !.url = TRUE]>>], [EmptyDoc EXCEPT !.mode = "simple"]}

\* Frames for the verifier's client: empty, of the largest size, larger, and one
\* that it answers by closing.
ClientFrames == [size : {0, 1, 3, 4}, closes : {FALSE}] \cup [size : {2}, closes : {TRUE}]

\* What the ZMQ socket of a daemon sends: messages of several frames, commands,
\* empty ones, too large ones; and openings of which one thing is wrong.
ZmqFrame(bytes, flags) ==
    [size |-> bytes, more |-> "more" \in flags, long |-> "long" \in flags, command |-> "command" \in flags]
ZmqStream(wrong, readySize, frames) ==
    [to |-> "zmq", version |-> "version" # wrong, mechanism |-> "mechanism" # wrong, command |-> "command" # wrong,
     ready |-> "ready" # wrong, readySize |-> readySize, frames |-> frames]
ZmqMessages ==
    {<<ZmqFrame(2, {"more"}), ZmqFrame(1, {"long"}), ZmqFrame(0, {}), ZmqFrame(3, {})>>,
     <<ZmqFrame(1, {"command"}), ZmqFrame(0, {"more"}), ZmqFrame(3, {"more", "command"}), ZmqFrame(2, {})>>,
     <<ZmqFrame(2, {"more"}), ZmqFrame(2, {})>>, <<ZmqFrame(1, {}), ZmqFrame(4, {"long"})>>}

MCFrameStreams ==
    [to : {"verifier"}, frames : [1..3 -> ClientFrames]]
        \cup {ZmqStream("none", 2, fs) : fs \in ZmqMessages}
        \cup {ZmqStream(wrong, 3, <<ZmqFrame(1, {})>>) : wrong \in {"version", "mechanism", "command", "ready"}}
        \cup {ZmqStream("none", 1, <<ZmqFrame(1, {})>>)}

\* "tls" as an object: with the generated files, or with those of the operator.
TlsObject ==
    [kind |-> "object", enabled |-> TRUE, protocols |-> {}, cert |-> FALSE, key |-> FALSE, good |-> TRUE, suites |-> "unset", dh |-> "unset"]
TlsOwn == [TlsObject EXCEPT !.cert = TRUE, !.key = TRUE]
MCTlsDocs ==
    [kind : {"bool"}, enabled : BOOLEAN] \cup [kind : {"string", "other"}]
        \cup {TlsObject, [TlsObject EXCEPT !.cert = TRUE, !.protocols = {"TLSv1.2", "SSLv3"}], TlsOwn,
              [TlsOwn EXCEPT !.good = FALSE], [TlsOwn EXCEPT !.enabled = FALSE],
              [TlsObject EXCEPT !.suites = "bad"], [TlsObject EXCEPT !.dh = "bad"]}

\* Versions of the addresses of a host.
MCReplies == {<<>>, <<4>>, <<6, 4, 6>>}
=============================================================================
