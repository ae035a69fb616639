---------------------------- MODULE MCSplitters ----------------------------
(* Three miners for two mappers of one byte each: a byte is freed, its      *)
(* mapper suspended and reused, and a second mapper is created and deleted. *)
(* In simple mode two connections with one worker name and two jobs: a       *)
(* mapper becomes idle, gets a new job and is given to the other miner.      *)
EXTENDS Splitters

CONSTANTS d1, d2
TwoMiners == {d1, d2}

\* Both connections of the simple mode name the same worker.
WorkerOf(m) == "rig"

\* With TLS and a verifier; without a context for TLS and without the donate
\* route; a verifier without a floor and a host without an address.
PlainHost == [tls |-> FALSE, version |-> 4, free |-> TRUE]
TlsHost == [tls |-> TRUE, version |-> 6, free |-> TRUE]
MCSettings ==
    {[tls |-> TRUE, hosts |-> {PlainHost, TlsHost}, verifier |-> TRUE, diff |-> 2, donate |-> TRUE,
      byWorker |-> TRUE, customStats |-> TRUE],
     [tls |-> FALSE, hosts |-> {PlainHost, TlsHost}, verifier |-> FALSE, diff |-> 0, donate |-> FALSE,
      byWorker |-> TRUE, customStats |-> FALSE],
     [tls |-> TRUE, hosts |-> {TlsHost, [PlainHost EXCEPT !.version = 0]}, verifier |-> TRUE, diff |-> 0,
      donate |-> TRUE, byWorker |-> FALSE, customStats |-> FALSE]}

\* A suffix below and above the floor, a wrong password, the URL of a donation
\* and another URL.
MCLogins ==
    {[worker |-> "a", good |-> TRUE,  url |-> "none",   diff |-> 1],
     [worker |-> "b", good |-> TRUE,  url |-> "none",   diff |-> 3],
     [worker |-> "a", good |-> FALSE, url |-> "none",   diff |-> 0],
     [worker |-> "a", good |-> TRUE,  url |-> "donate", diff |-> 1],
     [worker |-> "b", good |-> TRUE,  url |-> "bad",    diff |-> 3]}
=============================================================================
