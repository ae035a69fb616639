--------------------------------- MODULE Dns ---------------------------------
(***************************************************************************)
(* Host lookups: a DnsUvBackend per host, which keeps its last answer, an  *)
(* error too, for the configured time and asks libuv at most once at a     *)
(* time.  A cached answer is given before resolve() returns, and a         *)
(* listener that is told of an error may look up another host from within  *)
(* its callback: FailoverStrategy::onClose connects the next pool.         *)
(***************************************************************************)
EXTENDS Integers, SequencesExt

CONSTANTS
    Lookups,        \* owners of a DnsRequest
    HostOf(_),      \* the host that each of them looks up
    Then(_),        \* the lookup that an error of one starts, or "none"
    IpVersion,      \* DnsConfig::m_ipv: 4, 6, or 0 for any
    Replies         \* what the system may answer: the versions of the addresses

Hosts == {HostOf(l) : l \in Lookups}

\* The callbacks of a host's listeners never look up the same host: notify()
\* iterates over a queue that this would change.
ASSUME DnsAssumption ==
    /\ \A l \in Lookups : Then(l) # "none" => Then(l) \in Lookups /\ HostOf(Then(l)) # HostOf(l) /\ Then(Then(l)) = "none"
    /\ IpVersion \in {0, 4, 6} /\ Replies \subseteq Seq({4, 6})

VARIABLES
    backends,   \* m_backends: fresh is m_ts within the ttl; failed: m_status < 0;
                \* queue: m_queue; asked: m_req; records and index: m_records
    lookups     \* a DnsRequest: "idle", "waiting" or "dropped" (its weak pointer
                \* expired); answers: calls of onResolved since it began, and the
                \* version of the address it then took

dnsVars == <<backends, lookups>>

NewBackend == [fresh |-> FALSE, failed |-> FALSE, queue |-> <<>>, asked |-> FALSE, records |-> <<>>, index |-> 0]
Failure == -1
Request(st) == [st |-> st, answers |-> 0, address |-> Failure]

Dns == [backends |-> backends, lookups |-> lookups]

Worlds ==
    [backends : [Hosts -> [fresh : BOOLEAN, failed : BOOLEAN, queue : Seq(Lookups), asked : BOOLEAN,
                           records : Seq({4, 6}), index : Nat]],
     lookups : [Lookups -> [st : {"idle", "waiting", "dropped"}, answers : Nat, address : {Failure, 0, 4, 6}]]]

\* resolve: status is what uv_getaddrinfo returns, if it is called; notified is
\* what notify makes of a world and a host, as a function.
resolve(notified, w, l, status) ==
    LET h == HostOf(l)
        b == w.backends[h]
        in == [w EXCEPT !.backends[h].queue = Append(b.queue, l),
                        !.lookups[l] = Request("waiting")]
    IN  IF b.fresh THEN notified[in, h]
        ELSE IF b.asked THEN in
        ELSE IF status = "ok" THEN [in EXCEPT !.backends[h].asked = TRUE, !.backends[h].failed = FALSE]
        ELSE notified[[in EXCEPT !.backends[h].failed = TRUE], h]

\* DnsRecords: the addresses of the configured version; without any of version
\* 6 those of version 4.
DnsRecords(reply) ==
    LET family == IF IpVersion = 6 /\ 6 \notin ToSet(reply) THEN 4 ELSE IpVersion
    IN  IF family = 0 THEN reply ELSE SelectSeq(reply, LAMBDA v : v = family)

\* DnsRecords::get, in turn; without records there is an address that is none.
NoAddress == 0
nextRecord(b) == IF b.records = <<>> THEN NoAddress ELSE b.records[b.index + 1]

\* The call of a listener that still exists, with what it does then: it takes
\* an address, or goes on to another host.
tell(notified, w, l, failed, status) ==
    LET h == HostOf(l)
        b == w.backends[h]
        called == [w EXCEPT !.lookups[l].st = "idle", !.lookups[l].answers = w.lookups[l].answers + 1]
        told == IF failed THEN [called EXCEPT !.lookups[l].address = Failure]
                ELSE [called EXCEPT !.lookups[l].address = nextRecord(b),
                                    !.backends[h].index = IF b.records = <<>> THEN 0 ELSE (b.index + 1) % Len(b.records)]
        next == Then(l)
    IN  IF w.lookups[l].st = "dropped" THEN w
        ELSE IF failed /\ next # "none" /\ w.lookups[next].st = "idle" THEN resolve(notified, told, next, status)
        ELSE told

\* Mutant: the queue is kept.
notifyKeeps(world, host, status) ==
    LET notified[w \in Worlds, h \in Hosts] ==
            LET b == w.backends[h]
                out == FoldLeft(LAMBDA v, l : tell(notified, v, l, b.failed, status), w, b.queue)
            IN  [out EXCEPT !.backends[h].asked = FALSE]
    IN  notified[world, host]

\* notify: every listener that still exists; then the queue is emptied.
notify(world, host, status) ==
    LET notified[w \in Worlds, h \in Hosts] ==
            LET b == w.backends[h]
                out == FoldLeft(LAMBDA v, l : tell(notified, v, l, b.failed, status), w, b.queue)
            IN  [out EXCEPT !.backends[h].queue = <<>>, !.backends[h].asked = FALSE]
    IN  notified[world, host]

Become(w) == backends' = w.backends /\ lookups' = w.lookups

Lookup(l, status) ==
    LET now == [w \in Worlds, h \in Hosts |-> notify(w, h, status)]
    IN  lookups[l].st = "idle" /\ Become(resolve(now, Dns, l, status))

\* Mutant: an answer without a usable address is no error.
answeredEmpty(b, error, reply, i) ==
    LET records == IF error THEN <<>> ELSE DnsRecords(reply)
    IN  [b EXCEPT !.fresh = TRUE, !.records = records, !.index = i, !.failed = error]

\* onResolved, of the backend: no usable address is an error.
answered(b, error, reply, i) ==
    LET records == IF error THEN <<>> ELSE DnsRecords(reply)
    IN  [b EXCEPT !.fresh = TRUE, !.records = records, !.index = i, !.failed = error \/ records = <<>>]

\* The first address is chosen at random.
Answer(h, error, reply, i, status) ==
    LET b == answered(backends[h], error, reply, i)
    IN  /\ backends[h].asked
        /\ i = 0 \/ i < Len(b.records)
        /\ Become(notify([Dns EXCEPT !.backends[h] = b], h, status))

\* The owner is deleted, or assigns another request to m_dns.
Drop(l) ==
    /\ lookups[l].st = "waiting"
    /\ lookups' = [lookups EXCEPT ![l] = Request("dropped")]
    /\ UNCHANGED backends

\* Another owner takes its place when its entry is gone.
Renew(l) ==
    /\ lookups[l].st = "dropped" /\ l \notin ToSet(backends[HostOf(l)].queue)
    /\ lookups' = [lookups EXCEPT ![l] = Request("idle")]
    /\ UNCHANGED backends

\* The answer gets older than DnsConfig::ttl().
Expire(h) ==
    /\ backends[h].fresh
    /\ backends' = [backends EXCEPT ![h].fresh = FALSE]
    /\ UNCHANGED lookups

DnsInit ==
    /\ backends = [h \in Hosts |-> NewBackend]
    /\ lookups = [l \in Lookups |-> Request("idle")]

DnsNext ==
    \/ \E l \in Lookups : Drop(l) \/ Renew(l) \/ \E status \in {"ok", "error"} : Lookup(l, status)
    \/ \E h \in Hosts : Expire(h)
    \/ \E h \in Hosts, error \in BOOLEAN, reply \in Replies, i \in 0..1, status \in {"ok", "error"} :
          Answer(h, error, reply, i, status)

(***************************************************************************)
(* Properties                                                              *)
(***************************************************************************)

\* A lookup is answered once, with an error or an address of a version that is
\* allowed: of no other where one is demanded, except 4 for want of 6.  While
\* it waits it is in the queue of its host, once, and the host is being asked:
\* no lookup is left that nothing will answer, although a failure may start
\* other lookups from within the loop that tells of it
\* (DnsUvBackend::resolve, notify, onResolved, DnsRecords).
LookupsAnswered ==
    \A l \in Lookups :
        /\ lookups[l].answers <= 1
        /\ lookups[l].address # NoAddress /\ (IpVersion = 4 => lookups[l].address # 6)
        /\ lookups[l].st = "waiting" =>
             /\ backends[HostOf(l)].asked
             /\ Cardinality({i \in DOMAIN backends[HostOf(l)].queue : backends[HostOf(l)].queue[i] = l}) = 1
=============================================================================
