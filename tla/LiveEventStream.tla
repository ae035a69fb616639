-------------------------- MODULE LiveEventStream --------------------------
(***************************************************************************)
(* LiveEventStream: what happens in the proxy, as numbered rows for the    *)
(* subscribers of a local socket.  Rows are never repeated, so a consumer  *)
(* relies on their numbers; jobs that a miner gets before its login row    *)
(* are held back until the row is out.                                     *)
(*                                                                         *)
(* A row is its number, what it is about and its size.                     *)
(***************************************************************************)
EXTENDS Integers, SequencesExt

CONSTANTS
    Subscribers,    \* connections of consumers
    LMiners,        \* connections of miners; a minerId is used once
    MaxClients,     \* kMaxClients
    MaxPending,     \* kMaxPendingBytesPerClient
    RowSizes,       \* sizes of rows
    MaxRows,        \* bound: rows that are numbered
    MaxHeld         \* bound: jobs that a miner gets before its login row

ASSUME LiveAssumption ==
    /\ MaxClients \in Nat \ {0} /\ MaxPending \in Nat /\ RowSizes \subseteq Nat
    /\ MaxRows \in Nat /\ MaxHeld \in Nat

VARIABLES
    running,    \* m_running
    log,        \* rows numbered so far, without their sizes; its length is m_eventSequence
    clients,    \* m_clients, whose order only says to whom a row goes first
    subs,       \* a Client: st, pendingBytes, writes that are not done, since:
                \* m_eventSequence at accept, rows: numbers written to it
    early,      \* m_preLoginJobs: of a miner that has an entry, the rows held back
    miner       \* a miner's state and the jobs it was sent

liveVars == <<running, log, clients, subs, early, miner>>

None == "none"
Row(event, m, size) == [event |-> event, miner |-> m, size |-> size]

Header == [event |-> "header", miner |-> None, size |-> 1]

(***************************************************************************)
(* Clients                                                                 *)
(***************************************************************************)

\* closeClient; the callbacks of its writes still come.
closeClient(s) == IF s.st = "open" THEN [s EXCEPT !.st = "closing", !.since = 0, !.rows = <<>>] ELSE s

\* A write under way; rows without a number are not counted.
Queued(s, row, number) ==
    [s EXCEPT !.pending = s.pending + row.size, !.writes = Append(s.writes, row.size),
              !.rows = IF number = 0 THEN s.rows ELSE Append(s.rows, number)]

\* Mutant: a row that does not fit is not written, and the client stays.
writeSkips(s, row, number, ok) ==
    IF s.st # "open" \/ ~ok THEN closeClient(s)
    ELSE IF s.pending + row.size > MaxPending THEN s
    ELSE Queued(s, row, number)

\* write, to a client s: ok is whether the pipe is writable and uv_write takes
\* the row.
write(s, row, number, ok) ==
    IF s.st # "open" \/ ~ok \/ s.pending + row.size > MaxPending THEN closeClient(s)
    ELSE Queued(s, row, number)

\* broadcast: a number is used up even if nobody listens; the loop runs over a
\* copy of m_clients, so a client that write() closes keeps no other from its
\* row.  broken: clients whose write fails.
broadcast(w, row, broken) ==
    LET number == Len(w.log) + 1
        now == [c \in Subscribers |->
                   IF c \in w.clients THEN write(w.subs[c], row, number, c \notin broken) ELSE w.subs[c]]
    IN  [log |-> Append(w.log, [event |-> row.event, miner |-> row.miner]),
         clients |-> {c \in w.clients : now[c].st = "open"}, subs |-> now]

\* Rows one after the other.
broadcastAll(w, rows, broken) ==
    LET after[n \in 0..Len(rows)] == IF n = 0 THEN w ELSE broadcast(after[n - 1], rows[n], broken)
    IN  after[Len(rows)]

Stream == [log |-> log, clients |-> clients, subs |-> subs]

Emit(rows, broken) ==
    LET out == broadcastAll(Stream, rows, broken)
    IN  /\ Len(log) + Len(rows) <= MaxRows
        /\ log' = out.log /\ clients' = out.clients /\ subs' = out.subs

Quiet == UNCHANGED <<log, clients, subs>>

NewClient == [st |-> "free", pending |-> 0, writes |-> <<>>, since |-> 0, rows |-> <<>>]

\* accept: the client is refused when there are MaxClients; otherwise it is
\* written the header.
Accept(c, ok) ==
    LET refused == Cardinality(clients) >= MaxClients
        out == IF refused THEN [subs[c] EXCEPT !.st = "closing"]
               ELSE write([NewClient EXCEPT !.st = "open", !.since = Len(log)], Header, 0, ok)
    IN  /\ running /\ subs[c].st = "free"
        /\ subs' = [subs EXCEPT ![c] = out]
        /\ clients' = IF out.st = "open" THEN clients \cup {c} ELSE clients
        /\ UNCHANGED <<running, log, early, miner>>

\* onWrite, in the order of the writes; an error closes the client.
WriteDone(c, ok) ==
    LET s == subs[c]
        done == [s EXCEPT !.pending = s.pending - Head(s.writes), !.writes = Tail(s.writes)]
    IN  /\ s.writes # <<>>
        /\ s.st = "closing" => ~ok
        /\ subs' = [subs EXCEPT ![c] = IF ok THEN done ELSE closeClient(done)]
        /\ clients' = IF ok THEN clients ELSE clients \ {c}
        /\ UNCHANGED <<running, log, early, miner>>

\* onRead: a consumer that sends anything, or ends, is closed.
ReadOrEnd(c) ==
    /\ subs[c].st = "open"
    /\ subs' = [subs EXCEPT ![c] = closeClient(subs[c])]
    /\ clients' = clients \ {c}
    /\ UNCHANGED <<running, log, early, miner>>

\* onClientClosed, after the callbacks of the writes.
ClientClosed(c) ==
    /\ subs[c].st = "closing" /\ subs[c].writes = <<>>
    /\ subs' = [subs EXCEPT ![c] = NewClient]
    /\ UNCHANGED <<running, log, clients, early, miner>>

\* stop: rows that are held back are dropped and every client is closed.
Stop ==
    /\ running
    /\ running' = FALSE
    /\ early' = <<>>
    /\ subs' = [c \in Subscribers |-> IF c \in clients THEN closeClient(subs[c]) ELSE subs[c]]
    /\ clients' = {}
    /\ UNCHANGED <<log, miner>>

(***************************************************************************)
(* publishOrdered, for the rows of a miner in the order of the program:    *)
(* connected, jobs of the login, login, more jobs, disconnected            *)
(***************************************************************************)

\* Mutant: a job is never held back.
holdsNever(m) == FALSE

\* Whether a job_sent row waits for the login row.
holds(m) == m \in DOMAIN early

\* Mutant: the jobs come before the login row.
loginRowsFirst(m, row, accepted) ==
    (IF m \in DOMAIN early /\ accepted THEN early[m] ELSE <<>>) \o <<row>>

\* The login row, and what was held back when the login is accepted.
loginRows(m, row, accepted) ==
    <<row>> \o (IF m \in DOMAIN early /\ accepted THEN early[m] ELSE <<>>)

EntryErased(m) == Restrict(early, DOMAIN early \ {m})

Connected(m, size, broken) ==
    /\ running /\ miner[m].st = "new"
    /\ miner' = [miner EXCEPT ![m].st = "connected"]
    /\ early' = [x \in DOMAIN early \cup {m} |-> IF x = m THEN <<>> ELSE early[x]]
    /\ Emit(<<Row("connected", m, size)>>, broken)
    /\ UNCHANGED running

JobSent(m, size, broken) ==
    /\ running /\ miner[m].st \in {"connected", "logged"}
    /\ miner' = [miner EXCEPT ![m].jobs = miner[m].jobs + 1]
    /\ IF holds(m)
       THEN /\ Len(early[m]) < MaxHeld
            /\ early' = [early EXCEPT ![m] = Append(early[m], Row("job", m, size))]
            /\ Quiet
       ELSE Emit(<<Row("job", m, size)>>, broken) /\ UNCHANGED early
    /\ UNCHANGED running

Login(m, size, accepted, broken) ==
    /\ running /\ miner[m].st = "connected"
    /\ miner' = [miner EXCEPT ![m].st = IF accepted THEN "logged" ELSE "refused"]
    /\ early' = EntryErased(m)
    /\ Emit(loginRows(m, Row("login", m, size), accepted), broken)
    /\ UNCHANGED running

Disconnected(m, size, broken) ==
    /\ running /\ miner[m].st \in {"connected", "logged", "refused"}
    /\ miner' = [miner EXCEPT ![m].st = "gone"]
    /\ early' = EntryErased(m)
    /\ Emit(<<Row("disconnected", m, size)>>, broken)
    /\ UNCHANGED running

\* Rows that have no place among those of a miner.
OtherRow(size, broken) ==
    /\ running
    /\ Emit(<<Row("other", None, size)>>, broken)
    /\ UNCHANGED <<running, early, miner>>

\* Templates, requests for them and the daemon's tip.
DaemonRow(size, broken) == OtherRow(size, broken)

\* The result of a share: an AcceptEvent, or one that was rejected before or
\* after it was sent.
ResultRow(size, broken) == OtherRow(size, broken)
RejectedRow(size, broken) == OtherRow(size, broken)

LiveInit ==
    /\ running = TRUE /\ log = <<>> /\ clients = {} /\ early = <<>>
    /\ subs = [c \in Subscribers |-> NewClient]
    /\ miner = [m \in LMiners |-> [st |-> "new", jobs |-> 0]]

LiveNext ==
    \/ Stop
    \/ \E c \in Subscribers :
         \/ ReadOrEnd(c) \/ ClientClosed(c)
         \/ \E ok \in BOOLEAN : Accept(c, ok) \/ WriteDone(c, ok)
    \/ \E size \in RowSizes, broken \in SUBSET clients :
         \/ DaemonRow(size, broken) \/ ResultRow(size, broken) \/ RejectedRow(size, broken)
         \/ \E m \in LMiners :
              \/ Connected(m, size, broken) \/ JobSent(m, size, broken) \/ Disconnected(m, size, broken)
              \/ \E accepted \in BOOLEAN : Login(m, size, accepted, broken)

(***************************************************************************)
(* Properties                                                              *)
(***************************************************************************)

Total(sizes) ==
    LET sum[n \in 0..Len(sizes)] == IF n = 0 THEN 0 ELSE sum[n - 1] + sizes[n]
    IN  sum[Len(sizes)]

\* A subscriber that is connected was written every row numbered since it was
\* accepted, in order and without a gap: one that cannot take a row is
\* disconnected rather than skipped, also while the loop of broadcast() goes
\* on to the others.  Its pending bytes are those of its writes under way and
\* stay within the limit (LiveEventStream::broadcast, write, onWrite, accept).
NoRowSkipped ==
    /\ Cardinality(clients) <= MaxClients
    /\ \A c \in Subscribers :
         /\ subs[c].st = "open" <=> c \in clients
         /\ subs[c].st = "open" =>
              /\ subs[c].rows = [i \in 1..(Len(log) - subs[c].since) |-> subs[c].since + i]
              /\ subs[c].pending = Total(subs[c].writes)
              /\ subs[c].pending <= MaxPending

JobRows(m) == {i \in DOMAIN log : log[i].event = "job" /\ log[i].miner = m}
LoginRows(m) == {i \in DOMAIN log : log[i].event = "login" /\ log[i].miner = m}

\* No job is told before the login of its miner, none is lost once the login
\* is accepted, and those of a refused login are never told, although the
\* jobs are sent from within the dispatch of the login event
\* (LiveEventStream::publishOrdered).
JobsFollowLogin ==
    \A m \in LMiners :
        /\ \A i \in JobRows(m) : \E j \in LoginRows(m) : j < i
        /\ miner[m].st = "logged" => Cardinality(JobRows(m)) = miner[m].jobs
        /\ miner[m].st = "refused" => JobRows(m) = {}
=============================================================================
