# TLA+ model of xmrig-proxy

This directory models this xmrig-proxy fork. In its daemon mode miners connect to
the proxy, the proxy takes block templates from a Monero daemon, gives every
miner private jobs made from them, checks the shares with a RandomX verifier
sidecar and submits blocks to the daemon; its other modes join miners on
connections to stratum pools. Paths below are relative to the repository's `src`
directory unless they start with `doc/` or are `README.md`.

## 1. Inventory

The proxy is one libuv event loop. There are no threads; the concurrency is the
interleaving of callbacks: lines from miners, HTTP replies, frames from the
verifier, ZMQ notifications, timers and closed sockets. What is decided in one
callback is used in a later one, after any others have run.

| Part | State it keeps | Operations | Talks to |
|---|---|---|---|
| `DaemonTemplateSource` (one per daemon) | cached template, requests in flight and waiting, two timers, ZMQ stage, retry count | start, HTTP replies, timers, ZMQ notification, shutdown | daemon RPC and ZMQ; notifies its clients; announces heights to the share cache |
| `DaemonClient` (one per miner and pool) | job contexts, deferred template, pending submissions | connect, template, submit, HTTP reply, tick, disconnect, delete | template source, daemon RPC, verifier (seeds), mapper |
| `DaemonReconciliation` | none | classification of `submitblock` replies, retry policy | used by `DaemonClient` |
| `RandomXVerifier` | connection, controls, pending requests, counts per miner, seeds, candidate budgets | connect, replies, verify, prepareSeed, cancelOwner, tick, stop | sidecar over a Unix socket; `Miner`, `DaemonClient` |
| `GlobalShareCache` | buckets per source and height, global key index, references of connections | observeHeight, setOwnerHeights, reserve, release, removeOwner, removeSource | `Miner`, template source |
| `Miner` (one per connection) | connection state, sent jobs, counters of failures and rejections | login, job, submit, verification answer, close | all of the above, splitter events |
| `SimpleSplitter`, `SimpleMapper` | mapper per miner, idle and released mappers, current job and its history | login, submit, job, result, close, reload | strategies, `Miner` |
| `Events` | static event buffer, listeners | exec | splitters, statistics, logs, event stream |
| `NonceSplitter`, `NonceMapper`, `NonceStorage`; the extra-nonce and donate variants | 256 byte slots per upstream, suspended upstreams, results waiting | login, submit, job, result, gc, reload | strategies, `Miner` |
| `FailoverStrategy`, `SinglePoolStrategy`, `Client` | active pool, socket state, retries, results waiting | connect, login, job, result, close, tick | pools |
| `SelfSelectClient` | job of the pool, template for it, request numbers, retries | job, template reply, agreement, tick, submit | pool (inner client), daemon RPC, strategy |
| `BlockTemplate`, `Job` | fields of the coinbase, Merkle root and branch | parse, set extra nonce, view tag, root | `DaemonClient`, `Miner` |
| `Server`, `Miner` (connection), `Miners`, `Login`, `CustomDiff` | sockets, connection states, deadlines, the table of miners | bind, accept, TLS or not, login, first job, tick, shutdown, close | events, splitters |
| `Stats`, `Workers` | counters, workers by name | connection, login, accept, close, tick | event listeners, API |
| `LiveEventStream` | subscribers, bytes waiting, rows held until a login, the socket file | publish, accept, write, close, start, stop | event listeners, other proxies on the same path |
| `LineReader` | bytes of an unfinished line | parse, reset | every line-based connection |
| `DnsUvBackend`, `DnsRecords` | addresses or error of a host, waiting listeners | resolve, answer, get | clients |
| `Job`, `JobResult` (targets) | difficulty, target as sent | setTarget, setDiff, actualDiff | pools, templates, `Miner` |
| `FileLogWriter`, `Log`, `FileLog`, `AccessLog` | kept lines, the place of the next one | print, events, flush, close | the loop, event listeners |
| `TlsConfig`, `TlsGen`, `TlsContext` | options, two files on disk, the context | read, generate, write, load | configuration, connections |
| `HttpContext`, `HttpClient`, `HttpServer`, `Httpd`, `Api` | contexts, deadlines | fetch, message, timeout, close | daemon clients, API users |
| `Base`, `Config`, `ConfigTransform`, `Controller`, `App` | chain of documents, the configuration | options, load, checks, start, stop | everything at start |

Hard behaviours, in the order of what they can cost:

* A block candidate: `submitblock` may be accepted while its answer is lost; it
  is retried under a new id, and the client may be disconnected or deleted in
  between. Correct: one result for each candidate, and a true one.
* The duplicate records of shares: buckets come and go with the heights of
  sources and the jobs of every connection. Correct: no share is credited
  twice, no genuine one refused, no record leaks.
* Work that must keep flowing: single-shot timers, coalesced requests, retries
  with limits, a ZMQ connection to be reopened, seeds to be prepared again.
  Correct: nothing is forgotten and everything asked for happens.
* The answer to a miner: it depends on two asynchronous services and on jobs
  that change meanwhile. Correct: exactly one answer.
* The division of work: miners come, leave and are moved between upstreams while
  jobs change. Correct: no two search the same nonces, and a share goes where
  its job came from.
* Connections to pools that fail at every stage, alone and in a failover list,
  with callbacks of sockets that were replaced. Correct: the first pool is used
  again, backups come to rest, a share has one result.
* Events in one static buffer, whose listeners may cause events. Correct: each is
  delivered to all its listeners.
* The block that is mined and the block that is submitted are made in different
  places. Correct: they are the same block.

`PROJECT.json` lists every component with what is left out and every hazard with
its line and the properties that would show it.

## 2. Modules

| Module | Models | Role |
|---|---|---|
| `GlobalShareCache` | `proxy/GlobalShareCache.cpp` | the cache as operators on one record; its own specification lets callers use it in any order |
| `Miner` | `proxy/Miner.cpp` (jobs and shares), with what `SimpleMapper`, `SimpleSplitter` and `DaemonClient` do within its actions | composes the miners with the operators of `GlobalShareCache` |
| `DaemonSubmission` | the promise of submitting a block | abstract specification |
| `DaemonClient` | `DaemonClient.cpp`, `DaemonReconciliation` | implements `DaemonSubmission` |
| `DaemonTemplateSource` | `DaemonTemplateSource.cpp` | requests, queues, timers and the ZMQ connection |
| `SelfSelectClient` | `SelfSelectClient.cpp` | a pool's jobs and the templates fetched for them |
| `DaemonTemplates` | | runs the two users of templates, one at a time |
| `RandomXVerifier` | `proxy/RandomXVerifier.cpp` | connection, seeds and queue of the sidecar's client |
| `Clients` | | runs the daemon client or the verifier's, one at a time |
| `CandidateBudget` | the budgets of `RandomXVerifier.cpp` | sliding windows of candidates |
| `SimpleSplitter` | `splitters/simple`, `Events.cpp`, the listeners of events | simple mode with the delivery of events |
| `NonceSplitter`, `ExtraNonceSplitter`, `DonateSplitter` | `splitters/nicehash`, `splitters/extra_nonce`, `splitters/donate` | the other modes and the route of miners with a pool of their own |
| `MinerConnections` | `Server.cpp`, `Miner.cpp` (connection), `Miners.cpp`, `Login.cpp`, `CustomDiff.cpp`, `Stats.cpp`, `Workers.cpp` | a connection from accept to destructor and everything that counts it |
| `Splitters` | `Proxy.cpp` | the modes exclude each other: one of the five above runs |
| `StratumClient` | `stratum/Client.cpp` | one connection to a pool, as operators on a record |
| `FailoverStrategy` | `strategies/FailoverStrategy.cpp`, `SinglePoolStrategy.cpp` | composes the clients of a strategy |
| `BlockTemplate` | `BlockTemplate.cpp`, `Job.cpp`, `DaemonClient::installTemplate` and `submit`, `Miner::setJob` | the coinbase and its Merkle root on their way |
| `Targets` | `Job::setTarget` and `setDiff`, `JobResult`, `Miner::setJob` and the judging of shares | difficulties on their way to a miner and back |
| `LineReader`, `FrameReader` | `LineReader.cpp`; the frames of `RandomXVerifier.cpp` and of ZMQ | streams in pieces |
| `Dns`, `Http` | `DnsUvBackend.cpp`, `DnsRecords.cpp`; `net/http` and the API | what arrives is handed on |
| `LogFile` | `FileLogWriter.cpp`, `Log.cpp`, `FileLog.cpp`, `AccessLog.cpp` | the files of the logs |
| `TlsContext` | `TlsConfig.cpp`, `TlsGen.cpp`, `TlsContext.cpp` | the TLS of the listening side |
| `LiveEventStream`, `LiveSocket` | `live/LiveEventStream.cpp` | subscribers and rows; the socket file between proxies |
| `Startup` | `Base.cpp`, `ConfigTransform.cpp`, `Config.cpp`, `Controller.cpp`, `App.cpp` | from the options to a running proxy and back |
| `Services` | | the parts that share no state with the rest, one at a time |
| `MC*` | | constants for TLC |
| `*_proofs` | | theorems and proofs |

`Splitters`, `DaemonTemplates`, `Clients` and `Services` are the sum of their parts, not the
product: the first state chooses the part that runs, the others keep their first
state. The parts do not read each other's state in the code either, or exclude
each other by configuration, so no interleaving is lost. Where parts do interact
they are one specification: `Miner` with the cache, `SimpleSplitter` with the
events and their listeners, `FailoverStrategy` with its clients,
`MinerConnections` with the counters.

How state and actions correspond to the code:

* **GlobalShareCache.** `cache` holds `s_sources`, `s_owners`, `s_keys` and
  `s_sequence`; each function is an operator of the same name from a cache to a
  cache, and the actions call them. Map entries that do not exist are 0 or the
  empty set. A key is a model value: `makeKey` is injective on what it decodes.
  `held` are the reservations some caller can still release.
* **Miner.** `miner[o]` is a connection together with its mapper and client
  (simple mode has one of each). `jobs` are its `m_telemetryJobs`; `pending`
  are the `PendingShare`s in the verifier, `inflight` the requests a
  `DaemonClient` owns, `log` what each request was answered, `credited` the work
  that was accepted. A nonce is named by the hash it really has, so that a
  submission is honest when its claimed result is its nonce. `Submit*` are the
  ways through `parseRequest`, `Verif*` those through `completeVerification`;
  each includes its reservation, reply and counter changes. Budgets, the
  verifier's verdict and the upstream's answer are choices here.
* **DaemonClient.** `pendingSubmissions` is the map of that name; `requests` are
  the HTTP requests with a listener, `strays` those that outlived it and may
  still reach the daemon, `onchain` what the daemon took, `rows` and `answers`
  what the event stream and the miner were told. A reply is any of the forms
  `parseSubmitResponse` tells apart.
* **DaemonTemplateSource.** `src` holds the members of the class; a tip is a
  number that stands for its hash. `announced` and `excused` are history
  variables: the newest tip read from ZMQ and the newest one given up.
* **SelfSelectClient.** What matters of a request number is whether it is the
  latest, and of a job whether it is still the pool's; `onHttpData` lets
  answers of old requests through only when their id is not positive.
* **RandomXVerifier.** `link` combines `m_pipe`, `m_connected`, `m_ready` and
  `m_stopping`; `wire` are the frames the sidecar has yet to answer and
  `prepared` the datasets it holds. The sidecar is external: it answers the
  controls of one seed in order and forgets everything with its connection.
  Times are a choice of what is expired, in the order the equal timeouts allow.
* **CandidateBudget.** The windows are sequences of ages; a tick of time makes
  all of them older. `passed` records what was let through.
* **NonceSplitter.** `m_used` of a storage is 0 for a free byte, a miner, or
  minus the miner that left it (a dead byte until the next job), as in the code.
  `work` records which nonces of which job each miner was given. A mapper has
  two strategies, the pools and the donation, whose callbacks are the actions.
* **ExtraNonceSplitter, DonateSplitter.** The same with extra nonces, and with a
  client for each miner.
* **SimpleSplitter.** Delivery is modelled listener by listener: the event of a
  nested `Events::exec` overwrites the buffer and is refused, and the remaining
  listeners see it instead. `overwritten` records the close events this hid.
* **MinerConnections.** `miners[c]` has the members of a connection, `listed` is
  the table of `Miners`, `totals` and `table` are `Stats` and `Workers`. Deadlines
  are counted in ticks. Closing is `uv_close`, or `uv_shutdown` and then
  `uv_close`, with the callbacks as actions of their own. Whether a write, a TLS
  record or a JSON line succeeds is a choice. Events are assumed to be delivered
  whole, which is the matter of `SimpleSplitter`.
* **StratumClient, FailoverStrategy.** `m_expire` is "armed" or not. A socket that
  `connect()` replaced is kept as `old` with what it may still receive. The
  answer of a host lookup comes in a step of its own, close callbacks come before
  it; one replaced socket is kept, the latest; only plain connections read on a
  replaced socket. Failures are counted up to `Retries`, which is all that is
  compared. `late` notes that `stop()` left a lookup or a replaced socket behind.
* **BlockTemplate.** A hash is the term it is the hash of, so two roots are equal
  only if everything under them is. The path of a branch, bits of a word in the code,
  is the sequence of these bits. Miners have the ids up to `MaxMinerId` (`BMiners`),
  the order in which a storage gives them a job.
* **LineReader.** Bytes are their positions in the stream.
* **FrameReader.** A stream is a sequence of frames of known sizes, and the buffer
  is what lies between two positions of it. Bytes that are left of an earlier
  connection lie before its start. What a reader takes for a frame although no
  frame begins there is a frame that it must refuse.
* **Targets.** A word is two halves of `HalfValues` values, 2^32 in the code, and everything else is the code's
  arithmetic. A result is its upper word, and the miner submits what lies below
  the target as it expands it.
* **Dns.** An answer is the sequence of the versions of its addresses.
* **LogFile.** `written` holds the writes of all processes with their place and size;
  the thread pool ends them in any order, whole, after their first bytes or with nothing
  written, which no callback looks at, and a kill drops those under way.
* **TlsContext.** A file holds the number of the key pair it belongs to, nothing, or a
  part of one. `TlsGen::write` sees `fopen` and `PEM_write` fail, but not `fclose`: a
  file may be torn although it goes on. The files outlive the proxy, whose state starts
  anew; `found` is what it found, `broken` that it could not write a whole pair.
* **LiveSocket.** Inodes may be used again when nothing refers to them, which is
  what `prepareSocketPath` has to reckon with.
* **Startup.** A document is a record of the keys that some check reads. `Spellings` are
  ways of writing the option for a file: `Searched`, which `BasePrivate::load` looks for,
  and the others that `getopt_long` takes (`Parsed`), where `explicitConfig` stays false.

## 3. Runs

Every bound is a constant named in the module; each was chosen as the smallest
for which the interesting cases happen, and the mutants of `PROJECT.json` show
that they do.

| Run | Instance | Shows |
|---|---|---|
| `miner_shares` | 1 connection, 2 requests, 2 templates, a share and a block, with a verifier and without | `ReplayRefused`, `NoWorkCreditedTwice`, `NoLeakedReservation`, `OneAnswer`, and `RequestAnswered` with fairness |
| `miner_buckets` | 2 connections, 2 sources, 3 templates whose heights go up and down, an upstream disconnect | `BucketForEligibleJob` |
| `clients` | the daemon client: 2 candidates, 2 attempts, 2 templates of which one is unusable, a disconnect, deletion; the verifier's: 2 miners, 1 seed, queue of 3 with 2 per miner, 2 faults | `PendingWaits`, `OneResult`, `ResultTruthful`, `FollowsSource`, refinement of `DaemonSubmission`, `EveryCandidateFinishes`; `QueueExact`, `RequestedIsAwaited`, `ReadyIsBacked`, `SeedsBecomeReady`, `RequestsEnd` |
| `templates` | 3 tips, 2 failures, 2 retries, prompt and lagging RPC; a self-select pool with 1 retry | `NeverStalls`, `NotificationPursued`, `CatchesUp`, `ZmqReconnects`; `TemplateMatchesJob`, `JobPursued` |
| `splitters` | nicehash: 3 miners, mappers of 1 slot, 2 mappers, 3 jobs; extra nonce: 2 miners, 2 pools, 4 jobs, 1 share; donate: 2 miners; simple: 2 miners, with and without reuse; connections: 2 miners, 3 configurations | `WorkDisjoint`, `SharesRouted`, `MappersMatchMiners`, `CountsExact`; `MinersAccounted`, `MinersServed` |
| `failover` | 1 and 2 pools, 1 retry, plain, SOCKS5 and TLS, stop, restart and deletion | `ResultOnce`, `DeletedReleased`, `PrimaryRetried`, `BackupsRetire` |
| `services` | see below | `CacheExact`, `NoRecordLost`, `LimitsExact`, `WorkCounts`, `MessagesExact`, `StreamFaithful`, `ConfigurationGuarded` |
| `miner_first_key`, `event_overwrite`, `failover_refused`, `block_tags`, `config_option` | | findings, section 6 |

The parts of `services`: the cache with 2 connections, 2 sources, 2 heights, 2
shares (symmetric) and capacities 2 and 1; budgets of 0 (none), 1 and 2 with a
window of 2 ticks and up to 3 candidates let through; blocks with 0 to 6 other
transactions, which covers every shape of the Merkle tree up to three levels
and the odd counts, and each layout of tx extra; streams of 7 bytes in chunks
with lines of at most 2, so that a line is joined, fits exactly and overflows;
up to 4 frames of 0 to 4 bytes with a limit of 3 (`kMaxFrameSize`, `kMaxZmqMessage`),
in one message or several, with a greeting of 3 bytes whose version shows after 2
and a READY of 2 to 3, in every cut, after every end of an earlier connection;
targets of 10 bits (`HalfValues` = 32), with every custom difficulty from 2 to 14, every half
target, and difficulties (`JobDiffs`) around each of the custom ones and at both ends,
against every result; 3 lines of 1 or 2 bytes in a log (`MaxLines`, `LineSizes`) with 2
miners; 3 key pairs (`MaxPairs`) with each form of `tls`; hosts with no address, one
and three of mixed versions where version 6 is preferred;
3 subscribers of which 2 may connect, 3 rows and 2 held; 2 proxies and 3 inodes;
3 lookups of 2 hosts, one made from within a callback; one request in each
direction of HTTP, closed in every order; every combination of two documents
and the options that decide, with a file chosen as `--config FILE`, `-cFILE` and
`--config=FILE` (of each kind the ways of writing it are alike in the model: one that the
search finds, with the value in a word of its own or not, and one that it does not).

Two connections are enough for the cache because its operations look at one
owner and at whether others remain; two requests because a replay needs one
other; one seed because seeds do not interact except in the ids they draw; one
slot per mapper, where the code has 256, because what matters is that a mapper
is full and the next one is made; two pools because a backup only looks at the
first pool and at its successor. Deadlock is checked in `failover`, which never
stops; in the other runs the bounds let a behaviour end: miners leave, templates
and ids run out.

The properties, where their names do not say it:

* `WorkDisjoint`: two miners are never given the same nonces of the same job, in
  any mode; in simple mode a job goes to one miner only.
* `SharesRouted`: a share goes to the connection its job came from and its answer
  to the miner that sent it (in simple mode with daemons; see section 6). The one
  exception is a job that was saved during a donation and given to the miners
  after it: its shares go to whatever connection of the user's pools is there
  then. Answers are recorded as the set of miners that got one.
  `MappersMatchMiners`: the tables of the splitter, of the mapper and of the
  storage agree.
* `CountsExact`: the counts of connections are those of the connections, but for
  the close events that were overwritten.
* `MinersAccounted`: the numbers of miners in `Stats`, in `Counters` and of each
  worker are those of the connections in these states, and workers do not add
  up to more than the totals. `MinersServed`: strict TLS, one answer to a login,
  no connection over its deadline, no difficulty below the configured floor with
  a verifier, unless the miner took the donate route.
* `LimitsExact`: the capacities of the cache, and: a candidate passes exactly
  when fewer than the limit passed within the window, for the miner and for all.
* `WorkCounts`: the Merkle root a miner hashes is that of the block that would
  be submitted for its share (`BlockIsMined`); a result below the target a miner was
  told is never of low difficulty for the proxy, and one that solves the block is
  sent on (`NoWorkWasted`).
* `MessagesExact`: lines hold exactly the bytes between two ends of line, in
  order, up to the first that is too long, which ends the connection; each frame or
  message counts once, with its last byte, and an error of the peer ends the
  connection as soon as it can be seen (`FramesExact`); a request's listener is told
  once; a lookup is answered once, with an address of an allowed version.
* `StreamFaithful`: a subscriber gets consecutive rows, a miner's jobs come after
  its login, and a running proxy's path leads to its own socket; a log file holds
  each line once, none over what was written of another, in the order of the events
  (`LogsIntact`).
* `ConfigurationGuarded`: a file that was chosen in a way that is searched for is used
  or the proxy does not start; however it was chosen, a default file is used only when
  everything before it was refused; what runs with a verifier has the mode, the donation
  and the pools that are allowed with one (`ChosenFileDecides`). The
  API shows the configuration and its reports only to those who may see them. A
  proxy that is asked for TLS has it with the versions named, unless it could not write
  a whole pair or found two files of no pair after an attempt that failed, was cut off
  or lost what it wrote, and none has it that was not asked (`TlsAsConfigured`).
* `ExplicitIsAuthoritative`: however the option was written, no default file takes the
  place of the one that was chosen. It is what the documentation says, and fails
  (section 6).
* `TemplateMatchesJob`, `JobPursued`: a template that is kept was made for the pool's
  job of the moment, never for the one before whose answer came late, and every
  job of the pool is given to the strategy unless the connection ends.

### Fairness

* `DaemonClient`: `HttpClient` ends each request by its own timer, and the
  proxy's one-second tick finds a scheduled retry due after `kRetryDelayMs`.
* `DaemonTemplateSource`, `SelfSelectClient`: requests end for the same reason,
  and armed timers fire. The RPC side of the daemon catches up. Nothing is
  assumed of ZMQ, except in `ZmqReconnects`, whose premise is that each stage of
  a connection ends.
* `RandomXVerifier`: the tick runs every second, a sidecar that is up accepts
  and answers, and faults are finite (`MaxFaults`). That requests end needs
  only the tick.
* `Miner`: the verifier and the client give every request its result, which
  `RequestsEnd` and `EveryCandidateFinishes` show of their modules.
* `FailoverStrategy`: ticks and close callbacks come; lookups, connects and logins
  of backups are answered somehow; the first pool is good in the sense that what
  is tried with it again and again succeeds at last (strong fairness); and a pool
  drops a connection whose login it refused (`DropsRejected`). The last is not
  the code's doing; without it `failover_refused` is what happens.

## 4. Proofs

TLAPS proves the following for every value of the constants; nothing else is
assumed than the named `ASSUME`s. Most say that the constants have their types. Those
that say more: in `FailoverStrategy`, that a login and a share are different requests
(`FailoverAssumption`); in `Dns`, that a listener which looks up a host from within its
callback looks up another one (`DnsAssumption`, which only TLC's runs rest on: nothing is
proved of lookups); in `Startup`, that the option for a file is written in one of the ways
that `getopt_long` takes (`StartupAssumption`).

* `GlobalShareCache_proofs`: `TypeOK`, `CacheExact` (`KeyIndexConsistent`,
  `BucketsExact` and `RefCountExact`) and the action property `NoRecordLost`. They
  are proved together (`CacheInv`): erasing a bucket keeps the key index only if
  entries sit in existing buckets, and buckets are erased on the word of the
  reference counts. `IInv` adds that the reservations callers hold have tokens
  already drawn, so that a new record is never released by an old holder. Each
  operation has a lemma that it preserves the invariant and what it may erase.
* `Clients_proofs`, of the daemon client: `TypeOK`, `PendingWaits`, `OneResult`,
  `ResultTruthful`, `AttemptsBounded`, `NoAttemptAfterResult`, and `Refinement`:
  the client implements `DaemonSubmission`. The invariant adds how submissions
  are filed (`Filing`: one entry for each candidate, ids below `sequence`), that
  the attempts of an entry are those sent (`Pending`), that each live request
  has its entry (`InFlight`), and what may be concluded from explicit refusals
  only (`Verdicts`): without the last, "rejected" could be said of a block a
  stray request still delivers. The refinement uses the invariant in every step
  that finishes a candidate. `FollowsSource` needs only the types beside it and that
  a client which is not connected has nothing deferred (`Follows`).
* `Upstream_proofs`, of the source of templates: `TypeOK`, `NeverStalls`, `QueuesDrain`
  and, for an RPC that does not lag, `NotificationPursued`. The last is not inductive: a
  follow-up check whose answer is the cached tip is final. `Chasing` says which
  request in flight reads a late enough tip or has another one behind it, and
  `Order` that no reply takes the source back to an older tip. Of the self-select
  client: `TemplateMatchesJob`. `SelfInv` adds that the latest request was made for the
  pool's job of the moment (`LatestIsMine`), since an answer is accepted by the
  number of its request, and that the strategy counts a live connection as closed
  only after too many failures (`HeardOrFailing`). Each is proved of its own
  specification, and `TemplatesSafe` of the one that the run checks.
* `Upstream_proofs`, of pool strategies: `ResultOnce` and `DeletedReleased`, from
  `FailoverInv`.
  Either every client is in use (`Live`) or the strategy was deleted and every client
  is released or waits for its socket (`Gone`): a deleted client does nothing but close.
  `DeletedReleased` is not inductive without it, as a client that says it is closing
  and has no closing socket would be waited for in vain. For `ResultOnce`, what a
  client asks on its socket, and on one that was replaced, was sent (`Asked`), and what it
  expects is not answered yet (`Open`). Each operation of `StratumClient` has a
  lemma that it keeps a client in use.
* `Clients_proofs`, of the verifier's client: `VerifierTypeOK` and `QueueExact` (`OwnerCountExact` and
  `QueueBounded`), for every setting of the limits. The invariant is that ids are
  below `nextId`, so that no admitted request replaces another, and that the
  counts are those of finite sets; `ErasedCounts`, `CancelledCounts` and
  `AdmittedCounts` are the lemmas on how the queue changes.

  `RequestedIsAwaited` and `ReadyIsBacked` follow from `WireOK`: each control has the
  one frame of its id, for the same seed (`MatchOK`); and of each seed of a live
  connection (`SeedsOK`), a requested one has a control newer than every release on
  the wire, and a reply to an older preparation comes only while a newer one is on
  its way or every release was before it (`LateOK`). Without the order of releases,
  the release of an earlier use could take the dataset that a reply just reported.
* `Miner_proofs`: `OneAnswer`, from `RequestsInv`: a share in the verifier and the
  request it is of name the same miner and job, no two shares are of one request and
  none is also in flight (`RequestsOK`), and a request is owed an answer exactly when
  it has none and its miner is connected (`Answering`). `MinersOK` adds what the
  state of a connection can be: tokens of its jobs are drawn and distinct, and only
  a client with a source has a snapshot deferred. The fold of a template over its
  subscribers is unfolded by induction over subsets (`Delivery`, `DeliveryParts`).
  And `BucketForEligibleJob`, for owners whose keys are not 0 (the first key is 0,
  run `miner_first_key`, section 6: the theorem states what holds without it),
  from `BucketsInv`: the clients of one source have one id, and the jobs a mapper
  keeps are of a client that is still on their source or of a retired one
  (`SourcesOK`), so that a client that connects again keeps no job of another live
  source; the cache references the heights of every job in use and no retired source
  (`References`). What the operations of the cache do to references comes from the
  lemmas of `GlobalShareCache_proofs`, whose invariant holds of the cache the
  connections share (`CP`). And `NoLeakedReservation`, for every key, from `Records`:
  a share in the verifier holds a reservation of the identity its request claims
  (`HoldsOwn`), and every record of the cache is such a reservation or was kept for a
  request that went to the daemon or was answered for good (`Claims`, `KeptFor`).
  `RecordsStep` reduces each step to what it adds to the cache and which shares it
  ends; that closing a connection releases all of its shares is the second induction
  over a fold (`DestroyedDropped`).
  And `ReplayRefused` and `NoWorkCreditedTwice`, for owners whose keys are not 0 and
  sources whose height never falls (`~ AllowReorg`), from `WorkInv`. A request is
  relied upon (`Relied`) while its share is with the verifier or a daemon, or once
  it was accepted. `Recorded`: the cache has the record of such a request as long as
  its job is in use, and a job that is not in use never comes back into use (tokens
  only grow, and so does the height of the miner's last job). `HeightsOK` is what
  makes the last part inductive: no miner is ahead of its sources, and a snapshot
  that was deferred is the latest. `Distinct`: no two requests that are relied upon
  have the same key. `CreditsInv`: what was credited for a share is such a request,
  answered OK, and nothing is credited twice. The parts need each other: a second
  credit is excluded because the reservation of the computed identity is refused,
  which takes `Recorded`; a record is only released with the request that claims it,
  which takes `Distinct` and `Records`. `QuietWork` shows that jobs and templates
  keep the records of the jobs that remain in use, `RecordedResult`,
  `RecordedComplete`, `RecordedSubmit`, `RecordedDisconnect` and `RecordedClose` treat
  one handler each. The heights have to be assumed: with three templates, three
  remembered jobs and `AllowReorg = TRUE`, TLC violates both properties (section 6).
  Key 0 is excluded because `References` fails for it; TLC has found no replay that
  the first connection gets through.
* `Splitters_proofs`: `WorkDisjoint`, `SharesRouted`, `MappersMatchMiners`,
  `CountsExact`, `MinersAccounted` and `MinersServed` of the specification of all
  modes. One part runs at a time, so `SplittersInv` is the conjunction of the
  parts' invariants, each with a step lemma of its own:
  - `NonceInv`, with theorems of its own for `NonceSpec`, in three parts.
    `PlaceInv`: a byte of a mapper belongs to one connected miner, and mappers that
    gc suspended or deleted have none. `WorkInv`: a byte whose range of the current
    job is out is in use or dead until the next job, and a job is the current one
    of at most one mapper; disjointness is not inductive without it, as a byte that
    became free within a job would be given out twice. `RouteInv`: the job for which
    a mapper accepts shares came from the client that its shares go to, unless it
    was restored after a donation, and a result and the request filed under its
    sequence are of the same share.
  - `ExtraInv`: the extra nonces out for a job are below the counter
    (`XWorkKept`), and a saved job has not been handed out, which is what makes it
    safe to start the counter again when it comes back.
  - `DonateInv`: a routed miner has its mapper until it is removed, also while it
    is being closed, which `MapperPerMiner` does not mention and needs.
  - `SimpleInv`: a miner and its mapper know each other at every listener of a
    nested event (`Mapped`, `MappersAgree`); a mapper's job is its own
    (`SimpleJobs`), and one that may be reused without a new job was sent to nobody
    (`SimpleWork`); a mapper with a candidate pending is not given to another miner
    (`SimpleRequests`). `CountsExact` follows by comparing cardinalities of finite
    sets at each event, with the overwritten close events as a set disjoint from
    the open connections.
  - `ConnInv`, of the connections, is proved in `MinerConnections_proofs`.
* `MinerConnections_proofs`: `ConnInv`, from which `MinersAccounted` and `MinersServed`
  follow. `MinersPart` says what a connection is in each state: before the login it
  has no name and no mapper, after it the bytes came plain or through TLS, never
  plain on a strict port, and the difficulty respects the floor. `MinersServed` is
  not inductive without it: nothing else forbids a strict port to continue plain
  after the login. `CountsPart` has the counters. `TablePart`: the three tables of
  `Workers` agree, names and workers are one to one, every connection that counts
  has an entry, and the connections of a worker are the cardinality of its
  `Holders`; the one-to-one part is what a login of a known name and a close need.
  `SumsPart`: what `Workers` adds up is at most what `Stats` does. The module first
  proves that `SumFunction` does not depend on the order in which `CHOOSE` takes the
  elements (`SumAny`) and changes by what one of its values changes (`SumChanged`,
  `SumExtended`), by induction over the sizes of subsets of a finite set, written
  with `LeastNumber` instead of the induction theorems of the library.
* `Services_proofs`: `LimitsExact` and `ConfigurationGuarded` of the specification
  of all parts, `CacheExact` and `NoRecordLost` with it (a step of the composition is
  one of the cache's or leaves it alone), `ListenerToldOnce` of `MessagesExact`, and for
  proxies that do not start at the same time `PathKept` of `MessagesExact` and the whole of
  `StreamFaithful`. `WorkCounts` is proved for `~TaggedExtra`, which leaves out one
  setting: extra nonces for an unsigned coinbase with a view tag, where the block that
  is submitted is another one (the run `block_tags`). `ServicesInv` is the
  conjunction of the invariants of the parts, but for `SocketInv` and `BlockInv`,
  which need these hypotheses:
  - `Capacity`, beside `IInv`: the sets that the limits count are finite and within
    them. What counts a set by the keys in the index needs the index to be exact.
  - `BudgetInv`: for every age, a window has as many entries younger than it as
    candidates of its kind (`Matches`), older entries in front. The property is about
    the age of a whole window only and is not inductive: the next tick of the clock
    makes the entries of another age the oldest. `Expired`, `Aged` and the lemmas about
    `Members` count candidates by bijections; the entries popped from the front are
    the old ones because the ages do not rise along a window.
  - `TlsInv`: files that exist are one pair unless an attempt to write them failed or was
    cut off, what is named in each state of the start comes from the document, and files
    that were found in use are still those that were found.
  - `StartInv`: the chain and its sources have the same length, a default file is in it
    only behind a chain that was refused (`ChainOK`), with a file that was chosen in
    a way that is searched for there is none, and what runs was read from the chain and
    valid. That a refused chain is a prefix of the one that runs is `ChainGrows`.
  - `HttpInv`: what is known of each fetch and each connection in each of its states
    (`FetchOK`, `ConnOK`), in particular who still has to be told and whether the
    writes that end a connection are under way.
  - `SocketInv`: one proxy is up, and the path is its socket from the time it bound it.
  - `LiveInv`: what a subscriber has been sent are the consecutive rows since it was
    accepted, its pending bytes are the sum of the writes under way and within the
    limit, and `clients` are the open connections. For a miner it relates the rows that
    were held back, the login and the jobs the stream told: `JobsFollowLogin` is not
    inductive without the held rows, which come out after the login in one step.
  - `LogInv`: every line was said once, the lines kept in memory and those written are
    in the order in which they were said, and the places of written lines neither
    overlap nor reach beyond the position of the next write and the end of the file,
    however much of each was written.
  - `TargetsInv`: the product of a job's target and difficulty is at most a word, and what
    the miner was told is what `setJob` makes of them. A result below a target with the
    lower half cut off and expanded again has at least the difficulty that is asked.
* `BlockTemplate_proofs`: `BlockIsMined`, from `BlockInv`, for any number of other
  transactions and any tx extra. Of the tree: a level of `calculateMerkleTreeHash`
  and the row of `tree_hash` at that height, for blocks that differ in the coinbase
  only, are the same but for one place, and climbing the branch so far from the other
  coinbase leads to what is there (`LevelOK`, `RowsMatch`); so the climb ends in the
  root of the other block (`RootsAgree`). Of
  the coinbase: it is changed in place for one miner after the other, so `PrefixOK` says
  what can differ from the template's after any of them; what `setJob` makes of it does
  not depend on the miners before (`MinerTxIs`) and is what `submit` makes of the job's
  own block (`FinalIs`). `BlockInv` adds that every job that was remembered names
  its context and the root of the block that `submit` would make of it (`ToldOK`).

The theorems hold for any number of miners, bytes, mappers, pools, jobs and
shares; the runs of section 3 are small instances of the same formulas.

Only model-checked: everything temporal under fairness, which is out of the
prover's reach, and of `MessagesExact` the lines and frames of a stream and the chain
of lookups, which are a matter of induction over data.

## 5. Not modelled, and why

* **Cryptography and vendored code**: curve arithmetic, hash functions, tables,
  rapidjson, llhttp. TLC cannot enumerate their inputs.
* **Clients that are not built**: `EthStratumClient` and `AutoClient` need
  `WITH_KAWPOW` or `WITH_GHOSTRIDER`; the benchmark classes are not compiled;
  `NetworkState` has no user in the proxy.
* **Formatting**: the text of log lines, console, printed reports, API documents, fields of event
  rows, and the windows over which hashrates are averaged.
* **The bytes of TLS, SOCKS5 and HTTP**: an outcome each. What OpenSSL makes of its
  options is not modelled beyond which certificate and which versions it is given.
* **Reload.** `Base::reload` and `onFileChanged` (`Base.cpp:278`, `:326`) refuse and
  the API answers 403 to a new configuration, so a configuration is never
  replaced and the pending strategies of mappers are never made.
* **The event dashboard**, a separate program.

Time is abstracted everywhere: which of several timers has run out is a choice,
restricted only where the order follows from equal timeouts; `MinerConnections`
and `CandidateBudget`, where deadlines are the matter, count ticks. Widths of
integers do not matter: every counter that could wrap is 64 bits wide and grows
by one for each request (for `TickingCounter` see section 6).

## 6. Findings

* `miner_first_key`: connections are numbered from 0 (`Storage.h:82`) and the
  cache takes owner 0 for none (`GlobalShareCache.cpp:196`). The first
  connection of the process holds no reference to a bucket, and loses the bucket
  of a job it may still submit when a template advances the source while its own
  new job waits for a seed. All other runs number connections from 1.
* `event_overwrite`: with `reuse-timeout` 0 a miner of a daemon that leaves while
  its candidate is pending stops the mapper during the delivery of its close
  event; the accept event of the candidate is built over the close event and
  refused (`Events.cpp:39`). The result is not published and the counts stay one
  too high.
* `failover_refused`: a login that the pool refuses with an error that is not
  critical leaves the client connected, without a timeout, a retry or a backup,
  until the pool closes the connection: `Client.cpp:836` compares `m_id`, the
  number of the client, where the number of the request is meant, and
  `startTimeout` clears the timeout of the response.
* `block_tags`: in extra nonce mode, with outputs that have a view tag and no miner
  signature, the miner hashes a coinbase with view tag 0 (`Miner.cpp:239`) and
  the block that is submitted has the daemon's.
* `config_option`: `Base.cpp:130` looks for a chosen file as `--config`, `-c` and `-cFILE`.
  `getopt_long` also takes `--config=FILE`, which is how `README.md:95` and the help
  write it, abbreviations such as `--conf FILE` and flags before it such as `-Bc FILE`.
  With one of these a chosen file that cannot be read or fails its checks is replaced by
  `config.json` or one of the other default files, although `doc/DAEMON_MINING.md:153`
  says that the proxy exits.

Observed, and not made a run: no document denies them outright, or the run would
ask no other question than an existing one.

* Heights h, h+1, h make the first job eligible again with its records gone, so a
  credited share is credited again (`Miner.cpp:372`); `miner_shares` has heights
  that do not go down, and so do the theorems about replays. When the verifier
  refuses a candidate over its budget, the reservation is released with the `PendingShare` that was not sent
  (`Miner.cpp:1101`), and the emergency path submits without one.
* With a lagging RPC a follow-up check that still shows the old tip ends the
  pursuit of a notification (`DaemonTemplateSource.cpp:581`); the next poll
  finds the tip. This is why `NotificationPursued` asks for a prompt RPC.
* A seed that is released and added again while its first `prepare_seed` is
  unanswered is marked ready by that answer, before its release and the second
  preparation took effect in the sidecar (`RandomXVerifier.cpp:780`). A request
  sent in between finds no dataset; the second answer mends it.
  `ReadyIsBacked` therefore allows a preparation that is still under way.
* A custom difficulty just below a job's can be rounded to a target that is harder than
  the job's own, where both have the same upper half (`Miner.cpp:218`); the miner then
  keeps a result between the two for itself. `NoWorkWasted` says that it happens
  nowhere else.
* A start that is cut off while it writes `cert.pem` over an older one leaves both files
  in place, so they are never made again (`TlsGen.cpp:83`), and TLS stays off until
  they are removed. The same follows from a full disk: the result of `fclose` is not
  looked at (`TlsGen.cpp:134`, `:146`), so a file may be empty or torn although `write`
  returned true, and what exists at the next start is taken. Names of TLS versions that are not known are passed over, and if
  none is known all versions are offered (`TlsConfig.cpp:161`).
* Lines that a `FileLogWriter` keeps when it is destroyed are not written
  (`FileLogWriter.cpp:53`), so what is logged last, in the callback that ends the loop,
  does not reach the file.
* `Job::setTarget` divides by half targets and does not look for zero
  (`Job.cpp:122`); a pool that sends one is not modelled.
* The budget of a miner starts anew when it reconnects, the one for all does not;
  `stop()` keeps the emergency windows.
* A reused stratum mapper answers its new miner for a share of the one before. A
  donation connection that is lost pauses its nonce mapper.
* A job that `DonateStrategy::save` keeps (`DonateStrategy.cpp:90`) is dropped only by
  the tick that ends a donation (`:112`), not when the donation connection is lost
  (`:135`). Meanwhile the user's pool may have reconnected or failed over, so the
  mapper can give its miners a job of an earlier connection (`NonceMapper.cpp:152`)
  and send their shares to the new one: `Client::submit` compares the client of a
  result only outside the proxy (`Client.cpp:179`). The pool refuses them. The run
  reaches this in extra nonce mode; in nicehash mode it takes four sessions, more
  than the run has, and the theorem covers it.
* `Workers::m_miners` is never erased, so it grows by one entry for each miner;
  a failed accept leaves its entry in the storage (`Server.cpp:95` deletes the
  `Miner`). After the end of a stream a connection waits for the callback of
  `uv_shutdown` only; requests with an unknown method do not move the deadline;
  `TickingCounter<uint32_t>` truncates difficulties from 2^32; rejected shares of
  a donation count in `Worker::rejected` but not in `Stats::rejected`.
* Self-select: an agreement of the pool that comes late gives the strategy the
  newer job without its template; a template request without a timeout whose
  lookup fails is never answered; `deleteLater` deletes the inner client only.
* HTTP: an error of JSON-RPC is written twice; an answer that is ended by the end
  of the stream is reported as an error; `closeAll` closes requests to daemons
  too; an API port that could not be opened is not tried again.
* Start: the keys of a default file that was refused stay in the chain.
* Two proxies that start at the same time on the same path: the second may remove
  the socket of the first (`LiveEventStream.cpp:663`); `StartsOverlap` excludes it.
* A listener that looks up the host it was just told about, from within the call,
  changes the queue that is being walked (`DnsUvBackend.cpp:105`). Two pools on one host,
  an ordinary failover list, come to it: when the lookup for the first fails, the
  strategy tries the second. The lookup that is made then goes over the same
  queue, whose first listener is called again, and clears the queue under the outer
  loop. `DnsAssumption` excludes it, and with it that part of the hazard.
* A log line of which the file system took only a part is left so (`FileLogWriter.cpp:30`),
  and the next one goes to its own place behind it.

## 7. Plan

1. Done: share cache, daemon client with its abstract specification, template
   source, verifier client, and the miners composed with the cache; invariants
   of the first four proved.
2. Done: the splitters with the delivery of events, the life of a connection and
   its counters, pool strategies with the stratum client, self-select, candidate
   budgets, the block that is mined, targets, lines and frames, log files, TLS, DNS, HTTP and API, the event stream
   and its socket, configuration and start.
3. Done: proofs of `RequestedIsAwaited`, `ReadyIsBacked`, `TemplateMatchesJob`,
   `FollowsSource`, of the safety properties of `Miner` (`OneAnswer`,
   `BucketForEligibleJob`, `NoLeakedReservation`, `ReplayRefused`, `NoWorkCreditedTwice`),
   and of the properties of the splitters in every mode.
4. Done: proofs of `ResultOnce` and `DeletedReleased` of `FailoverStrategy`, of
   `MinersAccounted` and `MinersServed` of `MinerConnections`, and of `LimitsExact`,
   `ConfigurationGuarded`, `StreamFaithful` and `WorkCounts` of `Services`.

## 8. Running

    tlc -config MCClients.cfg MCClients
    tlapm Clients_proofs.tla

Each run takes less than three minutes on two workers.
