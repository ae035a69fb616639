------------------------------ MODULE Services ------------------------------
(***************************************************************************)
(* The parts of the process that share no state with each other: the cache *)
(* of shares, the budgets of candidates, the blocks of jobs, targets, the  *)
(* lines and frames of connections, the event stream with its socket, host *)
(* lookups, HTTP, log files, the TLS context and the start of the program. *)
(* One of them runs at a time here; the others keep their first state.     *)
(***************************************************************************)
EXTENDS GlobalShareCache, CandidateBudget, BlockTemplate, Targets, LineReader, FrameReader,
        LiveEventStream, LiveSocket, Dns, Http, LogFile, TlsContext, Startup

VARIABLE part   \* the one that runs

cacheVars == vars
wireVars == <<lineVars, frameVars, dnsVars, httpVars>>
outVars == <<liveVars, socketVars, logVars>>
hostVars == <<tlsVars, startVars>>
servicesVars ==
    <<part, cacheVars, budgetVars, blockVars, targetVars, wireVars, outVars, hostVars>>

(***************************************************************************)
(* One first state of the parts that have many.                            *)
(***************************************************************************)

BudgetIdle ==
    /\ limits = [own |-> 0, all |-> 0, emergency |-> 0]
    /\ windows = NoWindows /\ verifying = {} /\ passed = <<>>

BlockIdle ==
    /\ shape = [signed |-> FALSE, spendKey |-> FALSE, output |-> "plain", others |-> 0, extra |-> <<>>, extraNonce |-> FALSE]
    /\ contexts = <<>> /\ storage = [job |-> NoJob, next |-> 0] /\ keys = 0
    /\ work = [m \in BMiners |-> Gone]
    /\ block = [sent |-> Template(0), root |-> Leaf(0), id |-> 0]

SocketIdle == file = "none" /\ proxy = [p \in Proxies |-> Off]

HttpIdle ==
    /\ api = [token |-> FALSE, restricted |-> TRUE, up |-> FALSE]
    /\ fetches = [f \in Fetches |-> NewFetch] /\ conns = [c \in Conns |-> NewConn]

TlsIdle == files = [cert |-> NoFile, key |-> NoFile] /\ pairs = 0 /\ tls = NewTls /\ unfinished = FALSE

StartupIdle == host = NoHost /\ boot = NewBoot

ServicesInit ==
    /\ part \in {"cache", "budget", "block", "targets", "lines", "frames", "dns", "http", "live", "socket", "log",
                 "tls", "startup"}
    /\ Init /\ LineInit /\ LiveInit /\ DnsInit
    /\ IF part = "budget" THEN BudgetInit ELSE BudgetIdle
    /\ IF part = "block" THEN BlockInit ELSE BlockIdle
    /\ IF part = "targets" THEN TargetsInit ELSE TargetsIdle
    /\ IF part = "frames" THEN FrameInit ELSE FrameIdle
    /\ IF part = "http" THEN HttpInit ELSE HttpIdle
    /\ IF part = "socket" THEN SocketInit ELSE SocketIdle
    /\ IF part = "log" THEN LogInit ELSE LogIdle
    /\ IF part = "tls" THEN TlsInit ELSE TlsIdle
    /\ IF part = "startup" THEN StartupInit ELSE StartupIdle

ServicesNext ==
    /\ UNCHANGED part
    /\ \/ part = "cache" /\ Next
            /\ UNCHANGED <<budgetVars, blockVars, targetVars, wireVars, outVars, hostVars>>
       \/ part = "budget" /\ BudgetNext
            /\ UNCHANGED <<cacheVars, blockVars, targetVars, wireVars, outVars, hostVars>>
       \/ part = "block" /\ BlockNext
            /\ UNCHANGED <<cacheVars, budgetVars, targetVars, wireVars, outVars, hostVars>>
       \/ part = "targets" /\ TargetsNext
            /\ UNCHANGED <<cacheVars, budgetVars, blockVars, wireVars, outVars, hostVars>>
       \/ /\ UNCHANGED <<cacheVars, budgetVars, blockVars, targetVars>>
          /\ \/ /\ UNCHANGED <<outVars, hostVars>>
                /\ \/ part = "lines" /\ LineNext /\ UNCHANGED <<frameVars, dnsVars, httpVars>>
                   \/ part = "frames" /\ FrameNext /\ UNCHANGED <<lineVars, dnsVars, httpVars>>
                   \/ part = "dns" /\ DnsNext /\ UNCHANGED <<lineVars, frameVars, httpVars>>
                   \/ part = "http" /\ HttpNext /\ UNCHANGED <<lineVars, frameVars, dnsVars>>
             \/ /\ UNCHANGED <<wireVars, hostVars>>
                /\ \/ part = "live" /\ LiveNext /\ UNCHANGED <<socketVars, logVars>>
                   \/ part = "socket" /\ SocketNext /\ UNCHANGED <<liveVars, logVars>>
                   \/ part = "log" /\ LogNext /\ UNCHANGED <<liveVars, socketVars>>
             \/ /\ UNCHANGED <<wireVars, outVars>>
                /\ \/ part = "tls" /\ TlsNext /\ UNCHANGED startVars
                   \/ part = "startup" /\ StartupNext /\ UNCHANGED tlsVars

ServicesSpec == ServicesInit /\ [][ServicesNext]_servicesVars

(***************************************************************************)
(* Properties, each of the parts that it is about.                         *)
(***************************************************************************)

\* What may be kept and what may pass is limited, and the limits are used: the
\* records of GlobalShareCache, the candidates of RandomXVerifier.
LimitsExact == (part = "cache" => WithinCapacity) /\ (part = "budget" => BudgetsExact)

\* What was mined counts: the block that is sent to the daemon is the one the
\* miner worked on (Job, DaemonClient::submit), and a result that reaches the
\* target a miner was told is not refused (Miner::setJob, JobResult).
WorkCounts == (part = "block" => BlockIsMined) /\ (part = "targets" => NoWorkWasted)

\* What arrives is handed on whole, in order and once: lines by LineReader,
\* frames by RandomXVerifier and DaemonTemplateSource, the result of a request
\* by HttpContext, the addresses of a host by DnsUvBackend.
MessagesExact ==
    /\ part = "lines" => FramingExact
    /\ part = "frames" => FramesExact
    /\ part = "http" => ListenerToldOnce
    /\ part = "dns" => LookupsAnswered

\* A consumer of the event stream reaches the proxy that runs and misses no
\* row, and the rows tell of a miner's login before its jobs
\* (LiveEventStream::broadcast, publishOrdered, prepareSocketPath); log files
\* hold what was logged (FileLogWriter).
StreamFaithful ==
    /\ part = "live" => NoRowSkipped /\ JobsFollowLogin
    /\ part = "socket" => PathKept
    /\ part = "log" => LogsIntact

\* The proxy runs with the configuration that was chosen, its TLS as asked for,
\* and shows it to those who may see it (BasePrivate::load, Config::read,
\* TlsContext::create, Httpd::onHttpData).
ConfigurationGuarded ==
    /\ part = "startup" => ChosenFileDecides
    /\ part = "tls" => TlsAsConfigured
    /\ part = "http" => ApiGuarded
=============================================================================
