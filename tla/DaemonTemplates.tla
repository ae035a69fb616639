-------------------------- MODULE DaemonTemplates --------------------------
(***************************************************************************)
(* Templates come from a daemon in two ways: a DaemonTemplateSource serves *)
(* the miners of a daemon pool, and a SelfSelectClient fetches a template  *)
(* for each job of its pool.  They share no state; one of them runs here.  *)
(***************************************************************************)
EXTENDS DaemonTemplateSource, SelfSelectClient

VARIABLE fetcher    \* which of the two runs

templatesVars == <<fetcher, vars, selfVars>>

\* A pool without a source: as after its shutdown.
NoSource ==
    /\ tip = 1 /\ rpcTip = 1 /\ rpcLags = FALSE
    /\ src = [start(Constructed) EXCEPT !.shutdown = TRUE, !.timer = FALSE]
    /\ zmq = "disconnected" /\ unread = <<>>
    /\ failures = 0 /\ announced = 0 /\ excused = 0

\* Pool::createClient: a daemon pool, or a pool with a self-select URL.
TemplatesInit ==
    /\ SelfInit
    /\ \/ fetcher = "source" /\ Init
       \/ fetcher = "selfselect" /\ NoSource

TemplatesNext ==
    \/ fetcher = "source" /\ Next /\ UNCHANGED <<fetcher, selfVars>>
    \/ fetcher = "selfselect" /\ SelfNext /\ UNCHANGED <<fetcher, vars>>

\* Nothing of the part that does not run is enabled.
TemplatesSpec ==
    TemplatesInit /\ [][TemplatesNext]_templatesVars /\ Fairness /\ SelfFairness
=============================================================================
