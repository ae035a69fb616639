-------------------------- MODULE SelfSelectClient --------------------------
(***************************************************************************)
(* SelfSelectClient: a pool that lets the miner choose the block.  A job   *)
(* of the pool holds a wallet and an extra nonce; the template is fetched  *)
(* from a daemon with them, shown to the pool, and the job is given to the *)
(* strategy once the pool agrees.                                          *)
(*                                                                         *)
(* Requests to the daemon are numbered by m_sequence and only the answer   *)
(* to the latest is used.  What matters of a number is whether it is the   *)
(* latest, and of the job that a request was made for whether it is still  *)
(* the current one.  Requests and callbacks that are alike are one.        *)
(***************************************************************************)
EXTENDS Integers, FiniteSets

CONSTANTS
    SelfRetries,        \* m_retries
    SubmitToOrigin      \* m_submitToOrigin

ASSUME SelfSelectAssumption == SelfRetries \in Nat /\ SubmitToOrigin \in BOOLEAN

VARIABLES
    self,       \* m_state, m_active, m_failures; tpl: the template in m_job
    daemon,     \* requests to the daemon that are not answered
    shown,      \* block_template requests that the pool has not answered
    told        \* what the strategy was told last; bad: a job was given to it
                \* while it was told that the client is closed; served:
                \* the template of the last job given, "nojob" if none yet

selfVars == <<self, daemon, shown, told>>

\* "none": m_job has no job, or no template yet; "mine": a template made with
\* the wallet and extra nonce of m_job; "other": with those of another job.
Templates == {"nojob", "none", "mine", "other"}

Request(kd) == [kind |-> kd, latest |-> TRUE, mine |-> TRUE]

\* Failures count while they can make a difference.
Capped(n) == IF n > SelfRetries + 1 THEN SelfRetries + 1 ELSE n

\* setState, of the client's record.
setSelfState(c, st) ==
    IF c.st = st THEN c
    ELSE CASE st = "idle" -> [c EXCEPT !.st = st, !.failures = 0]
           [] st = "wait" -> [c EXCEPT !.st = st]
           [] st = "retry" -> [c EXCEPT !.st = st, !.failures = Capped(c.failures + 1)]

\* The strategy hears of the failures when there were too many.
tellRetry(c) ==
    IF c.st # "retry" /\ c.failures > SelfRetries THEN [told EXCEPT !.up = FALSE] ELSE told

\* Mutant: a failure is only counted.
retrySelfNever == self' = [self EXCEPT !.failures = Capped(self.failures + 1)] /\ UNCHANGED told

\* retry.
retrySelf == self' = setSelfState(self, "retry") /\ told' = tellRetry(self)

\* getBlockTemplate: the requests before it are not the latest any more.
getBlockTemplate(reqs) ==
    {[r EXCEPT !.latest = FALSE] : r \in reqs} \cup {Request("getblocktemplate")}

(***************************************************************************)
(* Events of the pool's connection                                         *)
(***************************************************************************)

\* onJobReceived: the requests before are for another job.
receiveJob(c) == [setSelfState(c, "wait") EXCEPT !.tpl = "none"]

forgetJob(reqs) == {[r EXCEPT !.mine = FALSE] : r \in reqs}

\* onLoginSuccess, and onJobReceived with the job of the login.
PoolLogin ==
    /\ ~self.active /\ ~self.closing
    /\ self' = receiveJob([setSelfState(self, "idle") EXCEPT !.active = TRUE])
    /\ told' = [told EXCEPT !.up = TRUE, !.served = "nojob"]
    /\ daemon' = getBlockTemplate(forgetJob(daemon))
    /\ UNCHANGED shown

\* onClose: what was asked on the connection is lost.
PoolClose ==
    /\ self.active \/ self.closing
    /\ self' = [setSelfState(self, "idle") EXCEPT !.active = FALSE, !.closing = FALSE]
    /\ told' = [told EXCEPT !.up = FALSE]
    /\ shown' = {}
    /\ UNCHANGED daemon

PoolJob ==
    /\ self.active /\ ~self.closing
    /\ self' = receiveJob(self)
    /\ daemon' = getBlockTemplate(forgetJob(daemon))
    /\ shown' = {FALSE : b \in shown}
    /\ told' = [told EXCEPT !.served = "nojob"]

\* submit to the origin daemon too: its request has the number that the next
\* getblocktemplate gets.
Submit ==
    /\ self.active /\ self.tpl \in {"mine", "other"}
    /\ IF SubmitToOrigin
       THEN /\ self' = setSelfState(self, "wait")
            /\ \E enough \in BOOLEAN :
                 daemon' = getBlockTemplate(daemon) \cup (IF enough THEN {Request("submitblock")} ELSE {})
       ELSE UNCHANGED <<self, daemon>>
    /\ UNCHANGED <<shown, told>>

\* tick, when the retry pause is over.
Retry ==
    /\ self.st = "retry"
    /\ self' = setSelfState(self, "wait")
    /\ daemon' = getBlockTemplate(daemon)
    /\ UNCHANGED <<shown, told>>

(***************************************************************************)
(* onHttpData                                                              *)
(***************************************************************************)

\* The status is not 200 or the body is not JSON, whatever request it is for.
DaemonFails(r) ==
    /\ r \in daemon
    /\ daemon' = daemon \ {r}
    /\ retrySelf
    /\ UNCHANGED shown

\* Mutant: the answer to any request is used.
isLatestAny(r) == TRUE

\* m_sequence - id = 1.
isLatest(r) == r.latest

\* An answer to an older request.
DaemonLate(r) ==
    /\ r \in daemon /\ ~isLatest(r)
    /\ daemon' = daemon \ {r}
    /\ UNCHANGED <<self, shown, told>>

\* parseResponse: the answer has no template, as that to submitblock never has.
DaemonRefuses(r) ==
    /\ r \in daemon /\ isLatest(r)
    /\ daemon' = daemon \ {r}
    /\ retrySelf
    /\ UNCHANGED shown

\* parseResponse and submitBlockTemplate: sent is whether the connection to the
\* pool takes the request; if not, it is closing.
DaemonTemplate(r, sent) ==
    /\ r \in daemon /\ isLatest(r) /\ r.kind = "getblocktemplate"
    /\ daemon' = daemon \ {r}
    /\ (~self.active \/ self.closing) => ~sent
    /\ self' = [self EXCEPT !.tpl = IF r.mine THEN "mine" ELSE "other",
                            !.closing = self.closing \/ (self.active /\ ~sent)]
    /\ shown' = IF sent THEN shown \cup {r.mine} ELSE shown
    /\ UNCHANGED told

(***************************************************************************)
(* The pool answers to block_template                                      *)
(***************************************************************************)

PoolRefuses(b) ==
    /\ b \in shown
    /\ shown' = shown \ {b}
    /\ retrySelf
    /\ UNCHANGED daemon

\* Mutant: the strategy is not told that the client is back.
backQuiet(c) == told.up

\* onLoginSuccess after too many failures.
back(c) == told.up \/ c.failures > SelfRetries

\* The job is given to the strategy, which was told that the client is closed
\* after too many failures.
PoolAgrees(b) ==
    /\ b \in shown
    /\ shown' = shown \ {b}
    /\ self' = IF self.active THEN setSelfState(self, "idle") ELSE self
    /\ told' = IF self.active
               THEN [up |-> back(self), bad |-> told.bad \/ ~back(self),
                     served |-> self.tpl]
               ELSE told
    /\ UNCHANGED daemon

SelfInit ==
    /\ self = [st |-> "idle", active |-> FALSE, closing |-> FALSE, failures |-> 0, tpl |-> "nojob"]
    /\ daemon = {} /\ shown = {}
    /\ told = [up |-> FALSE, bad |-> FALSE, served |-> "nojob"]

SelfNext ==
    \/ PoolLogin \/ PoolClose \/ PoolJob \/ Submit \/ Retry
    \/ \E r \in daemon :
         DaemonFails(r) \/ DaemonLate(r) \/ DaemonRefuses(r) \/ \E sent \in BOOLEAN : DaemonTemplate(r, sent)
    \/ \E b \in shown : PoolRefuses(b) \/ PoolAgrees(b)

SelfSpec == SelfInit /\ [][SelfNext]_selfVars

\* Timers expire, a request that failed to be sent closes the connection, and
\* a daemon and a pool that are asked again and again answer at last.
SelfFairness ==
    /\ WF_selfVars(Retry)
    /\ WF_selfVars(self.closing /\ PoolClose)
    /\ WF_selfVars(\E r \in daemon : r.latest /\ r.kind = "getblocktemplate" /\ (DaemonFails(r) \/ DaemonRefuses(r) \/ DaemonTemplate(r, TRUE)))
    /\ SF_selfVars(\E r \in daemon : DaemonTemplate(r, TRUE))
    /\ WF_selfVars(PoolRefuses(TRUE) \/ PoolAgrees(TRUE))
    /\ SF_selfVars(PoolAgrees(TRUE))

(***************************************************************************)
(* Properties                                                              *)
(***************************************************************************)

\* The template in a job was made with the wallet and the extra nonce of that
\* job, never those of the job before whose answer came late; and a job is
\* given only to a strategy that counts the client as connected
\* (SelfSelectClient::onHttpData, setState, submitBlockTemplate).
TemplateMatchesJob == self.tpl # "other" /\ ~told.bad

\* A job of the pool is given to the strategy unless the connection ends: with
\* its template, or without one when the pool agrees to the template of the
\* job before at that moment (submitBlockTemplate, retry, tick).
JobPursued ==
    (self.active /\ self.tpl = "none") ~> (~self.active \/ told.served \in {"mine", "none"})
=============================================================================
