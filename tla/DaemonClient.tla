---------------------------- MODULE DaemonClient ----------------------------
(***************************************************************************)
(* One DaemonClient (base/net/stratum/DaemonClient.cpp): it turns daemon   *)
(* templates into private jobs, holding one back while the verifier cannot *)
(* check it, and carries block candidates to the daemon's submitblock with *)
(* bounded retries under new request ids.  The HTTP requests it starts and *)
(* the daemon that answers them, or answers too late, are part of the      *)
(* model; times are abstracted to what they order.                         *)
(***************************************************************************)
EXTENDS Integers, Sequences, FiniteSets

CONSTANTS
    Subs,                   \* block candidates downstream may submit
    BadTemplates,           \* generations no job can be derived from
    UseVerifier,            \* a RandomXVerifier is configured
    kMaxSubmitAttempts,
    kJobHistorySize,        \* job contexts retained, the current one included
    MaxTemplates,           \* bound: templates fetched in a behaviour
    MaxDisconnects          \* bound: disconnects in a behaviour

ASSUME ClientAssumption ==
    /\ IsFiniteSet(Subs)
    /\ UseVerifier \in BOOLEAN
    /\ kMaxSubmitAttempts \in Nat \ {0}
    /\ kJobHistorySize \in Nat \ {0}
    /\ MaxTemplates \in Nat /\ MaxDisconnects \in Nat

VARIABLES
    client,                 \* state, contexts, deferred snapshot and job
    latest,                 \* generation of the source's newest template
    ready,                  \* generations whose seed the verifier has ready
    disconnects,
    pendingSubmissions,     \* request id -> PendingSubmission
    sequence,               \* m_sequence: the next request id
    requests,               \* submitblock requests in flight
    strays,                 \* candidates of requests that outlived their callback
    onchain,                \* candidates the daemon has taken
    sent,                   \* history: attempts made for each candidate
    rows,                   \* history: submit_block_result rows
    answers                 \* history: what downstream was told

templateVars == <<client, latest, ready, disconnects>>
submitVars == <<pendingSubmissions, sequence, requests, strays, sent, rows, answers>>
vars == <<templateVars, submitVars, onchain>>

NoJob == [id |-> 0, generation |-> 0]

\* A client without jobs; jobs counts the job ids drawn so far.
Idle(state, jobs) == [state |-> state, contexts |-> <<>>, pendingSnapshot |-> 0,
                      job |-> NoJob, jobs |-> jobs]

NoCandidate(state) ==
    /\ client = Idle(state, 0)
    /\ latest = 0 /\ ready = {} /\ disconnects = 0
    /\ pendingSubmissions = [i \in {} |-> 0]
    /\ sequence = 1
    /\ requests = {} /\ strays = {} /\ onchain = {}
    /\ sent = [s \in Subs |-> 0]
    /\ rows = [s \in Subs |-> <<>>]
    /\ answers = [s \in Subs |-> <<>>]

Init == NoCandidate("unconnected")

-----------------------------------------------------------------------------
(* Templates and jobs                                                      *)

\* trimContexts keeps the newest and drops contexts past the limit and, from
\* the oldest on, those older than kJobHistoryMs: how many those are is a choice.
trimContexts(contexts) ==
    {SubSeq(contexts, 1, n) :
        n \in {n \in 0..Len(contexts) : n <= kJobHistorySize /\ (contexts # <<>> => n >= 1)}}

isSeedReady(g) == ~ UseVerifier \/ g \in ready

\* installTemplate: a job under a fresh random id becomes the current one.
installTemplate(c, g) ==
    IF g \in BadTemplates
    THEN {c}
    ELSE {[c EXCEPT !.jobs = c.jobs + 1,
                    !.job = [id |-> c.jobs + 1, generation |-> g],
                    !.contexts = ctx,
                    !.state = "connected"] : ctx \in trimContexts(<<c.jobs + 1>> \o c.contexts)}

\* Mutation: a deferred snapshot survives a newer one.
onDaemonTemplate_KeepsDeferred(c, g) ==
    IF c.state \in {"unconnected", "destroyed"}
    THEN {c}
    ELSE IF ~ isSeedReady(g)
    THEN {[c EXCEPT !.pendingSnapshot = g]}
    ELSE installTemplate(c, g)

onDaemonTemplate(c, g) ==
    IF c.state \in {"unconnected", "destroyed"}
    THEN {c}
    ELSE IF ~ isSeedReady(g)
    THEN {[c EXCEPT !.pendingSnapshot = g]}
    ELSE installTemplate([c EXCEPT !.pendingSnapshot = 0], g)

NewTemplate ==
    /\ latest < MaxTemplates
    /\ latest' = latest + 1
    /\ client' \in onDaemonTemplate(client, latest + 1)
    /\ UNCHANGED <<ready, disconnects, submitVars, onchain>>

\* The verifier prepares seeds, often before the template that needs them
\* (next_seed_hash), and loses all of them with its connection.
SeedsChange ==
    /\ UseVerifier
    /\ \/ \E g \in 1..MaxTemplates : g \notin ready /\ ready' = ready \cup {g}
       \/ ready # {} /\ ready' = {}
    /\ UNCHANGED <<client, latest, disconnects, submitVars, onchain>>

\* connect subscribes to the source, which replays its newest template.
Connect ==
    /\ client.state = "unconnected"
    /\ client' \in LET c == [client EXCEPT !.state = "connecting"]
                   IN  IF latest = 0 THEN {c} ELSE onDaemonTemplate(c, latest)
    /\ UNCHANGED <<latest, ready, disconnects, submitVars, onchain>>

\* The first part of tick: the deferred snapshot whose seed became ready.
installDeferred(c) ==
    IF c.pendingSnapshot # 0 /\ UseVerifier /\ isSeedReady(c.pendingSnapshot)
    THEN installTemplate([c EXCEPT !.pendingSnapshot = 0], c.pendingSnapshot)
    ELSE {c}

-----------------------------------------------------------------------------
(* Block candidates                                                        *)

begun(s) == sent[s] > 0 \/ answers[s] # <<>>

newRequest(id, s) == [id |-> id, sub |-> s, verdict |-> "none"]

remove(f, S) == [i \in DOMAIN f \ S |-> f[i]]

submit(s) ==
    \E j \in 1..client.jobs, contexts \in trimContexts(client.contexts) :
        /\ client.state # "destroyed"
        /\ ~ begun(s)
        /\ client' = [client EXCEPT !.contexts = contexts]
        /\ IF \E i \in DOMAIN contexts : contexts[i] = j
           THEN /\ pendingSubmissions' =
                      [i \in DOMAIN pendingSubmissions \cup {sequence} |->
                          IF i = sequence
                          THEN [sub |-> s, attempts |-> 1, hadIndeterminateOutcome |-> FALSE,
                                retryDue |-> FALSE]
                          ELSE pendingSubmissions[i]]
                /\ requests' = requests \cup {newRequest(sequence, s)}
                /\ sequence' = sequence + 1
                /\ sent' = [sent EXCEPT ![s] = 1]
                /\ UNCHANGED <<strays, rows, answers>>
           ELSE /\ answers' = [answers EXCEPT ![s] = <<"refused">>]
                /\ UNCHANGED <<pendingSubmissions, sequence, requests, strays, sent, rows>>
        /\ UNCHANGED <<latest, ready, disconnects, onchain>>

(***************************************************************************)
(* A reply as onHttpData sees it: received says whether a body with this   *)
(* request's id arrived at all, error is the error object and status the   *)
(* result's status field.                                                  *)
(***************************************************************************)
Replies == [received : BOOLEAN,
            error : {"none", "message", "nameless"},
            status : {"OK", "other", "invalid"}]

\* Mutation: a rejection without a message is taken at its word.
parseSubmitResponse_Lenient(reply) ==
    CASE ~ reply.received -> "ambiguous"
      [] reply.received /\ reply.error # "none" -> "rejected"
      [] reply.received /\ reply.error = "none" /\ reply.status = "OK" -> "accepted"
      [] reply.received /\ reply.error = "none" /\ reply.status # "OK" -> "rejected"

classifySubmitResult(st) ==
    CASE st = "OK" -> "accepted"
      [] st = "other" -> "rejected"
      [] st = "invalid" -> "ambiguous"

\* An error object wins over a status, and only an explicit refusal counts as
\* rejected.
parseSubmitResponse(reply) ==
    CASE ~ reply.received -> "ambiguous"
      [] reply.received /\ reply.error = "message" -> "rejected"
      [] reply.received /\ reply.error = "nameless" -> "ambiguous"
      [] reply.received /\ reply.error = "none" -> classifySubmitResult(reply.status)

\* The daemon's side: it says OK of a block it took and gives an explicit
\* refusal of a request it refused; anything else may reach the client whatever
\* it did.
Honest(r, reply) ==
    reply.received =>
        /\ (reply.error = "none" /\ reply.status = "OK") => r.verdict = "accept"
        /\ (reply.error = "message" \/ (reply.error = "none" /\ reply.status = "other"))
              => r.verdict = "reject"

DaemonActs(r) ==
    /\ r.verdict = "none"
    /\ \E v \in {"accept", "reject"} :
          /\ requests' = (requests \ {r}) \cup {[r EXCEPT !.verdict = v]}
          /\ onchain' = IF v = "accept" THEN onchain \cup {r.sub} ELSE onchain
    /\ UNCHANGED <<templateVars, pendingSubmissions, sequence, strays, sent, rows, answers>>

\* The daemon takes a candidate from a request nobody waits for any more.
DaemonActsLate(s) ==
    /\ s \in strays
    /\ onchain' = onchain \cup {s}
    /\ UNCHANGED <<templateVars, submitVars>>

\* The callback of these requests is gone, but those the daemon has not acted on
\* yet can still reach it.
abandoned(S) == strays \cup {r.sub : r \in {q \in S : q.verdict = "none"}}

(***************************************************************************)
(* finalizeSubmission for the requests ids: the telemetry row, and the one *)
(* answer downstream, through handleSubmitResponse and onResultAccepted.   *)
(***************************************************************************)
told(h, ids, outcome) ==
    [s \in Subs |-> IF \E i \in ids : pendingSubmissions[i].sub = s
                    THEN Append(h[s], outcome) ELSE h[s]]

finalizeSubmission(ids, outcome) ==
    /\ pendingSubmissions' = remove(pendingSubmissions, ids)
    /\ rows' = told(rows, ids, outcome)
    /\ answers' = told(answers, ids, outcome)

hasRemainingSubmitAttempts(n) == n < kMaxSubmitAttempts

\* Mutation: only the last response decides.
terminalSubmitOutcome_Last(outcome, indeterminate) == outcome

terminalSubmitOutcome(outcome, indeterminate) ==
    IF indeterminate THEN "ambiguous" ELSE outcome

\* Mutation: a retry is scheduled that retrySubmission will refuse to send.
retryOrFinalizeSubmission_OneMore(id, outcome) ==
    LET p == pendingSubmissions[id]
        indeterminate == p.hadIndeterminateOutcome \/ outcome = "ambiguous"
    IN  IF p.attempts <= kMaxSubmitAttempts
        THEN /\ pendingSubmissions' =
                   [pendingSubmissions EXCEPT ![id] =
                       [p EXCEPT !.hadIndeterminateOutcome = indeterminate, !.retryDue = TRUE]]
             /\ UNCHANGED <<rows, answers>>
        ELSE finalizeSubmission({id}, terminalSubmitOutcome(outcome, indeterminate))

retryOrFinalizeSubmission(id, outcome) ==
    LET p == pendingSubmissions[id]
        indeterminate == p.hadIndeterminateOutcome \/ outcome = "ambiguous"
    IN  IF hasRemainingSubmitAttempts(p.attempts)
        THEN /\ pendingSubmissions' =
                   [pendingSubmissions EXCEPT ![id] =
                       [p EXCEPT !.hadIndeterminateOutcome = indeterminate, !.retryDue = TRUE]]
             /\ UNCHANGED <<rows, answers>>
        ELSE finalizeSubmission({id}, terminalSubmitOutcome(outcome, indeterminate))

\* A request ends, by a reply or by its timeout: exactly one callback.
onHttpData(r) ==
    /\ requests' = requests \ {r}
    /\ strays' = abandoned({r})
    /\ \E reply \in Replies :
          /\ Honest(r, reply)
          /\ LET outcome == parseSubmitResponse(reply)
             IN  IF r.id \notin DOMAIN pendingSubmissions
                 THEN UNCHANGED <<pendingSubmissions, rows, answers>>
                 ELSE IF outcome = "accepted"
                 THEN finalizeSubmission({r.id}, "accepted")
                 ELSE retryOrFinalizeSubmission(r.id, outcome)
    /\ UNCHANGED <<templateVars, sequence, sent, onchain>>

(***************************************************************************)
(* tick: after the deferred snapshot, the submissions whose retry time has *)
(* come are sent again in the order of their request ids, each under a     *)
(* fresh id.  Which of the scheduled ones are due is the clock's choice;   *)
(* retrySubmission sends none without attempts left.                       *)
(***************************************************************************)
scheduled ==
    {i \in DOMAIN pendingSubmissions :
        /\ pendingSubmissions[i].retryDue
        /\ hasRemainingSubmitAttempts(pendingSubmissions[i].attempts)}

FreshIds(due) ==
    {f \in [due -> sequence..(sequence + Cardinality(due) - 1)] :
        \A i, j \in due : i < j => f[i] < f[j]}

\* Mutation: the old request id stays in the map.
retrySubmissions_KeepOld(due, ids) ==
    [i \in DOMAIN pendingSubmissions \cup {ids[d] : d \in due} |->
        IF i \in DOMAIN pendingSubmissions
        THEN pendingSubmissions[i]
        ELSE LET p == pendingSubmissions[CHOOSE d \in due : ids[d] = i]
             IN  [p EXCEPT !.attempts = p.attempts + 1, !.retryDue = FALSE]]

\* Mutation: the retry time is not cleared.
retrySubmissions_StillDue(due, ids) ==
    [i \in (DOMAIN pendingSubmissions \ due) \cup {ids[d] : d \in due} |->
        IF i \in DOMAIN pendingSubmissions
        THEN pendingSubmissions[i]
        ELSE LET p == pendingSubmissions[CHOOSE d \in due : ids[d] = i]
             IN  [p EXCEPT !.attempts = p.attempts + 1]]

retrySubmissions(due, ids) ==
    [i \in (DOMAIN pendingSubmissions \ due) \cup {ids[d] : d \in due} |->
        IF i \in DOMAIN pendingSubmissions
        THEN pendingSubmissions[i]
        ELSE LET p == pendingSubmissions[CHOOSE d \in due : ids[d] = i]
             IN  [p EXCEPT !.attempts = p.attempts + 1, !.retryDue = FALSE]]

tick(due) ==
    /\ client' \in installDeferred(client)
    /\ \E ids \in FreshIds(due) :
          /\ pendingSubmissions' = retrySubmissions(due, ids)
          /\ requests' = requests \cup {newRequest(ids[d], pendingSubmissions[d].sub) : d \in due}
    /\ sequence' = sequence + Cardinality(due)
    /\ sent' = [s \in Subs |-> IF \E d \in due : pendingSubmissions[d].sub = s
                               THEN sent[s] + 1 ELSE sent[s]]
    /\ UNCHANGED <<latest, ready, disconnects, strays, onchain, rows, answers>>

\* disconnect of a live client, by its strategy or by the mapper that stops.
disconnect ==
    /\ client.state \notin {"unconnected", "destroyed"}
    /\ disconnects < MaxDisconnects
    /\ disconnects' = disconnects + 1
    /\ finalizeSubmission(DOMAIN pendingSubmissions, "ambiguous")
    /\ requests' = {}
    /\ strays' = abandoned(requests)
    /\ client' = Idle("unconnected", client.jobs)
    /\ UNCHANGED <<latest, ready, sequence, sent, onchain>>

\* The destructor: the listeners may be gone, so there is only the row.
Destroy ==
    /\ client.state # "destroyed"
    /\ rows' = told(rows, DOMAIN pendingSubmissions, "ambiguous")
    /\ pendingSubmissions' = remove(pendingSubmissions, DOMAIN pendingSubmissions)
    /\ requests' = {}
    /\ strays' = abandoned(requests)
    /\ client' = Idle("destroyed", client.jobs)
    /\ UNCHANGED <<latest, ready, disconnects, sequence, sent, onchain, answers>>

-----------------------------------------------------------------------------

Next ==
    \/ NewTemplate
    \/ SeedsChange
    \/ Connect
    \/ \E s \in Subs : submit(s) \/ DaemonActsLate(s)
    \/ \E r \in requests : DaemonActs(r) \/ onHttpData(r)
    \/ \E due \in SUBSET scheduled : client.state # "destroyed" /\ tick(due)
    \/ disconnect
    \/ Destroy

Spec == Init /\ [][Next]_vars

(***************************************************************************)
(* HttpClient's own timer ends every request, and the event loop's tick    *)
(* finds every scheduled retry due after kRetryDelayMs.                    *)
(***************************************************************************)
Ids == 1..(Cardinality(Subs) * kMaxSubmitAttempts)

Fairness ==
    \A i \in Ids :
        /\ WF_vars(\E r \in requests : r.id = i /\ onHttpData(r))
        /\ WF_vars(\E due \in SUBSET scheduled :
                       i \in due /\ client.state # "destroyed" /\ tick(due))

FairSpec == Spec /\ Fairness

-----------------------------------------------------------------------------
(* Properties                                                              *)

Outcome == {"accepted", "rejected", "ambiguous"}

ClientState ==
    [state : {"unconnected", "connecting", "connected", "destroyed"},
     contexts : Seq(Nat), pendingSnapshot : Nat,
     job : [id : Nat, generation : Nat], jobs : Nat]

PendingSubmission ==
    [sub : Subs, attempts : 1..kMaxSubmitAttempts,
     hadIndeterminateOutcome : BOOLEAN, retryDue : BOOLEAN]

Request == [id : Nat, sub : Subs, verdict : {"none", "accept", "reject"}]

\* The types of the client's state (DaemonClient.h); contexts hold at most
\* kJobHistorySize jobs.
TypeOK ==
    /\ client \in ClientState
    /\ Len(client.contexts) <= kJobHistorySize
    /\ latest \in Nat /\ disconnects \in Nat /\ sequence \in Nat
    /\ \A i \in DOMAIN pendingSubmissions :
          i \in Nat /\ pendingSubmissions[i] \in PendingSubmission
    /\ requests \subseteq Request
    /\ strays \subseteq Subs /\ onchain \subseteq Subs
    /\ sent \in [Subs -> Nat]
    /\ rows \in [Subs -> Seq(Outcome)]
    /\ answers \in [Subs -> Seq(Outcome \cup {"refused"})]

\* A client that is connected or connecting works on the newest template of its
\* source, or has exactly that one deferred until the verifier has its seed:
\* no order of templates, seeds and ticks lets it fall back to an older one
\* (onDaemonTemplate and tick, m_pendingSnapshot).
FollowsSource ==
    client.state \in {"connecting", "connected"} =>
        /\ client.pendingSnapshot \in {0, latest}
        /\ latest # 0 /\ latest \notin BadTemplates /\ client.pendingSnapshot = 0
              => client.job.generation = latest

\* Every pending submission waits for exactly one thing, the reply to the
\* request it is filed under or its retry time, and every reply that can still
\* arrive finds its submission: re-keying in retrySubmission strands nothing.
PendingWaits ==
    /\ \A i \in DOMAIN pendingSubmissions :
          pendingSubmissions[i].retryDue <=> ~ \E r \in requests : r.id = i
    /\ \A r \in requests : /\ r.id \in DOMAIN pendingSubmissions
                           /\ pendingSubmissions[r.id].sub = r.sub

\* One final row, and at most one answer, for each candidate, however retries,
\* late replies, disconnects and destruction interleave; a row without an
\* answer only from a destroyed client (finalizeSubmission, disconnect).
OneResult ==
    \A s \in Subs :
        /\ Len(rows[s]) + Cardinality({i \in DOMAIN pendingSubmissions :
                                          pendingSubmissions[i].sub = s})
              = IF sent[s] = 0 THEN 0 ELSE 1
        /\ Len(answers[s]) <= 1
        /\ sent[s] > 0 /\ client.state # "destroyed" => answers[s] = rows[s]

\* The result tells the truth about the block: accepted ones are on the chain,
\* rejected ones are not and never get there through a request that outlived
\* its timeout (hadIndeterminateOutcome, terminalSubmitOutcome).
ResultTruthful ==
    \A s \in Subs :
        /\ rows[s] = <<"accepted">> => s \in onchain
        /\ rows[s] = <<"rejected">> => s \notin onchain

\* At most kMaxSubmitAttempts attempts, all of them used before a rejection.
AttemptsBounded ==
    \A s \in Subs :
        /\ sent[s] <= kMaxSubmitAttempts
        /\ rows[s] = <<"rejected">> => sent[s] = kMaxSubmitAttempts

\* A candidate that has its result is never sent to the daemon again, in
\* particular not after status OK (parseSubmitResponse, retrySubmission).
NoAttemptAfterResult ==
    [][\A s \in Subs : rows[s] # <<>> => sent'[s] = sent[s]]_vars

\* Every candidate the client took gets its final result.
EveryCandidateFinishes ==
    \A s \in Subs : sent[s] > 0 ~> rows[s] # <<>>

-----------------------------------------------------------------------------
(* Refinement                                                              *)

\* What the histories say of a candidate.
status ==
    [s \in Subs |-> IF answers[s] # <<>> THEN answers[s][1]
                    ELSE IF rows[s] # <<>> THEN "lost"
                    ELSE IF sent[s] > 0 THEN "pending"
                    ELSE "new"]

S == INSTANCE DaemonSubmission WITH status <- status, onchain <- onchain

\* The client with its retries implements what a submission promises.
ImplementsSubmission == S!Spec
=============================================================================
