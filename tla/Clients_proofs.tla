---------------------------- MODULE Clients_proofs ----------------------------
(***************************************************************************)
(* Proofs about the daemon client and about the client of the verifier,    *)
(* which share no state.                                                   *)
(*                                                                         *)
(* Of the daemon client, for any number of candidates, attempts, templates *)
(* and disconnects: its types, the life of a submission and that it        *)
(* implements DaemonSubmission.                                            *)
(*                                                                         *)
(* Of the verifier's client, for any miners, seeds and limits: for the     *)
(* queue, the inductive invariant adds to the types and the bounds that    *)
(* the maps are finite, which their cardinalities depend on; for the       *)
(* seeds, it adds how controls and the frames on the wire match, and which *)
(* requests are newer than which releases.                                 *)
(***************************************************************************)
EXTENDS DaemonClient, RandomXVerifier, FiniteSetTheorems, TLAPS

(***************************************************************************)
(* The daemon client                                                       *)
(***************************************************************************)

-----------------------------------------------------------------------------
(* The inductive invariant                                                 *)

P == pendingSubmissions

\* The map of pending submissions: finite, filed under ids already drawn, one
\* entry per candidate.
Filing ==
    /\ IsFiniteSet(DOMAIN P)
    /\ \A i \in DOMAIN P : i < sequence
    /\ \A i, j \in DOMAIN P : P[i].sub = P[j].sub => i = j

\* A pending candidate has no result and a retry only with an attempt left.
Pending ==
    \A i \in DOMAIN P : /\ sent[P[i].sub] = P[i].attempts
                        /\ rows[P[i].sub] = <<>>
                        /\ answers[P[i].sub] = <<>>
                        /\ P[i].retryDue => P[i].attempts < kMaxSubmitAttempts

\* A request in flight is the only one of the entry it is filed under.
InFlight ==
    /\ \A r, q \in requests : r.id = q.id => r = q
    /\ \A r \in requests : /\ r.id \in DOMAIN P
                           /\ P[r.id].sub = r.sub
                           /\ ~ P[r.id].retryDue
                           /\ r.verdict = "accept" => r.sub \in onchain
    /\ \A i \in DOMAIN P : ~ P[i].retryDue => \E r \in requests : r.id = i

\* The histories of a candidate agree.
Histories ==
    \A s \in Subs :
        /\ sent[s] <= kMaxSubmitAttempts
        /\ sent[s] = 0 => /\ rows[s] = <<>>
                          /\ answers[s] \in {<<>>, <<"refused">>}
                          /\ s \notin strays /\ s \notin onchain
        /\ sent[s] > 0 => \/ \E i \in DOMAIN P : P[i].sub = s
                          \/ \E o \in Outcome : rows[s] = <<o>> /\ answers[s] \in {<<o>>, <<>>}
        /\ sent[s] > 0 /\ client.state # "destroyed" => answers[s] = rows[s]

\* What may be concluded from explicit refusals only: no request of the
\* candidate is astray, and it is on the chain only by the one in flight.
Verdicts ==
    /\ \A i \in DOMAIN P :
          ~ P[i].hadIndeterminateOutcome =>
              /\ P[i].sub \notin strays
              /\ P[i].sub \in onchain =>
                    \E r \in requests : r.id = i /\ r.verdict = "accept"
    /\ \A s \in Subs :
          /\ rows[s] = <<"rejected">> =>
                /\ s \notin strays
                /\ s \notin onchain
                /\ sent[s] = kMaxSubmitAttempts
          /\ rows[s] = <<"accepted">> => s \in onchain

IInv == TypeOK /\ Filing /\ Pending /\ InFlight /\ Histories /\ Verdicts

-----------------------------------------------------------------------------
(* Templates and jobs                                                      *)

\* A client of the right type with at most kJobHistorySize contexts.
GoodClient(c) == c \in ClientState /\ Len(c.contexts) <= kJobHistorySize

\* trimContexts returns contexts within the limit.
LEMMA TrimTypes ==
    ASSUME NEW contexts \in Seq(Nat), NEW t \in trimContexts(contexts)
    PROVE  t \in Seq(Nat) /\ Len(t) <= kJobHistorySize
<1>1. PICK n \in 0..Len(contexts) : n <= kJobHistorySize /\ t = SubSeq(contexts, 1, n)
  BY DEF trimContexts
<1>2. t \in Seq(Nat) /\ Len(t) = n
  BY <1>1
<1> QED
  BY <1>1, <1>2

\* installTemplate keeps a client good and connects it or leaves its state.
LEMMA InstallTypes ==
    ASSUME NEW c, GoodClient(c), NEW g \in Nat, NEW d \in installTemplate(c, g)
    PROVE  GoodClient(d) /\ d.state \in {c.state, "connected"}
<1>1. CASE g \in BadTemplates
  BY <1>1 DEF installTemplate
<1>2. CASE g \notin BadTemplates
  <2>1. PICK ctx \in trimContexts(<<c.jobs + 1>> \o c.contexts) :
           d = [c EXCEPT !.jobs = c.jobs + 1,
                         !.job = [id |-> c.jobs + 1, generation |-> g],
                         !.contexts = ctx,
                         !.state = "connected"]
    BY <1>2 DEF installTemplate
  <2>2. <<c.jobs + 1>> \o c.contexts \in Seq(Nat)
    BY DEF GoodClient, ClientState
  <2>3. ctx \in Seq(Nat) /\ Len(ctx) <= kJobHistorySize
    BY <2>2, TrimTypes
  <2>4. [id |-> c.jobs + 1, generation |-> g] \in [id : Nat, generation : Nat]
    BY DEF GoodClient, ClientState
  <2>5. d \in ClientState /\ d.contexts = ctx /\ d.state = "connected"
    BY <2>1, <2>3, <2>4 DEF GoodClient, ClientState
  <2> QED
    BY <2>3, <2>5 DEF GoodClient
<1> QED
  BY <1>1, <1>2

\* onDaemonTemplate does as well, and never touches a destroyed client.
LEMMA OnTemplateTypes ==
    ASSUME NEW c, GoodClient(c), NEW g \in Nat, NEW d \in onDaemonTemplate(c, g)
    PROVE  GoodClient(d) /\ (d.state = "destroyed" <=> c.state = "destroyed")
<1>1. CASE c.state \in {"unconnected", "destroyed"}
  BY <1>1 DEF onDaemonTemplate
<1>2. CASE c.state \notin {"unconnected", "destroyed"} /\ ~ isSeedReady(g)
  BY <1>2 DEF onDaemonTemplate, GoodClient, ClientState
<1>3. CASE c.state \notin {"unconnected", "destroyed"} /\ isSeedReady(g)
  <2> DEFINE e == [c EXCEPT !.pendingSnapshot = 0]
  <2>1. GoodClient(e) /\ e.state = c.state
    BY DEF GoodClient, ClientState
  <2>2. d \in installTemplate(e, g)
    BY <1>3 DEF onDaemonTemplate
  <2>3. GoodClient(d) /\ d.state \in {e.state, "connected"}
    BY <2>1, <2>2, InstallTypes
  <2> QED
    BY <2>1, <2>3, <1>3
<1> QED
  BY <1>1, <1>2, <1>3

\* ... and so does the first part of tick.
LEMMA DeferredTypes ==
    ASSUME NEW c, GoodClient(c), NEW d \in installDeferred(c)
    PROVE  GoodClient(d) /\ d.state \in {c.state, "connected"}
<1> DEFINE e == [c EXCEPT !.pendingSnapshot = 0]
<1>1. GoodClient(e) /\ e.state = c.state /\ c.pendingSnapshot \in Nat
  BY DEF GoodClient, ClientState
<1>2. d = c \/ d \in installTemplate(e, c.pendingSnapshot)
  BY DEF installDeferred
<1>3. CASE d \in installTemplate(e, c.pendingSnapshot)
  BY <1>1, <1>3, InstallTypes
<1> QED
  BY <1>2, <1>3

\* A step that leaves the submissions alone and neither destroys nor revives
\* the client keeps the invariant.
LEMMA ClientStep ==
    ASSUME IInv, UNCHANGED <<submitVars, onchain>>,
           GoodClient(client'), client'.state = "destroyed" <=> client.state = "destroyed",
           latest' \in Nat, disconnects' \in Nat
    PROVE  IInv'
<1>1. TypeOK'
  BY DEF IInv, TypeOK, GoodClient, submitVars
<1>2. Filing' /\ Pending'
  BY DEF IInv, Filing, Pending, P, submitVars
<1>3. InFlight'
  BY DEF IInv, InFlight, P, submitVars
<1>4. Histories'
  BY DEF IInv, Histories, P, submitVars
<1>5. Verdicts'
  BY DEF IInv, Verdicts, P, submitVars
<1> QED
  BY <1>1, <1>2, <1>3, <1>4, <1>5 DEF IInv

LEMMA TemplateSteps ==
    ASSUME IInv, NewTemplate \/ SeedsChange \/ Connect
    PROVE  IInv'
<1>1. GoodClient(client) /\ latest \in Nat /\ disconnects \in Nat
  BY DEF IInv, TypeOK, GoodClient
<1>2. CASE NewTemplate
  <2>1. client' \in onDaemonTemplate(client, latest + 1) /\ latest + 1 \in Nat
    BY <1>1, <1>2 DEF NewTemplate
  <2>2. GoodClient(client') /\ (client'.state = "destroyed" <=> client.state = "destroyed")
    BY <1>1, <2>1, OnTemplateTypes
  <2> QED
    BY <1>1, <1>2, <2>1, <2>2, ClientStep DEF NewTemplate
<1>3. CASE SeedsChange
  BY <1>1, <1>3, ClientStep DEF SeedsChange
<1>4. CASE Connect
  <2> DEFINE c == [client EXCEPT !.state = "connecting"]
  <2>1. GoodClient(c) /\ c.state = "connecting" /\ client.state = "unconnected"
    BY <1>1, <1>4 DEF Connect, GoodClient, ClientState
  <2>2. client' = c \/ client' \in onDaemonTemplate(c, latest)
    BY <1>4 DEF Connect
  <2>3. GoodClient(client') /\ client'.state # "destroyed"
    BY <1>1, <2>1, <2>2, OnTemplateTypes
  <2> QED
    BY <1>1, <1>4, <2>1, <2>3, ClientStep DEF Connect
<1> QED
  BY <1>2, <1>3, <1>4

-----------------------------------------------------------------------------
(* Block candidates                                                        *)

\* Histories have at most one element, so this is all of their theory.
LEMMA OneElement ==
    ASSUME NEW x, NEW y
    PROVE  /\ Append(<<>>, x) = <<x>>
           /\ <<x>> # <<>>
           /\ <<x>>[1] = x
           /\ Len(<<x>>) = 1
           /\ <<x>> = <<y>> => x = y
  OBVIOUS

LEMMA Lengths == Len(<<>>) = 0 /\ \A x : Len(<<x>>) = 1
  OBVIOUS

LEMMA Sums ==
    \A a, b, c : a \in {0, 1} /\ b \in {0, 1} /\ c = 0 => a <= 1 /\ b + c = b
  OBVIOUS

\* The facts of the invariant that steps start from.
LEMMA Facts ==
    ASSUME IInv
    PROVE  /\ sequence \in Nat /\ sequence \notin DOMAIN P
           /\ IsFiniteSet(DOMAIN P)
           /\ \A i \in DOMAIN P : i \in Nat /\ P[i] \in PendingSubmission /\ P[i].sub \in Subs
           /\ \A s \in Subs : sent[s] \in Nat
           /\ \A s \in Subs : sent[s] = 0 => \A i \in DOMAIN P : P[i].sub # s
<1>1. /\ sequence \in Nat
      /\ \A i \in DOMAIN P : i \in Nat /\ P[i] \in PendingSubmission
      /\ sent \in [Subs -> Nat]
  BY DEF IInv, TypeOK, P
<1>2. IsFiniteSet(DOMAIN P) /\ \A i \in DOMAIN P : i < sequence
  BY DEF IInv, Filing
<1>3. \A i \in DOMAIN P : P[i].sub \in Subs /\ P[i].attempts \in 1..kMaxSubmitAttempts
  BY <1>1 DEF PendingSubmission
<1>4. \A i \in DOMAIN P : sent[P[i].sub] = P[i].attempts
  BY DEF IInv, Pending
<1>5. \A i \in DOMAIN P : sent[P[i].sub] # 0
  BY <1>3, <1>4, ClientAssumption
<1> QED
  BY <1>1, <1>2, <1>3, <1>5

LEMMA SubmitStep ==
    ASSUME IInv, NEW s \in Subs, submit(s)
    PROVE  IInv'
<1>1. PICK j \in 1..client.jobs, contexts \in trimContexts(client.contexts) :
         /\ client.state # "destroyed"
         /\ ~ begun(s)
         /\ client' = [client EXCEPT !.contexts = contexts]
         /\ IF \E i \in DOMAIN contexts : contexts[i] = j
            THEN /\ pendingSubmissions' =
                       [i \in DOMAIN pendingSubmissions \cup {sequence} |->
                           IF i = sequence
                           THEN [sub |-> s, attempts |-> 1, hadIndeterminateOutcome |-> FALSE,
                                 retryDue |-> FALSE]
                           ELSE pendingSubmissions[i]]
                 /\ requests' = requests \cup {newRequest(sequence, s)}
                 /\ sequence' = sequence + 1
                 /\ sent' = [sent EXCEPT ![s] = 1]
                 /\ UNCHANGED <<strays, rows, answers>>
            ELSE /\ answers' = [answers EXCEPT ![s] = <<"refused">>]
                 /\ UNCHANGED <<pendingSubmissions, sequence, requests, strays, sent, rows>>
         /\ UNCHANGED <<latest, ready, disconnects, onchain>>
  BY DEF submit
<1>2. GoodClient(client') /\ client'.state = client.state
  <2>1. client \in ClientState
    BY DEF IInv, TypeOK
  <2>2. client.contexts \in Seq(Nat)
    BY <2>1 DEF ClientState
  <2>3. contexts \in Seq(Nat) /\ Len(contexts) <= kJobHistorySize
    BY <2>2, TrimTypes
  <2> QED
    BY <1>1, <2>1, <2>3 DEF GoodClient, ClientState
<1>3. sent[s] = 0 /\ answers[s] = <<>> /\ rows[s] = <<>>
      /\ s \notin strays /\ s \notin onchain
  BY <1>1, Facts DEF begun, IInv, Histories
<1>4. CASE \E i \in DOMAIN contexts : contexts[i] = j
  <2> DEFINE new == [sub |-> s, attempts |-> 1, hadIndeterminateOutcome |-> FALSE,
                     retryDue |-> FALSE]
             req == newRequest(sequence, s)
  <2>1. /\ P' = [i \in DOMAIN P \cup {sequence} |-> IF i = sequence THEN new ELSE P[i]]
        /\ requests' = requests \cup {req}
        /\ sequence' = sequence + 1
        /\ sent' = [sent EXCEPT ![s] = 1]
        /\ UNCHANGED <<strays, rows, answers, latest, disconnects, onchain>>
    BY <1>1, <1>4 DEF P
  <2>2. /\ DOMAIN P' = DOMAIN P \cup {sequence}
        /\ P'[sequence] = new
        /\ \A i \in DOMAIN P : P'[i] = P[i]
    BY <2>1, Facts
  <2>3. /\ req.id = sequence /\ req.sub = s /\ req.verdict = "none"
        /\ req \in Request
    BY Facts DEF newRequest, Request
  <2>4. /\ new.sub = s /\ new.attempts = 1 /\ ~ new.hadIndeterminateOutcome /\ ~ new.retryDue
        /\ new \in PendingSubmission
    BY ClientAssumption DEF PendingSubmission
  <2> HIDE DEF new, req
  <2>5. TypeOK'
    BY <1>2, <2>1, <2>2, <2>3, <2>4, Facts DEF IInv, TypeOK, GoodClient, P
  <2>6. Filing'
    <3>1. IsFiniteSet(DOMAIN P')
      BY <2>2, Facts, FS_AddElement
    <3>2. \A i \in DOMAIN P' : i < sequence'
      BY <2>1, <2>2, Facts DEF IInv, Filing
    <3>3. \A i, k \in DOMAIN P' : P'[i].sub = P'[k].sub => i = k
      BY <1>3, <2>2, <2>4, Facts DEF IInv, Filing
    <3> QED
      BY <3>1, <3>2, <3>3 DEF Filing
  <2>7. Pending'
    BY <1>3, <2>1, <2>2, <2>4, Facts DEF IInv, Pending, TypeOK
  <2>8. InFlight'
    <3>1. \A r \in requests : r.id # sequence
      BY Facts DEF IInv, InFlight
    <3> QED
      BY <2>1, <2>2, <2>3, <2>4, <3>1 DEF IInv, InFlight
  <2>9. Histories'
    <3>1. /\ sent'[s] = 1
          /\ \A t \in Subs : t # s => sent'[t] = sent[t]
      BY <2>1 DEF IInv, TypeOK
    <3>2. ASSUME NEW t \in Subs, t # s
          PROVE  Histories!(t)'
      BY <1>2, <2>1, <2>2, <3>1, <3>2 DEF IInv, Histories
    <3>3. Histories!(s)'
      BY <1>2, <1>3, <2>1, <2>2, <2>4, <3>1, ClientAssumption DEF Histories
    <3> QED
      BY <3>2, <3>3 DEF Histories
  <2>10. Verdicts'
    <3>1. \A i \in DOMAIN P' :
             ~ P'[i].hadIndeterminateOutcome =>
                 /\ P'[i].sub \notin strays'
                 /\ P'[i].sub \in onchain' =>
                       \E r \in requests' : r.id = i /\ r.verdict = "accept"
      BY <1>3, <2>1, <2>2, <2>4 DEF IInv, Verdicts
    <3>2. \A t \in Subs : t # s => sent'[t] = sent[t]
      BY <2>1 DEF IInv, TypeOK
    <3>3. \A t \in Subs : /\ rows'[t] = <<"rejected">> =>
                                 /\ t \notin strays'
                                 /\ t \notin onchain'
                                 /\ sent'[t] = kMaxSubmitAttempts
                          /\ rows'[t] = <<"accepted">> => t \in onchain'
      BY <1>3, <2>1, <3>2, OneElement DEF IInv, Verdicts
    <3> QED
      BY <3>1, <3>3 DEF Verdicts
  <2> QED
    BY <2>5, <2>6, <2>7, <2>8, <2>9, <2>10 DEF IInv
<1>5. CASE ~ \E i \in DOMAIN contexts : contexts[i] = j
  <2>1. /\ answers' = [answers EXCEPT ![s] = <<"refused">>]
        /\ UNCHANGED <<pendingSubmissions, sequence, requests, strays, sent, rows,
                       latest, disconnects, onchain>>
    BY <1>1, <1>5
  <2>2. /\ answers' \in [Subs -> Seq(Outcome \cup {"refused"})]
        /\ answers'[s] = <<"refused">>
        /\ \A t \in Subs : t # s => answers'[t] = answers[t]
    BY <2>1 DEF IInv, TypeOK
  <2>3. TypeOK'
    BY <1>2, <2>1, <2>2 DEF IInv, TypeOK, GoodClient, P
  <2>4. Filing' /\ InFlight' /\ Verdicts'
    BY <2>1 DEF IInv, Filing, InFlight, Verdicts, P
  <2>5. Pending'
    BY <1>3, <2>1, <2>2, Facts DEF IInv, Pending, P
  <2>6. Histories'
    BY <1>2, <1>3, <2>1, <2>2, Facts DEF IInv, Histories, P
  <2> QED
    BY <2>3, <2>4, <2>5, <2>6 DEF IInv
<1> QED
  BY <1>4, <1>5

LEMMA DaemonSteps ==
    ASSUME IInv,
           (\E r \in requests : DaemonActs(r)) \/ (\E s \in Subs : DaemonActsLate(s))
    PROVE  IInv'
<1>1. CASE \E r \in requests : DaemonActs(r)
  <2>1. PICK r \in requests : DaemonActs(r)
    BY <1>1
  <2>2. PICK v \in {"accept", "reject"} :
           /\ requests' = (requests \ {r}) \cup {[r EXCEPT !.verdict = v]}
           /\ onchain' = IF v = "accept" THEN onchain \cup {r.sub} ELSE onchain
    BY <2>1 DEF DaemonActs
  <2>3. /\ r.verdict = "none"
        /\ UNCHANGED <<client, latest, disconnects, pendingSubmissions, sequence, strays,
                       sent, rows, answers>>
    BY <2>1 DEF DaemonActs, templateVars
  <2> DEFINE q == [r EXCEPT !.verdict = v]
  <2>4. /\ r \in Request /\ q \in Request
        /\ q.id = r.id /\ q.sub = r.sub /\ q.verdict = v /\ r.sub \in Subs
    BY DEF IInv, TypeOK, Request
  <2>5. /\ requests' = (requests \ {r}) \cup {q}
        /\ \A s \in Subs : s # r.sub => (s \in onchain' <=> s \in onchain)
        /\ onchain \subseteq onchain'
    BY <2>2, <2>4
  <2> HIDE DEF q
  <2>6. /\ r.id \in DOMAIN P /\ P[r.id].sub = r.sub /\ ~ P[r.id].retryDue
        /\ sent[r.sub] > 0 /\ rows[r.sub] = <<>>
    BY Facts DEF IInv, InFlight, Pending
  <2>7. TypeOK'
    BY <2>2, <2>3, <2>4, <2>5 DEF IInv, TypeOK
  <2>8. Filing' /\ Pending'
    BY <2>3 DEF IInv, Filing, Pending, P
  <2>9. InFlight'
    BY <2>2, <2>3, <2>4, <2>5 DEF IInv, InFlight, P
  <2>10. Histories'
    BY <2>3, <2>5, <2>6 DEF IInv, Histories, P
  <2>11. Verdicts'
    <3>1. ASSUME NEW i \in DOMAIN P, ~ P[i].hadIndeterminateOutcome, P[i].sub \in onchain'
          PROVE  \E x \in requests' : x.id = i /\ x.verdict = "accept"
      <4>1. CASE i = r.id
        BY <2>2, <2>3, <2>4, <2>5, <2>6, <3>1, <4>1 DEF IInv, Verdicts, InFlight
      <4>2. CASE i # r.id
        <5>1. P[i].sub # r.sub /\ P[i].sub \in Subs
          BY <2>6, <4>2, Facts DEF IInv, Filing
        <5>2. PICK x \in requests : x.id = i /\ x.verdict = "accept"
          BY <2>5, <3>1, <5>1 DEF IInv, Verdicts
        <5> QED
          BY <2>5, <4>2, <5>2
      <4> QED
        BY <4>1, <4>2
    <3>2. \A s \in Subs : rows[s] \in {<<"rejected">>, <<"accepted">>} => s # r.sub
      BY <2>6, OneElement
    <3> QED
      BY <2>3, <2>5, <3>1, <3>2 DEF IInv, Verdicts, P
  <2> QED
    BY <2>7, <2>8, <2>9, <2>10, <2>11 DEF IInv
<1>2. CASE \E s \in Subs : DaemonActsLate(s)
  <2>1. PICK s \in Subs : DaemonActsLate(s)
    BY <1>2
  <2>2. /\ s \in strays
        /\ onchain' = onchain \cup {s}
        /\ UNCHANGED <<client, latest, disconnects, pendingSubmissions, sequence, requests,
                       strays, sent, rows, answers>>
    BY <2>1 DEF DaemonActsLate, templateVars, submitVars
  <2>3. TypeOK' /\ Filing' /\ Pending' /\ InFlight'
    BY <2>2 DEF IInv, TypeOK, Filing, Pending, InFlight, P
  <2>4. Histories'
    BY <2>2 DEF IInv, Histories, P
  <2>5. Verdicts'
    BY <2>2 DEF IInv, Verdicts, P
  <2> QED
    BY <2>3, <2>4, <2>5 DEF IInv
<1> QED
  BY <1>1, <1>2

-----------------------------------------------------------------------------
(* Results                                                                 *)

\* What told does to a history.
LEMMA Told ==
    ASSUME IInv, NEW ids \in SUBSET DOMAIN P, NEW o \in Outcome,
           NEW h \in {rows, answers}
    PROVE  /\ told(h, ids, o) = [s \in Subs |-> told(h, ids, o)[s]]
           /\ \A i \in ids : told(h, ids, o)[P[i].sub] = <<o>>
           /\ \A s \in Subs : (\A i \in ids : P[i].sub # s) => told(h, ids, o)[s] = h[s]
<1>1. \A i \in ids : h[P[i].sub] = <<>> /\ P[i].sub \in Subs
  BY Facts DEF IInv, Pending
<1> QED
  BY <1>1, OneElement DEF told, P

(***************************************************************************)
(* A step that finishes the submissions ids with outcome o and forgets     *)
(* their requests keeps the invariant, if o is justified.  A destroyed    *)
(* client tells downstream nothing.                                        *)
(***************************************************************************)
LEMMA FinishStep ==
    ASSUME IInv, NEW ids \in SUBSET DOMAIN P, NEW o \in Outcome,
           pendingSubmissions' = remove(pendingSubmissions, ids),
           rows' = told(rows, ids, o),
           answers' = told(answers, ids, o) \/ (answers' = answers /\ client'.state = "destroyed"),
           GoodClient(client'), client.state = "destroyed" => client'.state = "destroyed",
           latest' \in Nat, disconnects' \in Nat,
           requests' = {r \in requests : r.id \notin ids},
           strays' = abandoned(requests \ requests'),
           UNCHANGED <<sequence, sent, onchain>>,
           o = "accepted" => \A i \in ids : P[i].sub \in onchain,
           o = "rejected" => \A i \in ids : /\ P[i].sub \notin onchain
                                            /\ P[i].sub \notin strays'
                                            /\ P[i].attempts = kMaxSubmitAttempts
    PROVE  IInv'
<1>1. /\ DOMAIN P' = DOMAIN P \ ids
      /\ \A i \in DOMAIN P' : P'[i] = P[i]
  BY DEF remove, P
<1>2. /\ \A i \in ids : rows'[P[i].sub] = <<o>>
      /\ \A s \in Subs : (\A i \in ids : P[i].sub # s) => rows'[s] = rows[s]
      /\ rows' \in [Subs -> Seq(Outcome)]
  <2>1. /\ rows' = [s \in Subs |-> rows'[s]]
        /\ \A i \in ids : rows'[P[i].sub] = <<o>>
        /\ \A s \in Subs : (\A i \in ids : P[i].sub # s) => rows'[s] = rows[s]
    BY Told
  <2>2. \A s \in Subs : rows[s] \in Seq(Outcome)
    BY DEF IInv, TypeOK
  <2>3. <<o>> \in Seq(Outcome)
    OBVIOUS
  <2>4. \A s \in Subs : rows'[s] \in Seq(Outcome)
    BY <2>1, <2>2, <2>3, Zenon
  <2> QED
    BY <2>1, <2>4
<1>3. /\ answers' \in [Subs -> Seq(Outcome \cup {"refused"})]
      /\ \A s \in Subs : (\A i \in ids : P[i].sub # s) => answers'[s] = answers[s]
      /\ \A i \in ids : \/ answers'[P[i].sub] = <<o>>
                        \/ answers'[P[i].sub] = <<>> /\ client'.state = "destroyed"
  <2>1. CASE answers' = told(answers, ids, o)
    <3>1. /\ answers' = [s \in Subs |-> answers'[s]]
          /\ \A i \in ids : answers'[P[i].sub] = <<o>>
          /\ \A s \in Subs : (\A i \in ids : P[i].sub # s) => answers'[s] = answers[s]
      BY <2>1, Told
    <3>2. \A s \in Subs : answers[s] \in Seq(Outcome \cup {"refused"})
      BY DEF IInv, TypeOK
    <3>3. <<o>> \in Seq(Outcome \cup {"refused"})
      OBVIOUS
    <3>4. \A s \in Subs : answers'[s] \in Seq(Outcome \cup {"refused"})
      BY <3>1, <3>2, <3>3, Zenon
    <3> QED
      BY <3>1, <3>4
  <2>2. CASE answers' = answers /\ client'.state = "destroyed"
    BY <2>2 DEF IInv, TypeOK, Pending
  <2> QED
    BY <2>1, <2>2
<1>4. /\ strays \subseteq strays'
      /\ \A s \in Subs : s \in strays' => s \in strays \/ \E i \in ids : P[i].sub = s
      /\ strays' \subseteq Subs
  BY DEF abandoned, IInv, InFlight, TypeOK, Request
<1>5. \A i \in DOMAIN P' : \A k \in ids : P[i].sub # P[k].sub
  BY <1>1 DEF IInv, Filing
<1>6. TypeOK'
  BY <1>1, <1>2, <1>3, <1>4, Facts DEF IInv, TypeOK, GoodClient, P
<1>7. Filing'
  BY <1>1, Facts, FS_Subset DEF IInv, Filing
<1>8. Pending'
  <2> SUFFICES ASSUME NEW i \in DOMAIN P'
               PROVE  Pending!(i)'
    BY DEF Pending
  <2>1. i \in DOMAIN P /\ P'[i] = P[i] /\ P[i].sub \in Subs
    BY <1>1, Facts
  <2>2. rows'[P[i].sub] = rows[P[i].sub] /\ answers'[P[i].sub] = answers[P[i].sub]
    BY <1>2, <1>3, <1>5, <2>1
  <2> QED
    BY <2>1, <2>2 DEF IInv, Pending
<1>9. InFlight'
  BY <1>1 DEF IInv, InFlight
<1>10. Histories'
  <2> SUFFICES ASSUME NEW s \in Subs
               PROVE  Histories!(s)'
    BY DEF Histories
  <2>1. CASE \A i \in ids : P[i].sub # s
    <3>1. /\ rows'[s] = rows[s] /\ answers'[s] = answers[s] /\ sent'[s] = sent[s]
          /\ s \in strays' => s \in strays
          /\ s \in onchain' <=> s \in onchain
      BY <1>2, <1>3, <1>4, <2>1
    <3>2. (\E i \in DOMAIN P : P[i].sub = s) => \E i \in DOMAIN P' : P'[i].sub = s
      BY <1>1, <2>1
    <3> QED
      BY <3>1, <3>2 DEF IInv, Histories
  <2>2. CASE \E i \in ids : P[i].sub = s
    <3>1. PICK i \in ids : P[i].sub = s
      BY <2>2
    <3>2. rows'[s] = <<o>> /\ (answers'[s] = <<o>> \/ (answers'[s] = <<>> /\ client'.state = "destroyed"))
      BY <1>2, <1>3, <3>1
    <3>3. sent'[s] # 0 /\ sent'[s] <= kMaxSubmitAttempts
      BY <3>1, Facts DEF IInv, Histories
    <3> QED
      BY <3>2, <3>3
  <2> QED
    BY <2>1, <2>2
<1>11. Verdicts'
  <2>1. ASSUME NEW i \in DOMAIN P', ~ P'[i].hadIndeterminateOutcome
        PROVE  /\ P'[i].sub \notin strays'
               /\ P'[i].sub \in onchain' =>
                      \E r \in requests' : r.id = i /\ r.verdict = "accept"
    BY <1>1, <1>4, <1>5, <2>1, Facts DEF IInv, Verdicts
  <2>2. ASSUME NEW s \in Subs
        PROVE  /\ rows'[s] = <<"rejected">> =>
                     /\ s \notin strays'
                     /\ s \notin onchain'
                     /\ sent'[s] = kMaxSubmitAttempts
               /\ rows'[s] = <<"accepted">> => s \in onchain'
    <3>1. CASE \A i \in ids : P[i].sub # s
      BY <1>2, <1>4, <3>1 DEF IInv, Verdicts
    <3>2. CASE \E i \in ids : P[i].sub = s
      <4>1. PICK i \in ids : P[i].sub = s
        BY <3>2
      <4>2. rows'[s] = <<o>> /\ sent'[s] = P[i].attempts
        BY <1>2, <4>1 DEF IInv, Pending
      <4>3. /\ rows'[s] = <<"rejected">> => o = "rejected"
            /\ rows'[s] = <<"accepted">> => o = "accepted"
        BY <4>2, OneElement
      <4> QED
        BY <4>1, <4>2, <4>3
    <3> QED
      BY <3>1, <3>2
  <2> QED
    BY <2>1, <2>2 DEF Verdicts
<1> QED
  BY <1>6, <1>7, <1>8, <1>9, <1>10, <1>11 DEF IInv

\* What a reply is taken for, and what an honest daemon did to cause it.
LEMMA ParseReply ==
    ASSUME NEW reply \in Replies, NEW r, Honest(r, reply)
    PROVE  /\ parseSubmitResponse(reply) \in Outcome
           /\ parseSubmitResponse(reply) = "accepted" => r.verdict = "accept"
           /\ parseSubmitResponse(reply) = "rejected" => r.verdict = "reject"
<1>1. /\ reply.received \in BOOLEAN
      /\ reply.error \in {"none", "message", "nameless"}
      /\ reply.status \in {"OK", "other", "invalid"}
  BY DEF Replies
<1>2. CASE ~ reply.received
  BY <1>1, <1>2 DEF parseSubmitResponse, Outcome
<1>3. CASE reply.received /\ reply.error = "message"
  BY <1>1, <1>3 DEF parseSubmitResponse, Outcome, Honest
<1>4. CASE reply.received /\ reply.error = "nameless"
  BY <1>1, <1>4 DEF parseSubmitResponse, Outcome, Honest
<1>5. CASE reply.received /\ reply.error = "none"
  BY <1>1, <1>5 DEF parseSubmitResponse, classifySubmitResult, Outcome, Honest
<1> QED
  BY <1>1, <1>2, <1>3, <1>4, <1>5

LEMMA HttpStep ==
    ASSUME IInv, NEW r \in requests, onHttpData(r)
    PROVE  IInv'
<1>1. /\ requests' = requests \ {r}
      /\ strays' = abandoned({r})
      /\ UNCHANGED <<client, latest, disconnects, sequence, sent, onchain>>
  BY DEF onHttpData, templateVars
<1>2. PICK reply \in Replies :
         /\ Honest(r, reply)
         /\ LET outcome == parseSubmitResponse(reply)
            IN  IF r.id \notin DOMAIN pendingSubmissions
                THEN UNCHANGED <<pendingSubmissions, rows, answers>>
                ELSE IF outcome = "accepted"
                THEN finalizeSubmission({r.id}, "accepted")
                ELSE retryOrFinalizeSubmission(r.id, outcome)
  BY DEF onHttpData
<1>3. /\ r.id \in DOMAIN P /\ P[r.id].sub = r.sub /\ ~ P[r.id].retryDue
      /\ r.verdict = "accept" => r.sub \in onchain
      /\ \A q \in requests : q.id = r.id => q = r
      /\ r.sub \in Subs /\ P[r.id] \in PendingSubmission
  BY Facts DEF IInv, InFlight
<1>4. /\ requests' = {q \in requests : q.id \notin {r.id}}
      /\ strays' = abandoned(requests \ requests')
  <2>1. requests \ requests' = {r}
    BY <1>1
  <2>2. requests' = {q \in requests : q.id \notin {r.id}}
    BY <1>1, <1>3
  <2> QED
    BY <1>1, <2>1, <2>2
<1>5. GoodClient(client') /\ latest' \in Nat /\ disconnects' \in Nat
  BY <1>1 DEF IInv, TypeOK, GoodClient
<1> DEFINE o == parseSubmitResponse(reply)
           p == P[r.id]
           ind == p.hadIndeterminateOutcome \/ o = "ambiguous"
<1>6. o \in Outcome /\ (o = "accepted" => r.verdict = "accept") /\ (o = "rejected" => r.verdict = "reject")
  BY <1>2, ParseReply
<1>7. o = "accepted" => finalizeSubmission({r.id}, "accepted")
  BY <1>2, <1>3 DEF P
<1>8. o # "accepted" => retryOrFinalizeSubmission(r.id, o)
  BY <1>2, <1>3 DEF P
<1> HIDE DEF o
<1>9. {r.id} \in SUBSET DOMAIN P
  BY <1>3
<1>10. CASE o = "accepted"
  <2>1. /\ pendingSubmissions' = remove(pendingSubmissions, {r.id})
        /\ rows' = told(rows, {r.id}, "accepted")
        /\ answers' = told(answers, {r.id}, "accepted")
    BY <1>7, <1>10 DEF finalizeSubmission
  <2>2. \A i \in {r.id} : P[i].sub \in onchain
    BY <1>3, <1>6, <1>10
  <2>3. "accepted" \in Outcome
    BY DEF Outcome
  <2> QED
    BY <1>1, <1>4, <1>5, <1>9, <2>1, <2>2, <2>3, FinishStep
<1>11. CASE o # "accepted" /\ ~ hasRemainingSubmitAttempts(p.attempts)
  <2> DEFINE t == terminalSubmitOutcome(o, ind)
  <2>1. /\ pendingSubmissions' = remove(pendingSubmissions, {r.id})
        /\ rows' = told(rows, {r.id}, t)
        /\ answers' = told(answers, {r.id}, t)
    BY <1>8, <1>11 DEF retryOrFinalizeSubmission, finalizeSubmission, P
  <2>2. t \in Outcome /\ t # "accepted" /\ (t = "rejected" => o = "rejected" /\ ~ ind)
    BY <1>6, <1>11 DEF terminalSubmitOutcome, Outcome
  <2>3. p.attempts = kMaxSubmitAttempts
    BY <1>3, <1>11, ClientAssumption DEF hasRemainingSubmitAttempts, PendingSubmission
  <2>4. ASSUME t = "rejected"
        PROVE  P[r.id].sub \notin onchain /\ P[r.id].sub \notin strays'
    <3>1. o = "rejected" /\ ~ P[r.id].hadIndeterminateOutcome
      BY <2>2, <2>4
    <3>2. r.verdict = "reject"
      BY <1>6, <3>1
    <3>3. strays' = strays
      BY <1>1, <3>2 DEF abandoned
    <3> QED
      BY <1>3, <3>1, <3>2, <3>3 DEF IInv, Verdicts
  <2> HIDE DEF t
  <2> QED
    BY <1>1, <1>4, <1>5, <1>9, <2>1, <2>2, <2>3, <2>4, FinishStep
<1>12. CASE o # "accepted" /\ hasRemainingSubmitAttempts(p.attempts)
  <2> DEFINE n == [p EXCEPT !.hadIndeterminateOutcome = ind, !.retryDue = TRUE]
  <2>1. P' = [P EXCEPT ![r.id] = n] /\ UNCHANGED <<rows, answers>>
    BY <1>8, <1>12 DEF retryOrFinalizeSubmission, P
  <2>2. /\ n \in PendingSubmission /\ n.retryDue /\ n.sub = r.sub /\ n.attempts = p.attempts
        /\ n.hadIndeterminateOutcome = ind
    BY <1>3 DEF PendingSubmission
  <2>3. /\ DOMAIN P' = DOMAIN P /\ P'[r.id] = n
        /\ \A i \in DOMAIN P : i # r.id => P'[i] = P[i]
    BY <1>3, <2>1
  <2> HIDE DEF n
  <2>4. \A i \in DOMAIN P : P'[i].sub = P[i].sub /\ P'[i].attempts = P[i].attempts
    BY <1>3, <2>2, <2>3
  <2>5. /\ \A s \in Subs : s # r.sub => (s \in strays' <=> s \in strays)
        /\ strays' \subseteq Subs
        /\ o = "rejected" => strays' = strays
    BY <1>1, <1>3, <1>6 DEF abandoned, IInv, TypeOK
  <2>6. TypeOK'
    BY <1>1, <1>5, <2>1, <2>2, <2>3, <2>5, Facts DEF IInv, TypeOK, GoodClient, P
  <2>7. Filing'
    BY <1>1, <2>3, <2>4 DEF IInv, Filing
  <2>8. Pending'
    BY <1>1, <1>12, <2>1, <2>2, <2>3, <2>4 DEF IInv, Pending, hasRemainingSubmitAttempts
  <2>9. InFlight'
    BY <1>1, <1>3, <2>2, <2>3, <2>4 DEF IInv, InFlight
  <2>10. Histories'
    <3>1. sent[r.sub] # 0
      BY <1>3, Facts
    <3> QED
      BY <1>1, <2>1, <2>3, <2>4, <2>5, <3>1 DEF IInv, Histories
  <2>11. Verdicts'
    <3>1. ASSUME NEW i \in DOMAIN P', ~ P'[i].hadIndeterminateOutcome
          PROVE  /\ P'[i].sub \notin strays'
                 /\ P'[i].sub \in onchain' =>
                        \E q \in requests' : q.id = i /\ q.verdict = "accept"
      <4>1. CASE i # r.id
        <5>1. P[i].sub # r.sub /\ P[i].sub \in Subs
          BY <1>3, <2>3, <4>1, Facts DEF IInv, Filing
        <5> QED
          BY <1>1, <2>3, <2>5, <3>1, <4>1, <5>1 DEF IInv, Verdicts
      <4>2. CASE i = r.id
        <5>1. o = "rejected" /\ ~ P[i].hadIndeterminateOutcome
          BY <1>6, <1>12, <2>2, <2>3, <3>1, <4>2 DEF Outcome
        <5>2. r.verdict = "reject" /\ strays' = strays
          BY <1>6, <2>5, <5>1
        <5>3. P[i].sub \notin strays /\ P[i].sub \notin onchain
          BY <1>3, <4>2, <5>1, <5>2 DEF IInv, Verdicts
        <5> QED
          BY <1>1, <2>3, <2>4, <5>2, <5>3
      <4> QED
        BY <4>1, <4>2
    <3>2. \A s \in Subs : rows[s] = <<"rejected">> => s # r.sub
      BY <1>3, OneElement DEF IInv, Pending
    <3> QED
      BY <1>1, <2>1, <2>5, <3>1, <3>2 DEF IInv, Verdicts
  <2> QED
    BY <2>6, <2>7, <2>8, <2>9, <2>10, <2>11 DEF IInv
<1> QED
  BY <1>10, <1>11, <1>12

\* What disconnecting and destroying leave of a client.
LEMMA IdleTypes ==
    ASSUME NEW st \in {"unconnected", "destroyed"}, NEW n \in Nat
    PROVE  GoodClient(Idle(st, n)) /\ Idle(st, n).state = st
<1>1. NoJob \in [id : Nat, generation : Nat] /\ <<>> \in Seq(Nat) /\ Len(<<>>) = 0
  BY DEF NoJob
<1> DEFINE d == Idle(st, n)
<1>2. d \in ClientState /\ d.contexts = <<>> /\ d.state = st
  BY <1>1 DEF Idle, ClientState
<1> HIDE DEF d
<1>3. Len(d.contexts) <= kJobHistorySize
  BY <1>1, <1>2, ClientAssumption
<1>4. GoodClient(d) /\ d.state = st
  BY <1>2, <1>3 DEF GoodClient
<1> QED
  BY <1>4 DEF d

LEMMA CloseSteps ==
    ASSUME IInv, disconnect \/ Destroy
    PROVE  IInv'
<1> DEFINE ids == DOMAIN P
<1>1. /\ ids \in SUBSET DOMAIN P
      /\ "ambiguous" \in Outcome
      /\ client.jobs \in Nat /\ latest \in Nat /\ disconnects \in Nat
  BY DEF Outcome, IInv, TypeOK, ClientState
<1>2. /\ pendingSubmissions' = remove(pendingSubmissions, ids)
      /\ rows' = told(rows, ids, "ambiguous")
      /\ requests' = {}
      /\ strays' = abandoned(requests)
      /\ UNCHANGED <<sequence, sent, onchain>>
  BY DEF disconnect, Destroy, finalizeSubmission, P
<1>3. requests' = {q \in requests : q.id \notin ids} /\ strays' = abandoned(requests \ requests')
  <2>1. {q \in requests : q.id \notin ids} = {} /\ requests \ requests' = requests
    BY <1>2 DEF IInv, InFlight
  <2> QED
    BY <1>2, <2>1
<1>4. CASE disconnect
  <2>1. /\ answers' = told(answers, ids, "ambiguous")
        /\ client' = Idle("unconnected", client.jobs)
        /\ client.state # "destroyed"
        /\ latest' \in Nat /\ disconnects' \in Nat
    BY <1>1, <1>4 DEF disconnect, finalizeSubmission, P
  <2>2. GoodClient(client')
    BY <1>1, <2>1, IdleTypes
  <2> QED
    BY <1>1, <1>2, <1>3, <2>1, <2>2, FinishStep
<1>5. CASE Destroy
  <2>1. /\ answers' = answers
        /\ client' = Idle("destroyed", client.jobs)
        /\ latest' \in Nat /\ disconnects' \in Nat
    BY <1>1, <1>5 DEF Destroy
  <2>2. GoodClient(client') /\ client'.state = "destroyed"
    BY <1>1, <2>1, IdleTypes
  <2> QED
    BY <1>1, <1>2, <1>3, <2>1, <2>2, FinishStep
<1> QED
  BY <1>4, <1>5

-----------------------------------------------------------------------------
(* Retries                                                                 *)

\* What the due submissions become: each moves to its own fresh request id with
\* one attempt more.
LEMMA Retried ==
    ASSUME IInv, NEW due \in SUBSET scheduled, NEW ids \in FreshIds(due),
           pendingSubmissions' = retrySubmissions(due, ids),
           sequence' = sequence + Cardinality(due)
    PROVE  /\ sequence' \in Nat /\ sequence <= sequence'
           /\ IsFiniteSet({ids[d] : d \in due})
           /\ DOMAIN P' = (DOMAIN P \ due) \cup {ids[d] : d \in due}
           /\ \A i \in DOMAIN P \ due : P'[i] = P[i]
           /\ \A d \in due :
                 /\ d \in DOMAIN P /\ P[d].retryDue /\ P[d].attempts < kMaxSubmitAttempts
                 /\ ids[d] \in Nat /\ ids[d] < sequence' /\ ids[d] \notin DOMAIN P
                 /\ P'[ids[d]] \in PendingSubmission
                 /\ P'[ids[d]].sub = P[d].sub
                 /\ P'[ids[d]].attempts = P[d].attempts + 1
                 /\ P'[ids[d]].hadIndeterminateOutcome = P[d].hadIndeterminateOutcome
                 /\ P'[ids[d]].retryDue = FALSE
           /\ \A d, e \in due : ids[d] = ids[e] => d = e
<1>1. /\ due \subseteq DOMAIN P
      /\ \A d \in due : P[d].retryDue /\ P[d].attempts < kMaxSubmitAttempts
  BY DEF scheduled, P, hasRemainingSubmitAttempts
<1>2. IsFiniteSet(due) /\ Cardinality(due) \in Nat
  BY <1>1, Facts, FS_Subset, FS_CardinalityType
<1> DEFINE n == Cardinality(due)
<1>3. /\ ids \in [due -> sequence..(sequence + n - 1)]
      /\ \A i, j \in due : i < j => ids[i] < ids[j]
  BY DEF FreshIds
<1> HIDE DEF n
<1>4. n \in Nat /\ sequence' = sequence + n /\ sequence \in Nat
  BY <1>2, Facts DEF n
<1>5. \A d \in due : ids[d] \in sequence..(sequence + n - 1)
  BY <1>3
<1>6. \A d \in due : ids[d] \in Nat /\ sequence <= ids[d] /\ ids[d] < sequence'
  BY <1>4, <1>5
<1>7. \A d \in due : ids[d] \notin DOMAIN P
  BY <1>4, <1>6, Facts DEF IInv, Filing
<1>8. \A d, e \in due : ids[d] = ids[e] => d = e
  <2> SUFFICES ASSUME NEW d \in due, NEW e \in due, d # e
               PROVE  ids[d] # ids[e]
    OBVIOUS
  <2>1. d \in Nat /\ e \in Nat
    BY <1>1, Facts
  <2>2. d < e \/ e < d
    BY <2>1
  <2>3. (d < e => ids[d] < ids[e]) /\ (e < d => ids[e] < ids[d])
    BY <1>3
  <2> QED
    BY <1>6, <2>2, <2>3
<1>9. IsFiniteSet({ids[d] : d \in due})
  <2>1. IsFiniteSet(sequence..(sequence + n - 1))
    BY <1>4, FS_Interval
  <2>2. {ids[d] : d \in due} \subseteq sequence..(sequence + n - 1)
    BY <1>5
  <2> QED
    BY <2>1, <2>2, FS_Subset
<1>10. P' = [i \in (DOMAIN P \ due) \cup {ids[d] : d \in due} |->
               IF i \in DOMAIN P
               THEN P[i]
               ELSE LET p == P[CHOOSE d \in due : ids[d] = i]
                    IN  [p EXCEPT !.attempts = p.attempts + 1, !.retryDue = FALSE]]
  BY DEF retrySubmissions, P
<1>11. DOMAIN P' = (DOMAIN P \ due) \cup {ids[d] : d \in due}
  BY <1>10
<1>12. \A i \in DOMAIN P \ due : P'[i] = P[i]
  BY <1>10
<1>13. ASSUME NEW d \in due
       PROVE  P'[ids[d]] = [P[d] EXCEPT !.attempts = P[d].attempts + 1, !.retryDue = FALSE]
  <2>1. (CHOOSE e \in due : ids[e] = ids[d]) = d
    BY <1>8
  <2>2. ids[d] \in (DOMAIN P \ due) \cup {ids[e] : e \in due}
    OBVIOUS
  <2> QED
    BY <1>7, <1>10, <2>1, <2>2
<1>14. ASSUME NEW d \in due
       PROVE  /\ P'[ids[d]] \in PendingSubmission
              /\ P'[ids[d]].sub = P[d].sub
              /\ P'[ids[d]].attempts = P[d].attempts + 1
              /\ P'[ids[d]].hadIndeterminateOutcome = P[d].hadIndeterminateOutcome
              /\ P'[ids[d]].retryDue = FALSE
  <2>1. P[d] \in PendingSubmission /\ P[d].attempts < kMaxSubmitAttempts
    BY <1>1, Facts
  <2>2. P[d].attempts + 1 \in 1..kMaxSubmitAttempts
    BY <2>1, ClientAssumption DEF PendingSubmission
  <2> QED
    BY <1>13, <2>1, <2>2 DEF PendingSubmission
<1>15. sequence' \in Nat /\ sequence <= sequence'
  BY <1>4
<1>16. \A d \in due : d \in DOMAIN P
  BY <1>1
<1> QED
  BY <1>1, <1>6, <1>7, <1>8, <1>9, <1>11, <1>12, <1>14, <1>15, <1>16, Zenon

LEMMA TickStep ==
    ASSUME IInv, NEW due \in SUBSET scheduled, client.state # "destroyed", tick(due)
    PROVE  IInv'
<1>1. PICK ids \in FreshIds(due) :
         /\ pendingSubmissions' = retrySubmissions(due, ids)
         /\ requests' = requests \cup {newRequest(ids[d], pendingSubmissions[d].sub) : d \in due}
  BY DEF tick
<1>2. /\ client' \in installDeferred(client)
      /\ sequence' = sequence + Cardinality(due)
      /\ sent' = [s \in Subs |-> IF \E d \in due : P[d].sub = s THEN sent[s] + 1 ELSE sent[s]]
      /\ UNCHANGED <<latest, disconnects, strays, onchain, rows, answers>>
  BY DEF tick, P
<1>3. GoodClient(client') /\ client'.state # "destroyed"
  <2>1. GoodClient(client)
    BY DEF GoodClient, IInv, TypeOK
  <2> QED
    BY <1>2, <2>1, DeferredTypes
<1> DEFINE New == {ids[d] : d \in due}
           Req == {newRequest(ids[d], P[d].sub) : d \in due}
<1>4. /\ sequence' \in Nat /\ sequence <= sequence'
      /\ IsFiniteSet(New)
      /\ DOMAIN P' = (DOMAIN P \ due) \cup New
      /\ \A i \in DOMAIN P \ due : P'[i] = P[i]
      /\ \A d \in due :
            /\ d \in DOMAIN P /\ P[d].retryDue /\ P[d].attempts < kMaxSubmitAttempts
            /\ ids[d] \in Nat /\ ids[d] < sequence' /\ ids[d] \notin DOMAIN P
            /\ P'[ids[d]] \in PendingSubmission
            /\ P'[ids[d]].sub = P[d].sub
            /\ P'[ids[d]].attempts = P[d].attempts + 1
            /\ P'[ids[d]].hadIndeterminateOutcome = P[d].hadIndeterminateOutcome
            /\ P'[ids[d]].retryDue = FALSE
      /\ \A d, e \in due : ids[d] = ids[e] => d = e
  BY <1>1, <1>2, Retried
<1>5. /\ requests' = requests \cup Req
      /\ \A q \in Req : \E d \in due : q.id = ids[d] /\ q.sub = P[d].sub /\ q.verdict = "none"
      /\ \A d \in due : \E q \in Req : q.id = ids[d]
      /\ \A q, r \in Req : q.id = r.id => q = r
      /\ Req \subseteq Request
  <2>1. \A d \in due : /\ newRequest(ids[d], P[d].sub).id = ids[d]
                        /\ newRequest(ids[d], P[d].sub).sub = P[d].sub
                        /\ newRequest(ids[d], P[d].sub).verdict = "none"
                        /\ newRequest(ids[d], P[d].sub) \in Request
    BY <1>4, Facts DEF newRequest, Request
  <2>2. requests' = requests \cup Req
    BY <1>1 DEF P
  <2> QED
    BY <1>4, <2>1, <2>2
<1>6. \A i \in New : \E d \in due : i = ids[d]
  OBVIOUS
<1> HIDE DEF New, Req
<1>7. /\ \A s \in Subs : (\A d \in due : P[d].sub # s) => sent'[s] = sent[s]
      /\ \A d \in due : sent'[P[d].sub] = P[d].attempts + 1
      /\ sent' \in [Subs -> Nat]
  BY <1>2, <1>4, Facts DEF IInv, Pending
<1>8. \A i \in DOMAIN P \ due : \A d \in due : P[i].sub # P[d].sub
  BY <1>4 DEF IInv, Filing
<1>9. TypeOK'
  <2>1. \A i \in DOMAIN P' : i \in Nat /\ P'[i] \in PendingSubmission
    BY <1>4, <1>6, Facts
  <2> QED
    BY <1>2, <1>3, <1>4, <1>5, <1>7, <2>1 DEF IInv, TypeOK, GoodClient, P
<1>10. Filing'
  <2>1. IsFiniteSet(DOMAIN P')
    <3>1. IsFiniteSet(DOMAIN P \ due)
      BY Facts, FS_Subset
    <3>2. IsFiniteSet((DOMAIN P \ due) \cup New)
      BY <1>4, <3>1, FS_Union
    <3>3. DOMAIN P' = (DOMAIN P \ due) \cup New
      BY <1>4
    <3> QED
      BY <3>2, <3>3
  <2>2. \A i \in DOMAIN P' : i < sequence'
    BY <1>4, <1>6, Facts DEF IInv, Filing
  <2>3. ASSUME NEW i \in DOMAIN P', NEW j \in DOMAIN P', P'[i].sub = P'[j].sub
        PROVE  i = j
    <3>1. CASE i \in DOMAIN P \ due /\ j \in DOMAIN P \ due
      BY <1>4, <2>3, <3>1 DEF IInv, Filing
    <3>2. CASE i \in DOMAIN P \ due /\ j \in New
      BY <1>4, <1>6, <1>8, <2>3, <3>2
    <3>3. CASE i \in New /\ j \in DOMAIN P \ due
      BY <1>4, <1>6, <1>8, <2>3, <3>3
    <3>4. CASE i \in New /\ j \in New
      <4>1. PICK d \in due, e \in due : i = ids[d] /\ j = ids[e]
        BY <1>6, <3>4
      <4>2. P[d].sub = P[e].sub
        BY <1>4, <2>3, <4>1
      <4> QED
        BY <1>4, <4>1, <4>2 DEF IInv, Filing
    <3> QED
      BY <1>4, <3>1, <3>2, <3>3, <3>4
  <2> QED
    BY <2>1, <2>2, <2>3 DEF Filing
<1>11. Pending'
  <2> SUFFICES ASSUME NEW i \in DOMAIN P'
               PROVE  Pending!(i)'
    BY DEF Pending
  <2>1. CASE i \in DOMAIN P \ due
    BY <1>2, <1>4, <1>7, <1>8, <2>1, Facts DEF IInv, Pending
  <2>2. CASE i \in New
    BY <1>2, <1>4, <1>6, <1>7, <2>2 DEF IInv, Pending
  <2> QED
    BY <1>4, <2>1, <2>2
<1>12. InFlight'
  <2>1. \A r \in requests : r.id \in DOMAIN P \ due /\ r.id \notin New
    BY <1>4, <1>6 DEF IInv, InFlight
  <2>2. \A q \in Req : q.id \in New
    BY <1>5 DEF New
  <2>3. \A r, q \in requests' : r.id = q.id => r = q
    BY <1>5, <2>1, <2>2 DEF IInv, InFlight
  <2>4. ASSUME NEW r \in requests'
        PROVE  /\ r.id \in DOMAIN P'
               /\ P'[r.id].sub = r.sub
               /\ ~ P'[r.id].retryDue
               /\ r.verdict = "accept" => r.sub \in onchain'
    <3>1. CASE r \in requests
      BY <1>2, <1>4, <2>1, <3>1 DEF IInv, InFlight
    <3>2. CASE r \in Req
      BY <1>4, <1>5, <2>2, <3>2
    <3> QED
      BY <1>5, <3>1, <3>2
  <2>5. ASSUME NEW i \in DOMAIN P', ~ P'[i].retryDue
        PROVE  \E r \in requests' : r.id = i
    <3>1. CASE i \in DOMAIN P \ due
      BY <1>4, <1>5, <2>5, <3>1 DEF IInv, InFlight
    <3>2. CASE i \in New
      BY <1>5, <1>6, <3>2
    <3> QED
      BY <1>4, <3>1, <3>2
  <2> QED
    BY <2>3, <2>4, <2>5 DEF InFlight
<1>13. Histories'
  <2> SUFFICES ASSUME NEW s \in Subs
               PROVE  Histories!(s)'
    BY DEF Histories
  <2>1. CASE \A d \in due : P[d].sub # s
    <3>1. (\E i \in DOMAIN P : P[i].sub = s) => \E i \in DOMAIN P' : P'[i].sub = s
      BY <1>4, <2>1
    <3> QED
      BY <1>2, <1>3, <1>7, <2>1, <3>1 DEF IInv, Histories
  <2>2. CASE \E d \in due : P[d].sub = s
    <3>1. PICK d \in due : P[d].sub = s
      BY <2>2
    <3>2. /\ sent'[s] = P[d].attempts + 1 /\ P[d].attempts \in Nat
          /\ P[d].attempts < kMaxSubmitAttempts
          /\ rows'[s] = <<>> /\ answers'[s] = <<>>
      BY <1>2, <1>4, <1>7, <3>1, Facts DEF IInv, Pending, PendingSubmission
    <3>3. ids[d] \in DOMAIN P' /\ P'[ids[d]].sub = s
      BY <1>4, <3>1 DEF New
    <3> QED
      BY <3>2, <3>3, ClientAssumption
  <2> QED
    BY <2>1, <2>2
<1>14. Verdicts'
  <2>1. ASSUME NEW i \in DOMAIN P', ~ P'[i].hadIndeterminateOutcome
        PROVE  /\ P'[i].sub \notin strays'
               /\ P'[i].sub \in onchain' =>
                      \E q \in requests' : q.id = i /\ q.verdict = "accept"
    <3>1. CASE i \in DOMAIN P \ due
      BY <1>2, <1>4, <1>5, <2>1, <3>1 DEF IInv, Verdicts
    <3>2. CASE i \in New
      <4>1. PICK d \in due : i = ids[d]
        BY <1>6, <3>2
      <4>2. ~ P[d].hadIndeterminateOutcome /\ P'[i].sub = P[d].sub
        BY <1>4, <2>1, <4>1
      <4>3. \A r \in requests : r.id # d
        BY <1>4 DEF IInv, InFlight
      <4>4. P[d].sub \notin strays /\ P[d].sub \notin onchain
        BY <1>4, <4>2, <4>3 DEF IInv, Verdicts
      <4> QED
        BY <1>2, <4>2, <4>4
    <3> QED
      BY <1>4, <3>1, <3>2
  <2>2. \A s \in Subs : rows[s] = <<"rejected">> => sent'[s] = sent[s]
    <3>1. \A d \in due : rows[P[d].sub] # <<"rejected">>
      BY <1>4, OneElement DEF IInv, Pending
    <3> QED
      BY <1>7, <3>1
  <2> QED
    BY <1>2, <2>1, <2>2 DEF IInv, Verdicts
<1> QED
  BY <1>9, <1>10, <1>11, <1>12, <1>13, <1>14 DEF IInv

-----------------------------------------------------------------------------
(* The invariant holds                                                     *)

LEMMA InitIInv == Init => IInv
<1> SUFFICES ASSUME Init PROVE IInv
  OBVIOUS
<1>1. DOMAIN P = {} /\ IsFiniteSet(DOMAIN P) /\ sequence = 1 /\ requests = {}
  BY FS_EmptySet DEF Init, NoCandidate, P
<1>2. /\ strays = {} /\ onchain = {} /\ latest = 0 /\ disconnects = 0
      /\ \A s \in Subs : sent[s] = 0 /\ rows[s] = <<>> /\ answers[s] = <<>>
  BY DEF Init, NoCandidate
<1>3. TypeOK
  <2>1. GoodClient(client)
    BY IdleTypes DEF Init, NoCandidate
  <2>2. /\ sent \in [Subs -> Nat]
        /\ rows \in [Subs -> Seq(Outcome)]
        /\ answers \in [Subs -> Seq(Outcome \cup {"refused"})]
    BY DEF Init, NoCandidate
  <2> QED
    BY <1>1, <1>2, <2>1, <2>2 DEF TypeOK, GoodClient, P
<1>4. Filing /\ Pending /\ InFlight
  BY <1>1 DEF Filing, Pending, InFlight
<1>5. Histories /\ Verdicts
  BY <1>1, <1>2, OneElement, ClientAssumption DEF Histories, Verdicts
<1> QED
  BY <1>3, <1>4, <1>5 DEF IInv

LEMMA NextIInv == IInv /\ [Next]_vars => IInv'
<1> SUFFICES ASSUME IInv, [Next]_vars PROVE IInv'
  OBVIOUS
<1>1. CASE NewTemplate \/ SeedsChange \/ Connect
  BY <1>1, TemplateSteps
<1>2. CASE \E s \in Subs : submit(s)
  BY <1>2, SubmitStep
<1>3. CASE (\E r \in requests : DaemonActs(r)) \/ (\E s \in Subs : DaemonActsLate(s))
  BY <1>3, DaemonSteps
<1>4. CASE \E r \in requests : onHttpData(r)
  BY <1>4, HttpStep
<1>5. CASE \E due \in SUBSET scheduled : client.state # "destroyed" /\ tick(due)
  BY <1>5, TickStep
<1>6. CASE disconnect \/ Destroy
  BY <1>6, CloseSteps
<1>7. CASE UNCHANGED vars
  <2>1. UNCHANGED <<submitVars, onchain>> /\ UNCHANGED <<client, latest, disconnects>>
    BY <1>7 DEF vars, templateVars
  <2>2. GoodClient(client') /\ latest' \in Nat /\ disconnects' \in Nat
    BY <2>1 DEF IInv, TypeOK, GoodClient
  <2> QED
    BY <2>1, <2>2, ClientStep
<1> QED
  BY <1>1, <1>2, <1>3, <1>4, <1>5, <1>6, <1>7 DEF Next

LEMMA Invariance == Spec => []IInv
<1>1. Init => IInv
  BY InitIInv
<1>2. IInv /\ [Next]_vars => IInv'
  BY NextIInv
<1> QED
  BY <1>1, <1>2, PTL DEF Spec

\* The client's variables keep their types, and its contexts their bound.
THEOREM TypeCorrect == Spec => []TypeOK
<1>1. IInv => TypeOK
  BY DEF IInv
<1> QED
  BY <1>1, Invariance, PTL

\* A pending submission waits for its one request or its retry, and no reply
\* misses its submission.
THEOREM PendingWaitsTheorem == Spec => []PendingWaits
<1>1. IInv => PendingWaits
  <2> SUFFICES ASSUME IInv PROVE PendingWaits
    OBVIOUS
  <2>1. \A i \in DOMAIN P : P[i].retryDue \in BOOLEAN
    BY Facts DEF PendingSubmission
  <2> QED
    BY <2>1 DEF IInv, InFlight, PendingWaits, P
<1> QED
  BY <1>1, Invariance, PTL

\* Every candidate that was sent has exactly one final row, or none yet and one
\* pending submission, and at most one answer.
THEOREM OneResultTheorem == Spec => []OneResult
<1>1. IInv => OneResult
  <2> SUFFICES ASSUME IInv, NEW s \in Subs PROVE OneResult!(s)
    BY DEF OneResult
  <2> DEFINE E == {i \in DOMAIN pendingSubmissions : pendingSubmissions[i].sub = s}
  <2>1. CASE \E i \in DOMAIN P : P[i].sub = s
    <3>1. PICK i \in DOMAIN P : P[i].sub = s
      BY <2>1
    <3>2. E = {i}
      BY <3>1 DEF IInv, Filing, P
    <3>3. Cardinality(E) = 1
      BY <3>2, FS_Singleton
    <3>4. rows[s] = <<>> /\ answers[s] = <<>> /\ sent[s] # 0
      BY <3>1, Facts DEF IInv, Pending
    <3> QED
      BY <3>3, <3>4
  <2>2. CASE ~ \E i \in DOMAIN P : P[i].sub = s
    <3>1. Cardinality(E) = 0
      BY <2>2, FS_EmptySet DEF P
    <3> HIDE DEF E
    <3>2. CASE sent[s] = 0
      <4>1. rows[s] = <<>> /\ answers[s] \in {<<>>, <<"refused">>}
        BY <3>2 DEF IInv, Histories
      <4>2. Len(rows[s]) = 0 /\ Len(answers[s]) \in {0, 1}
        BY <4>1, Lengths, Zenon
      <4>3. Len(answers[s]) <= 1 /\ Len(rows[s]) + Cardinality(E) = Len(rows[s])
        BY <3>1, <4>2, Sums, Zenon
      <4> QED
        BY <3>2, <4>2, <4>3 DEF E
    <3>3. CASE sent[s] # 0
      <4>1. sent[s] > 0
        BY <3>3, Facts
      <4>2. PICK o \in Outcome : rows[s] = <<o>> /\ answers[s] \in {<<o>>, <<>>}
        BY <2>2, <4>1 DEF IInv, Histories
      <4>3. Len(rows[s]) = 1 /\ Len(answers[s]) \in {0, 1}
        BY <4>2, Lengths, Zenon
      <4>4. client.state # "destroyed" => answers[s] = rows[s]
        BY <4>1 DEF IInv, Histories
      <4>5. Len(answers[s]) <= 1 /\ Len(rows[s]) + Cardinality(E) = Len(rows[s])
        BY <3>1, <4>3, Sums, Zenon
      <4> QED
        BY <3>3, <4>3, <4>4, <4>5 DEF E
    <3> QED
      BY <3>2, <3>3
  <2> QED
    BY <2>1, <2>2
<1> QED
  BY <1>1, Invariance, PTL

\* An accepted candidate is on the chain, a rejected one is not and, the
\* statement being invariant, never will be.
THEOREM ResultTruthfulTheorem == Spec => []ResultTruthful
<1>1. IInv => ResultTruthful
  BY DEF IInv, Verdicts, ResultTruthful
<1> QED
  BY <1>1, Invariance, PTL

\* No candidate is sent more than kMaxSubmitAttempts times, and none is
\* rejected before that.
THEOREM AttemptsBoundedTheorem == Spec => []AttemptsBounded
<1>1. IInv => AttemptsBounded
  BY DEF IInv, Verdicts, Histories, AttemptsBounded
<1> QED
  BY <1>1, Invariance, PTL

\* A candidate with a result is never sent again.
THEOREM NoAttemptAfterResultTheorem == Spec => NoAttemptAfterResult
<1>1. IInv /\ [Next]_vars => [\A s \in Subs : rows[s] # <<>> => sent'[s] = sent[s]]_vars
  <2> SUFFICES ASSUME IInv, Next, NEW s \in Subs, rows[s] # <<>>
               PROVE  sent'[s] = sent[s]
    OBVIOUS
  <2>1. ASSUME NEW t \in Subs, submit(t)
        PROVE  sent'[s] = sent[s]
    <3>1. ~ begun(t) /\ (sent' = sent \/ sent' = [sent EXCEPT ![t] = 1])
      BY <2>1 DEF submit
    <3>2. sent[t] = 0
      BY <3>1, Facts DEF begun
    <3>3. s # t
      BY <3>2 DEF IInv, Histories
    <3>4. sent \in [Subs -> Nat]
      BY DEF IInv, TypeOK
    <3> QED
      BY <3>1, <3>3, <3>4
  <2>2. ASSUME NEW due \in SUBSET scheduled, tick(due)
        PROVE  sent'[s] = sent[s]
    <3>1. \A d \in due : P[d].sub # s
      BY DEF scheduled, P, IInv, Pending
    <3>2. sent' = [t \in Subs |-> IF \E d \in due : P[d].sub = t THEN sent[t] + 1 ELSE sent[t]]
      BY <2>2 DEF tick, P
    <3> QED
      BY <3>1, <3>2
  <2>3. CASE NewTemplate \/ SeedsChange \/ Connect
    BY <2>3 DEF NewTemplate, SeedsChange, Connect, submitVars
  <2>4. CASE (\E r \in requests : DaemonActs(r) \/ onHttpData(r)) \/ (\E t \in Subs : DaemonActsLate(t))
    BY <2>4 DEF DaemonActs, onHttpData, DaemonActsLate, submitVars
  <2>5. CASE disconnect \/ Destroy
    BY <2>5 DEF disconnect, Destroy
  <2> QED
    BY <2>1, <2>2, <2>3, <2>4, <2>5 DEF Next
<1> QED
  BY <1>1, Invariance, PTL DEF Spec, NoAttemptAfterResult

-----------------------------------------------------------------------------
(* The newest template                                                     *)

\* What FollowsSource asks of a connected client c when g is the newest
\* generation, and that nothing is deferred by a client that is not connected.
Follows(c, g) ==
    /\ c.state = "unconnected" => c.pendingSnapshot = 0
    /\ c.state \in {"connecting", "connected"} =>
          /\ c.pendingSnapshot \in {0, g}
          /\ g # 0 /\ g \notin BadTemplates /\ c.pendingSnapshot = 0
                => c.job.generation = g

\* A snapshot that is installed, or cannot be, is followed.
LEMMA InstallFollows ==
    ASSUME NEW c, GoodClient(c), c.state \in {"connecting", "connected"},
           c.pendingSnapshot = 0, NEW g \in Nat, NEW d \in installTemplate(c, g)
    PROVE  Follows(d, g)
<1>1. CASE g \in BadTemplates
  BY <1>1 DEF installTemplate, Follows
<1>2. CASE g \notin BadTemplates
  <2>1. PICK ctx : d = [c EXCEPT !.jobs = c.jobs + 1,
                                 !.job = [id |-> c.jobs + 1, generation |-> g],
                                 !.contexts = ctx,
                                 !.state = "connected"]
    BY <1>2 DEF installTemplate
  <2>2. /\ d.pendingSnapshot = 0 /\ d.state = "connected"
        /\ d.job = [id |-> c.jobs + 1, generation |-> g]
    BY <2>1 DEF GoodClient, ClientState
  <2> QED
    BY <2>2 DEF Follows
<1> QED
  BY <1>1, <1>2

\* A template that arrives is followed or deferred; one that is deferred
\* replaces the one before.
LEMMA OnTemplateFollows ==
    ASSUME NEW c, GoodClient(c), c.state \in {"connecting", "connected"},
           NEW g \in Nat, NEW d \in onDaemonTemplate(c, g)
    PROVE  Follows(d, g)
<1>1. CASE ~ isSeedReady(g)
  <2>1. d = [c EXCEPT !.pendingSnapshot = g]
    BY <1>1 DEF onDaemonTemplate
  <2>2. d.pendingSnapshot = g /\ d.state = c.state
    BY <2>1 DEF GoodClient, ClientState
  <2>3. CASE g = 0
    BY <2>2, <2>3 DEF Follows
  <2> QED
    BY <2>2, <2>3 DEF Follows
<1>2. CASE isSeedReady(g)
  <2> DEFINE e == [c EXCEPT !.pendingSnapshot = 0]
  <2>1. GoodClient(e) /\ e.state = c.state /\ e.pendingSnapshot = 0
    BY DEF GoodClient, ClientState
  <2>2. d \in installTemplate(e, g)
    BY <1>2 DEF onDaemonTemplate
  <2> QED
    BY <2>1, <2>2, InstallFollows
<1> QED
  BY <1>1, <1>2

LEMMA NextFollows ==
    ASSUME IInv, Follows(client, latest), [Next]_vars
    PROVE  Follows(client', latest')
<1>1. GoodClient(client) /\ latest \in Nat /\ latest + 1 \in Nat
  BY DEF IInv, TypeOK, GoodClient
<1>2. CASE NewTemplate
  <2>1. client' \in onDaemonTemplate(client, latest + 1) /\ latest' = latest + 1
    BY <1>2 DEF NewTemplate
  <2>2. CASE client.state \in {"unconnected", "destroyed"}
    <3>1. client' = client
      BY <2>1, <2>2 DEF onDaemonTemplate
    <3> QED
      BY <2>2, <3>1 DEF Follows
  <2>3. CASE client.state \in {"connecting", "connected"}
    BY <1>1, <2>1, <2>3, OnTemplateFollows
  <2> QED
    BY <1>1, <2>2, <2>3 DEF GoodClient, ClientState
<1>3. CASE Connect
  <2> DEFINE c == [client EXCEPT !.state = "connecting"]
  <2>1. GoodClient(c) /\ c.state = "connecting" /\ c.pendingSnapshot = 0
    BY <1>1, <1>3 DEF Connect, GoodClient, ClientState, Follows
  <2>2. latest' = latest /\ client' \in IF latest = 0 THEN {c} ELSE onDaemonTemplate(c, latest)
    BY <1>3 DEF Connect
  <2>3. CASE latest = 0
    BY <2>1, <2>2, <2>3 DEF Follows
  <2>4. CASE latest # 0
    <3>1. client' \in onDaemonTemplate(c, latest)
      BY <2>2, <2>4
    <3> QED
      BY <1>1, <2>1, <2>2, <3>1, OnTemplateFollows
  <2> QED
    BY <2>3, <2>4
<1>4. ASSUME NEW due \in SUBSET scheduled, client.state # "destroyed", tick(due)
      PROVE  Follows(client', latest')
  <2> DEFINE e == [client EXCEPT !.pendingSnapshot = 0]
  <2>1. GoodClient(e) /\ e.state = client.state /\ e.pendingSnapshot = 0
    BY <1>1 DEF GoodClient, ClientState
  <2>2. latest' = latest /\ client' \in installDeferred(client)
    BY <1>4 DEF tick
  <2>3. CASE client' = client
    BY <2>2, <2>3
  <2>4. CASE /\ client.pendingSnapshot # 0
             /\ client' \in installTemplate(e, client.pendingSnapshot)
    <3>1. client.state \in {"connecting", "connected"} /\ client.pendingSnapshot = latest
      BY <1>1, <1>4, <2>4 DEF Follows, GoodClient, ClientState
    <3> HIDE DEF e
    <3> QED
      BY <1>1, <2>1, <2>2, <2>4, <3>1, InstallFollows
  <2> QED
    BY <2>2, <2>3, <2>4 DEF installDeferred
<1>5. ASSUME NEW s \in Subs, submit(s)
      PROVE  Follows(client', latest')
  <2>1. PICK contexts : client' = [client EXCEPT !.contexts = contexts]
    BY <1>5 DEF submit
  <2>2. latest' = latest
    BY <1>5 DEF submit
  <2>3. /\ client'.state = client.state /\ client'.job = client.job
        /\ client'.pendingSnapshot = client.pendingSnapshot
    BY <1>1, <2>1 DEF GoodClient, ClientState
  <2> QED
    BY <2>2, <2>3 DEF Follows
<1>6. CASE disconnect \/ Destroy
  BY <1>6 DEF disconnect, Destroy, Idle, Follows
<1>7. CASE UNCHANGED <<client, latest>>
  BY <1>7
<1> QED
  <2>1. CASE \/ SeedsChange \/ \E s \in Subs : DaemonActsLate(s)
             \/ \E r \in requests : DaemonActs(r) \/ onHttpData(r)
    BY <1>7, <2>1 DEF SeedsChange, DaemonActsLate, DaemonActs, onHttpData, templateVars
  <2>2. CASE UNCHANGED vars
    BY <1>7, <2>2 DEF vars, templateVars
  <2> QED
    BY <1>2, <1>3, <1>4, <1>5, <1>6, <2>1, <2>2 DEF Next

\* A client that is connected or connecting works on the newest template of its
\* source or has that one deferred, in any order of templates, seeds, ticks,
\* candidates and reconnections (onDaemonTemplate, tick, connect).
THEOREM FollowsSourceTheorem == Spec => []FollowsSource
<1>1. Init => Follows(client, latest)
  BY DEF Init, NoCandidate, Idle, Follows
<1>2. IInv /\ Follows(client, latest) /\ [Next]_vars => Follows(client, latest)'
  BY NextFollows
<1>3. Follows(client, latest) => FollowsSource
  BY DEF Follows, FollowsSource
<1> QED
  BY <1>1, <1>2, <1>3, Invariance, PTL DEF Spec

-----------------------------------------------------------------------------
(* Refinement                                                              *)

\* What the histories make of a candidate's status.
LEMMA StatusOf ==
    ASSUME NEW s \in Subs
    PROVE  /\ answers[s] # <<>> => status[s] = answers[s][1]
           /\ answers[s] = <<>> /\ rows[s] # <<>> => status[s] = "lost"
           /\ answers[s] = <<>> /\ rows[s] = <<>> /\ sent[s] > 0 => status[s] = "pending"
           /\ answers[s] = <<>> /\ rows[s] = <<>> /\ ~ (sent[s] > 0) => status[s] = "new"
  BY DEF status

\* A pending entry is a pending candidate, and conversely.
LEMMA PendingStatus ==
    ASSUME IInv, NEW s \in Subs
    PROVE  status[s] = "pending" <=> \E i \in DOMAIN P : P[i].sub = s
<1>1. CASE \E i \in DOMAIN P : P[i].sub = s
  <2>1. answers[s] = <<>> /\ rows[s] = <<>> /\ sent[s] > 0
    BY <1>1, Facts DEF IInv, Pending
  <2> QED
    BY <1>1, <2>1, StatusOf
<1>2. CASE ~ \E i \in DOMAIN P : P[i].sub = s
  <2>1. CASE sent[s] = 0
    <3>1. answers[s] \in {<<>>, <<"refused">>} /\ rows[s] = <<>> /\ ~ (sent[s] > 0)
      BY <2>1 DEF IInv, Histories
    <3>2. status[s] \in {"refused", "new"}
      BY <3>1, StatusOf, OneElement
    <3> QED
      BY <1>2, <3>2
  <2>2. CASE sent[s] # 0
    <3>1. sent[s] > 0
      BY <2>2, Facts
    <3>2. PICK o \in Outcome : rows[s] = <<o>> /\ answers[s] \in {<<o>>, <<>>}
      BY <1>2, <3>1 DEF IInv, Histories
    <3>3. status[s] \in {o, "lost"}
      BY <3>2, StatusOf, OneElement
    <3> QED
      BY <1>2, <3>3 DEF Outcome
  <2> QED
    BY <2>1, <2>2
<1> QED
  BY <1>1, <1>2

\* A step that leaves the histories and the chain alone changes nothing.
LEMMA StutterStatus ==
    ASSUME UNCHANGED <<sent, rows, answers>>
    PROVE  status' = status
  BY DEF status

\* status' for the candidates a step finishes with outcome o, v being what the
\* abstract specification calls it.
LEMMA FinishedStatus ==
    ASSUME IInv, NEW ids \in SUBSET DOMAIN P, NEW o \in Outcome, NEW v,
           rows' = told(rows, ids, o), sent' = sent,
           \/ v = o /\ answers' = told(answers, ids, o)
           \/ v = "lost" /\ answers' = answers
    PROVE  \A s \in Subs : status'[s] = IF \E i \in ids : P[i].sub = s THEN v ELSE status[s]
<1> SUFFICES ASSUME NEW s \in Subs
             PROVE  status'[s] = IF \E i \in ids : P[i].sub = s THEN v ELSE status[s]
  OBVIOUS
<1>1. CASE \A i \in ids : P[i].sub # s
  <2>1. rows'[s] = rows[s]
    BY <1>1, Told
  <2>2. told(answers, ids, o)[s] = answers[s]
    BY <1>1, Told
  <2>3. answers'[s] = answers[s]
    BY <2>2
  <2> QED
    BY <1>1, <2>1, <2>3 DEF status
<1>2. CASE \E i \in ids : P[i].sub = s
  <2>1. PICK i \in ids : P[i].sub = s
    BY <1>2
  <2>2. rows'[s] = <<o>>
    BY <2>1, Told
  <2>3. answers[s] = <<>>
    BY <2>1 DEF IInv, Pending
  <2>4. CASE v = o /\ answers' = told(answers, ids, o)
    <3>1. answers'[s] = <<o>>
      BY <2>1, <2>4, Told
    <3>2. status'[s] = o
      BY <3>1, OneElement DEF status
    <3> QED
      BY <1>2, <2>4, <3>2
  <2>5. CASE v = "lost" /\ answers' = answers
    <3>1. status'[s] = "lost"
      BY <2>2, <2>3, <2>5, OneElement DEF status
    <3> QED
      BY <1>2, <2>5, <3>1
  <2> QED
    BY <2>4, <2>5
<1> QED
  BY <1>1, <1>2

\* Every step of the client is a step of DaemonSubmission or leaves its
\* variables unchanged.
LEMMA NextRefines == IInv /\ IInv' /\ [Next]_vars => [S!Next]_(S!vars)
<1> SUFFICES ASSUME IInv, IInv', [Next]_vars
             PROVE  S!Next \/ (status' = status /\ onchain' = onchain)
  BY DEF S!vars
<1>1. CASE UNCHANGED vars
  BY <1>1, StutterStatus DEF vars, submitVars
<1>2. CASE NewTemplate \/ SeedsChange \/ Connect
  BY <1>2, StutterStatus DEF NewTemplate, SeedsChange, Connect, submitVars
<1>3. ASSUME NEW s \in Subs, submit(s)
      PROVE  S!Begin(s)
  <2>1. /\ ~ begun(s)
        /\ onchain' = onchain /\ rows' = rows
        /\ \/ sent' = [sent EXCEPT ![s] = 1] /\ answers' = answers
           \/ sent' = sent /\ answers' = [answers EXCEPT ![s] = <<"refused">>]
    BY <1>3 DEF submit
  <2>2. sent[s] = 0 /\ answers[s] = <<>> /\ rows[s] = <<>>
    BY <2>1, Facts DEF begun, IInv, Histories
  <2>3. status[s] = "new"
    BY <2>2, StatusOf
  <2>4. sent \in [Subs -> Nat] /\ DOMAIN answers = Subs
    BY DEF IInv, TypeOK
  <2>5. CASE sent' = [sent EXCEPT ![s] = 1] /\ answers' = answers
    <3>1. \A t \in Subs : status'[t] = IF t = s THEN "pending" ELSE status[t]
      BY <2>1, <2>2, <2>4, <2>5 DEF status
    <3>2. status' = [status EXCEPT ![s] = "pending"]
      BY <3>1 DEF status
    <3> QED
      BY <2>1, <2>3, <3>2 DEF S!Begin
  <2>6. CASE sent' = sent /\ answers' = [answers EXCEPT ![s] = <<"refused">>]
    <3>1. answers'[s] = <<"refused">> /\ \A t \in Subs : t # s => answers'[t] = answers[t]
      BY <2>4, <2>6
    <3>2. status'[s] = "refused"
      BY <3>1, OneElement DEF status
    <3>3. \A t \in Subs : t # s => status'[t] = status[t]
      BY <2>1, <2>6, <3>1 DEF status
    <3>4. status' = [status EXCEPT ![s] = "refused"]
      BY <3>2, <3>3 DEF status
    <3> QED
      BY <2>1, <2>3, <3>4 DEF S!Begin
  <2> QED
    BY <2>1, <2>5, <2>6
<1>4. ASSUME NEW r \in requests, DaemonActs(r)
      PROVE  S!Take(r.sub) \/ (status' = status /\ onchain' = onchain)
  <2>1. /\ UNCHANGED <<sent, rows, answers>>
        /\ onchain' = onchain \cup {r.sub} \/ onchain' = onchain
    BY <1>4 DEF DaemonActs
  <2>2. status[r.sub] = "pending"
    BY PendingStatus, Facts DEF IInv, InFlight
  <2> QED
    BY <2>1, <2>2, StutterStatus DEF S!Take
<1>5. ASSUME NEW s \in Subs, DaemonActsLate(s)
      PROVE  S!Take(s)
  <2>1. /\ UNCHANGED <<sent, rows, answers>>
        /\ s \in strays /\ onchain' = onchain \cup {s}
    BY <1>5 DEF DaemonActsLate, submitVars
  <2>2. sent[s] # 0 /\ sent[s] \in Nat
    BY <2>1, Facts DEF IInv, Histories
  <2>3. CASE \E i \in DOMAIN P : P[i].sub = s
    BY <2>1, <2>3, PendingStatus, StutterStatus DEF S!Take
  <2>4. CASE ~ \E i \in DOMAIN P : P[i].sub = s
    <3>1. PICK o \in Outcome : rows[s] = <<o>> /\ answers[s] \in {<<o>>, <<>>}
      BY <2>2, <2>4 DEF IInv, Histories
    <3>2. o # "rejected"
      BY <2>1, <3>1 DEF IInv, Verdicts
    <3>3. status[s] \in {o, "lost"}
      BY <3>1, StatusOf, OneElement
    <3>4. status[s] \notin {"new", "refused", "rejected"}
      BY <3>2, <3>3 DEF Outcome
    <3> QED
      BY <2>1, <3>4, StutterStatus DEF S!Take
  <2> QED
    BY <2>3, <2>4
<1>6. ASSUME NEW due \in SUBSET scheduled, tick(due)
      PROVE  status' = status /\ onchain' = onchain
  <2>1. /\ UNCHANGED <<rows, answers, onchain>>
        /\ sent' = [s \in Subs |-> IF \E d \in due : P[d].sub = s THEN sent[s] + 1 ELSE sent[s]]
    BY <1>6 DEF tick, P
  <2>2. \A s \in Subs : sent'[s] > 0 <=> sent[s] > 0
    <3> SUFFICES ASSUME NEW s \in Subs PROVE sent'[s] > 0 <=> sent[s] > 0
      OBVIOUS
    <3>1. CASE \E d \in due : P[d].sub = s
      <4>1. sent[s] \in Nat /\ sent[s] # 0 /\ sent'[s] = sent[s] + 1
        BY <2>1, <3>1, Facts DEF scheduled, P
      <4> QED
        BY <4>1
    <3>2. CASE ~ \E d \in due : P[d].sub = s
      BY <2>1, <3>2
    <3> QED
      BY <3>1, <3>2
  <2> QED
    BY <2>1, <2>2 DEF status
<1>7. ASSUME NEW r \in requests, onHttpData(r)
      PROVE  S!Finish(r.sub) \/ (status' = status /\ onchain' = onchain)
  <2>1. r.id \in DOMAIN P /\ P[r.id].sub = r.sub /\ r.sub \in Subs
    BY Facts DEF IInv, InFlight
  <2>2. onchain' = onchain /\ sent' = sent
    BY <1>7 DEF onHttpData
  <2>3. \/ UNCHANGED <<rows, answers>>
        \/ \E o : finalizeSubmission({r.id}, o)
    BY <1>7, <2>1 DEF onHttpData, retryOrFinalizeSubmission, P
  <2>4. CASE UNCHANGED <<rows, answers>>
    BY <2>2, <2>4, StutterStatus
  <2>5. ASSUME NEW o, finalizeSubmission({r.id}, o)
        PROVE  S!Finish(r.sub)
    <3>1. rows' = told(rows, {r.id}, o) /\ answers' = told(answers, {r.id}, o)
      BY <2>5 DEF finalizeSubmission
    <3>2. rows[r.sub] = <<>> /\ sent[r.sub] # 0 /\ sent[r.sub] \in Nat
      BY <2>1, Facts DEF IInv, Pending
    <3>3. rows'[r.sub] = <<o>>
      BY <2>1, <3>1, <3>2, OneElement DEF told, P
    <3>4. o \in Outcome
      <4>1. \A s \in Subs : rows'[s] \in Seq(Outcome)
        BY DEF IInv, TypeOK
      <4>2. <<o>> \in Seq(Outcome)
        BY <2>1, <3>3, <4>1
      <4> QED
        BY <4>2
    <3>5. /\ o = "accepted" => r.sub \in onchain
          /\ o = "rejected" => r.sub \notin onchain
      BY <2>1, <2>2, <3>3 DEF IInv, Verdicts
    <3>6. {r.id} \in SUBSET DOMAIN P
      BY <2>1
    <3>7. \A s \in Subs : status'[s] = IF \E i \in {r.id} : P[i].sub = s THEN o ELSE status[s]
      BY <2>2, <3>1, <3>4, <3>6, FinishedStatus
    <3>8. status' = [status EXCEPT ![r.sub] = o]
      <4>1. \A s \in Subs : status'[s] = IF s = r.sub THEN o ELSE status[s]
        BY <2>1, <3>7
      <4>2. status = [s \in Subs |-> status[s]] /\ status' = [s \in Subs |-> status'[s]]
        BY DEF status
      <4> QED
        BY <2>1, <4>1, <4>2
    <3>9. status[r.sub] = "pending"
      BY <2>1, PendingStatus
    <3> QED
      BY <2>2, <3>4, <3>5, <3>8, <3>9 DEF S!Finish, Outcome
  <2> QED
    BY <2>3, <2>4, <2>5
<1>8. CASE disconnect \/ Destroy
  <2> DEFINE ids == DOMAIN P
             v == IF disconnect THEN "ambiguous" ELSE "lost"
  <2>1. /\ rows' = told(rows, ids, "ambiguous") /\ sent' = sent /\ onchain' = onchain
        /\ disconnect => answers' = told(answers, ids, "ambiguous")
        /\ ~ disconnect => answers' = answers
    BY <1>8 DEF disconnect, Destroy, finalizeSubmission, P
  <2>2. "ambiguous" \in Outcome /\ ids \in SUBSET DOMAIN P
    BY DEF Outcome
  <2>3. \A s \in Subs : status'[s] = IF \E i \in ids : P[i].sub = s THEN v ELSE status[s]
    BY <2>1, <2>2, FinishedStatus
  <2>4. \A s \in Subs : status'[s] = IF status[s] = "pending" THEN v ELSE status[s]
    BY <2>3, PendingStatus
  <2>5. status' = [s \in Subs |-> IF status[s] = "pending" THEN v ELSE status[s]]
    <3> HIDE DEF v
    <3> QED
      BY <2>4 DEF status
  <2>6. S!Abandon(v) /\ v \in {"ambiguous", "lost"}
    BY <2>1, <2>5 DEF S!Abandon
  <2> QED
    BY <2>6 DEF S!Next
<1> QED
  <2>1. ASSUME NEW r \in requests
        PROVE  r.sub \in Subs
    BY DEF IInv, TypeOK, Request
  <2> QED
    BY <1>1, <1>2, <1>3, <1>4, <1>5, <1>6, <1>7, <1>8, <2>1 DEF Next, S!Next

\* The client, with its request ids, retries, timeouts and late requests,
\* implements the promise of DaemonSubmission.
THEOREM Refinement == Spec => ImplementsSubmission
<1>1. Init => S!Init
  BY DEF Init, NoCandidate, S!Init, status
<1>2. IInv /\ IInv' /\ [Next]_vars => [S!Next]_(S!vars)
  BY NextRefines
<1> QED
  BY <1>1, <1>2, Invariance, PTL DEF Spec, S!Spec, ImplementsSubmission

(***************************************************************************)
(* The verifier's client                                                   *)
(***************************************************************************)

Counts == IsFiniteSet(pending) /\ OwnerCountExact /\ QueueBounded

VerifierInv == VerifierTypeOK /\ IsFiniteSet(controls) /\ Counts

-----------------------------------------------------------------------------
(* Sets of frames                                                          *)

\* The ids of the frames sent for a set of seeds are the next ones.
LEMMA SentIds ==
    ASSUME NEW first \in Nat, NEW set \in SUBSET Seeds
    PROVE  /\ IsFiniteSet(set) /\ Cardinality(set) \in Nat
           /\ \A s \in set : /\ idOf(first, set, s) \in Nat
                             /\ idOf(first, set, s) < first + Cardinality(set)
<1>1. IsFiniteSet(set) /\ Cardinality(set) \in Nat
  BY VerifierAssumption, FS_Subset, FS_CardinalityType
<1>2. ASSUME NEW s \in set
      PROVE  idOf(first, set, s) \in Nat /\ idOf(first, set, s) < first + Cardinality(set)
  <2> DEFINE lower == {t \in set : t < s}
  <2>1. lower \in SUBSET set /\ s \notin lower
    BY VerifierAssumption
  <2>2. lower # set
    BY <1>2, <2>1
  <2>3. Cardinality(lower) \in Nat /\ Cardinality(lower) <= Cardinality(set)
        /\ Cardinality(set) # Cardinality(lower)
    BY <1>1, <2>1, <2>2, FS_Subset, FS_CardinalityType
  <2>4. idOf(first, set, s) = first + Cardinality(lower)
    BY DEF idOf
  <2> QED BY <1>1, <2>3, <2>4
<1> QED BY <1>1, <1>2

\* Finitely many seeds are asked for by finitely many controls.
LEMMA SentFinite ==
    ASSUME NEW first \in Nat, NEW op, NEW set \in SUBSET Seeds
    PROVE  IsFiniteSet(sentControls(first, op, set))
<1> DEFINE T == sentControls(first, op, set)
           g == [s \in set |-> Control(idOf(first, set, s), op, s)]
<1>1. g \in [set -> T] /\ \A y \in T : \E s \in set : g[s] = y
  BY DEF sentControls
<1>2. g \in Surjection(set, T)
  BY <1>1 DEF Surjection
<1>3. IsFiniteSet(set)
  BY SentIds
<1> QED BY <1>2, <1>3, FS_Surjection

\* Their types, and the bound on their ids.
LEMMA SentTypes ==
    ASSUME NEW first \in Nat, NEW op \in Ops, NEW set \in SUBSET Seeds
    PROVE  /\ sentControls(first, op, set) \subseteq
                [id : Nat, op : Ops, seed : Seeds \cup {NoSeed}, afterSeen : BOOLEAN]
           /\ sentFrames(first, op, set) \subseteq
                [id : Nat, op : Ops \cup {"verify"}, seed : Seeds \cup {NoSeed}]
           /\ \A c \in sentControls(first, op, set) : c.id < first + Cardinality(set)
           /\ \A f \in sentFrames(first, op, set) : f.id < first + Cardinality(set) /\ f.seed \in Seeds
<1>1. \A s \in set : /\ idOf(first, set, s) \in Nat
                     /\ idOf(first, set, s) < first + Cardinality(set)
  BY SentIds
<1>2. ASSUME NEW c \in sentControls(first, op, set)
      PROVE  /\ c \in [id : Nat, op : Ops, seed : Seeds \cup {NoSeed}, afterSeen : BOOLEAN]
             /\ c.id < first + Cardinality(set)
  <2>1. PICK s \in set : c = Control(idOf(first, set, s), op, s)
    BY DEF sentControls
  <2>2. idOf(first, set, s) \in Nat /\ idOf(first, set, s) < first + Cardinality(set) /\ s \in Seeds
    BY <1>1
  <2> QED BY <2>1, <2>2 DEF Control
<1>3. ASSUME NEW f \in sentFrames(first, op, set)
      PROVE  /\ f \in [id : Nat, op : Ops \cup {"verify"}, seed : Seeds \cup {NoSeed}]
             /\ f.id < first + Cardinality(set) /\ f.seed \in Seeds
  <2>1. PICK s \in set : f = Frame(idOf(first, set, s), op, s)
    BY DEF sentFrames
  <2>2. idOf(first, set, s) \in Nat /\ idOf(first, set, s) < first + Cardinality(set) /\ s \in Seeds
    BY <1>1
  <2> QED BY <2>1, <2>2 DEF Frame
<1> QED BY <1>2, <1>3

-----------------------------------------------------------------------------
(* The queue                                                               *)

\* A queue that shrinks keeps its bounds.
LEMMA QueueShrinks ==
    ASSUME IsFiniteSet(pending), QueueBounded, pending' \subseteq pending
    PROVE  IsFiniteSet(pending') /\ QueueBounded'
<1>1. ASSUME NEW A, NEW B, A \subseteq B, B \subseteq pending, NEW n \in Int, Cardinality(B) <= n
      PROVE  Cardinality(A) <= n
  <2>1. IsFiniteSet(B) /\ IsFiniteSet(A) /\ Cardinality(A) <= Cardinality(B)
    BY <1>1, FS_Subset
  <2>2. Cardinality(A) \in Nat /\ Cardinality(B) \in Nat
    BY <2>1, FS_CardinalityType
  <2> QED BY <1>1, <2>1, <2>2
<1>2. maxQueue \in Int /\ maxQueue - candidateReserve \in Int /\ maxPendingPerMiner \in Int
  BY VerifierAssumption DEF candidateReserve
<1>3. Cardinality(pending') <= maxQueue
  BY <1>1, <1>2 DEF QueueBounded
<1>4. ordinary' \subseteq ordinary /\ ordinary \subseteq pending
  BY DEF ordinary
<1>5. Cardinality(ordinary') <= maxQueue - candidateReserve
  BY <1>1, <1>2, <1>4 DEF QueueBounded
<1>6. ASSUME NEW o \in Owners
      PROVE  /\ Cardinality(requestsOf(o)') <= maxPendingPerMiner + 1
             /\ Cardinality((requestsOf(o) \cap ordinary)') <= maxPendingPerMiner
  <2>1. requestsOf(o)' \subseteq requestsOf(o) /\ requestsOf(o) \subseteq pending
    BY DEF requestsOf
  <2>2. Cardinality(requestsOf(o)) <= maxPendingPerMiner + 1
        /\ Cardinality(requestsOf(o) \cap ordinary) <= maxPendingPerMiner
    BY <1>6 DEF QueueBounded
  <2> QED BY <1>1, <1>2, <1>4, <2>1, <2>2
<1>7. IsFiniteSet(pending')
  BY FS_Subset
<1>8. (maxQueue - candidateReserve)' = maxQueue - candidateReserve
  BY DEF candidateReserve
<1> QED BY <1>3, <1>5, <1>6, <1>7, <1>8 DEF QueueBounded

\* Erasing requests brings the counts down by as much.
LEMMA ErasedCounts ==
    ASSUME Counts, byOwner \in [Owners -> Nat], NEW set \in SUBSET pending, erased(set)
    PROVE  Counts' /\ byOwner' \in [Owners -> Nat] /\ pending' \subseteq pending
<1>1. pending' = pending \ set
  BY DEF erased
<1>2. ASSUME NEW o \in Owners
      PROVE  byOwner'[o] = Cardinality(requestsOf(o)') /\ byOwner'[o] \in Nat
  <2> DEFINE mine == requestsOf(o)
             gone == {p \in set : p.owner = o}
  <2>1. gone \subseteq mine /\ requestsOf(o)' = mine \ gone /\ mine \cap gone = gone
    BY <1>1 DEF requestsOf
  <2>2. IsFiniteSet(mine)
    BY FS_Subset DEF Counts, requestsOf
  <2>3. IsFiniteSet(gone) /\ Cardinality(mine) \in Nat /\ Cardinality(gone) \in Nat
        /\ Cardinality(gone) <= Cardinality(mine)
    BY <2>1, <2>2, FS_Subset, FS_CardinalityType
  <2>4. Cardinality(mine \ gone) = Cardinality(mine) - Cardinality(gone)
    BY <2>1, <2>2, FS_Difference
  <2>5. byOwner[o] = Cardinality(mine)
    BY DEF Counts, OwnerCountExact
  <2>6. byOwner'[o] = IF byOwner[o] <= Cardinality(gone) THEN 0 ELSE byOwner[o] - Cardinality(gone)
    BY DEF erased
  <2>7. byOwner'[o] = Cardinality(mine) - Cardinality(gone)
    BY <2>3, <2>5, <2>6
  <2> QED BY <2>1, <2>3, <2>4, <2>7
<1>3. byOwner' \in [Owners -> Nat]
  BY <1>2 DEF erased
<1>4. IsFiniteSet(pending') /\ QueueBounded'
  BY <1>1, QueueShrinks DEF Counts
<1> QED BY <1>1, <1>2, <1>3, <1>4 DEF Counts, OwnerCountExact

LEMMA FailedCounts ==
    ASSUME Counts, failAll
    PROVE  Counts' /\ byOwner' \in [Owners -> Nat] /\ pending' \subseteq pending
<1>1. pending' = {} /\ byOwner' = [o \in Owners |-> 0]
  BY DEF failAll
<1>2. \A o \in Owners : requestsOf(o)' = {}
  BY <1>1 DEF requestsOf
<1>3. IsFiniteSet(pending') /\ QueueBounded'
  BY <1>1, QueueShrinks DEF Counts
<1> QED BY <1>1, <1>2, <1>3, FS_EmptySet DEF Counts, OwnerCountExact

\* cancelOwner leaves the other miners' requests and counts alone.
LEMMA CancelledCounts ==
    ASSUME Counts, byOwner \in [Owners -> Nat], NEW o \in Owners, cancelOwner(o)
    PROVE  Counts' /\ byOwner' \in [Owners -> Nat] /\ pending' \subseteq pending
<1>1. pending' = {p \in pending : p.owner # o} /\ byOwner' = [byOwner EXCEPT ![o] = 0]
  BY DEF cancelOwner
<1>2. ASSUME NEW w \in Owners
      PROVE  byOwner'[w] = Cardinality(requestsOf(w)')
  <2>1. CASE w = o
    <3>1. requestsOf(w)' = {}
      BY <1>1, <2>1 DEF requestsOf
    <3> QED BY <1>1, <2>1, <3>1, FS_EmptySet
  <2>2. CASE w # o
    <3>1. requestsOf(w)' = requestsOf(w)
      BY <1>1, <2>2 DEF requestsOf
    <3> QED BY <1>1, <2>2, <3>1 DEF Counts, OwnerCountExact
  <2> QED BY <2>1, <2>2
<1>3. IsFiniteSet(pending') /\ QueueBounded'
  BY <1>1, QueueShrinks DEF Counts
<1> QED BY <1>1, <1>2, <1>3 DEF Counts, OwnerCountExact

\* A request that is admitted keeps the bounds.
LEMMA AdmittedCounts ==
    ASSUME VerifierTypeOK, Counts, NEW o \in Owners, NEW s \in Seeds, NEW priority \in BOOLEAN,
           verify(o, s, priority)
    PROVE  Counts' /\ byOwner' \in [Owners -> Nat]
<1> DEFINE new == [id |-> nextId, owner |-> o, priority |-> priority]
<1>1. /\ pending' = pending \cup {new} /\ byOwner' = [byOwner EXCEPT ![o] = byOwner[o] + 1]
      /\ Cardinality(pending) < admissionLimit(priority) /\ byOwner[o] < ownerLimit(priority)
  BY DEF verify
<1>2. new \notin pending /\ new.owner = o /\ (new.priority <=> priority)
  <2>1. \A p \in pending : p.id < nextId /\ p.id \in Nat
    BY DEF VerifierTypeOK
  <2>2. new.id = nextId /\ nextId \in Nat
    BY DEF VerifierTypeOK
  <2>3. new \notin pending
    BY <2>1, <2>2
  <2> QED BY <2>3
<1> HIDE DEF new
<1>3. /\ IsFiniteSet(pending) /\ QueueBounded /\ OwnerCountExact
      /\ byOwner \in [Owners -> Nat]
  BY DEF Counts, VerifierTypeOK
<1>4. ASSUME NEW A, A \subseteq pending
      PROVE  /\ IsFiniteSet(A \cup {new}) /\ Cardinality(A) \in Nat
             /\ Cardinality(A \cup {new}) = Cardinality(A) + 1
  <2>1. IsFiniteSet(A) /\ new \notin A
    BY <1>2, <1>3, <1>4, FS_Subset
  <2> QED BY <2>1, FS_AddElement, FS_CardinalityType
<1>5. /\ maxQueue \in Nat /\ maxPendingPerMiner \in Nat /\ candidateReserve \in Nat
      /\ candidateReserve <= maxQueue
  BY VerifierAssumption DEF candidateReserve
<1>6. IsFiniteSet(pending')
  BY <1>1, <1>4
<1>7. requestsOf(o)' = requestsOf(o) \cup {new} /\ requestsOf(o) \subseteq pending
  BY <1>1, <1>2 DEF requestsOf
<1>8. \A w \in Owners \ {o} : requestsOf(w)' = requestsOf(w)
  BY <1>1, <1>2 DEF requestsOf
<1>9. ordinary \subseteq pending
      /\ (priority => ordinary' = ordinary) /\ (~ priority => ordinary' = ordinary \cup {new})
  BY <1>1, <1>2 DEF ordinary
<1>10. OwnerCountExact' /\ byOwner' \in [Owners -> Nat]
  <2>1. byOwner'[o] = Cardinality(requestsOf(o)')
    BY <1>1, <1>3, <1>4, <1>7 DEF OwnerCountExact
  <2>2. \A w \in Owners \ {o} : byOwner'[w] = Cardinality(requestsOf(w)')
    BY <1>1, <1>3, <1>8 DEF OwnerCountExact
  <2> QED BY <1>1, <1>3, <2>1, <2>2 DEF OwnerCountExact
<1>11. Cardinality(pending') <= maxQueue
  <2>1. Cardinality(pending') = Cardinality(pending) + 1 /\ Cardinality(pending) \in Nat
    BY <1>1, <1>4
  <2>2. admissionLimit(priority) \in Nat /\ admissionLimit(priority) <= maxQueue
    BY <1>5 DEF admissionLimit
  <2> QED BY <1>1, <1>5, <2>1, <2>2
<1>12. Cardinality(ordinary') <= maxQueue - candidateReserve
  <2>1. CASE priority
    BY <1>3, <1>9, <2>1 DEF QueueBounded
  <2>2. CASE ~ priority
    <3>1. Cardinality(ordinary) <= Cardinality(pending) /\ Cardinality(ordinary) \in Nat
          /\ Cardinality(pending) \in Nat
      BY <1>3, <1>9, FS_Subset, FS_CardinalityType
    <3>2. Cardinality(ordinary') = Cardinality(ordinary) + 1
      BY <1>4, <1>9, <2>2
    <3>3. Cardinality(pending) < maxQueue - candidateReserve
      BY <1>1, <2>2 DEF admissionLimit
    <3> QED BY <1>5, <3>1, <3>2, <3>3
  <2> QED BY <2>1, <2>2
<1>13. ASSUME NEW w \in Owners
       PROVE  /\ Cardinality(requestsOf(w)') <= maxPendingPerMiner + 1
              /\ Cardinality((requestsOf(w) \cap ordinary)') <= maxPendingPerMiner
  <2>1. CASE w # o
    <3>1. requestsOf(w)' = requestsOf(w) /\ new \notin requestsOf(w)
      BY <1>2, <1>8, <2>1 DEF requestsOf
    <3>2. (requestsOf(w) \cap ordinary)' = requestsOf(w) \cap ordinary
      BY <1>9, <3>1
    <3> QED BY <1>3, <3>1, <3>2 DEF QueueBounded
  <2>2. CASE w = o
    <3>1. Cardinality(requestsOf(o)') = byOwner[o] + 1 /\ byOwner[o] = Cardinality(requestsOf(o))
          /\ byOwner[o] \in Nat
      BY <1>3, <1>4, <1>7 DEF OwnerCountExact
    <3>2. byOwner[o] < maxPendingPerMiner + 1
      BY <1>1, <1>5, <3>1 DEF ownerLimit
    <3>3. CASE priority
      <4>1. (requestsOf(o) \cap ordinary)' = requestsOf(o) \cap ordinary
        BY <1>2, <1>7, <1>9, <3>3
      <4> QED BY <1>3, <1>5, <2>2, <3>1, <3>2, <4>1 DEF QueueBounded
    <3>4. CASE ~ priority
      <4>1. (requestsOf(o) \cap ordinary)' \subseteq requestsOf(o)' /\ IsFiniteSet(requestsOf(o)')
        BY <1>4, <1>7
      <4>2. Cardinality((requestsOf(o) \cap ordinary)') <= Cardinality(requestsOf(o)')
            /\ Cardinality((requestsOf(o) \cap ordinary)') \in Nat
        BY <4>1, FS_Subset, FS_CardinalityType
      <4>3. byOwner[o] < maxPendingPerMiner
        BY <1>1, <3>4 DEF ownerLimit
      <4> QED BY <1>5, <2>2, <3>1, <4>2, <4>3
    <3> QED BY <3>3, <3>4
  <2> QED BY <2>1, <2>2
<1>14. (maxQueue - candidateReserve)' = maxQueue - candidateReserve
  BY DEF candidateReserve
<1> QED BY <1>6, <1>10, <1>11, <1>12, <1>13, <1>14 DEF Counts, QueueBounded

-----------------------------------------------------------------------------
(* The steps                                                               *)

\* The part of the type invariant that does not concern the queue.
RestOK ==
    /\ link \in {"connecting", "hello", "ready", "down", "stopped"}
    /\ controls \subseteq [id : Nat, op : Ops, seed : Seeds \cup {NoSeed}, afterSeen : BOOLEAN]
    /\ seeds \in [Seeds -> {"none", "Wanted", "Requested", "Ready"}]
    /\ nextId \in Nat
    /\ wire \subseteq [id : Nat, op : Ops \cup {"verify"}, seed : Seeds \cup {NoSeed}]
    /\ \A f \in wire : f.op # "hello" => f.seed \in Seeds
    /\ prepared \subseteq Seeds
    /\ faults \in 0..MaxFaults
    /\ (\A f \in wire : f.id < nextId) /\ (\A c \in controls : c.id < nextId)
    /\ IsFiniteSet(controls)

QueueOK ==
    /\ pending \subseteq [id : Nat, owner : Owners, priority : BOOLEAN]
    /\ byOwner \in [Owners -> Nat]
    /\ \A p \in pending : p.id < nextId
    /\ Counts

LEMMA Split == VerifierInv <=> RestOK /\ QueueOK
  BY DEF VerifierInv, VerifierTypeOK, RestOK, QueueOK

LEMMA InitHolds == VerifierInit => VerifierInv
<1> SUFFICES ASSUME VerifierInit PROVE VerifierInv
  OBVIOUS
<1> USE VerifierAssumption
<1>1. RestOK
  BY FS_EmptySet DEF VerifierInit, NoRequest, RestOK
<1>2. pending = {} /\ byOwner = [o \in Owners |-> 0]
  BY DEF VerifierInit, NoRequest
<1>3. ordinary = {} /\ \A o \in Owners : requestsOf(o) = {}
  BY <1>2 DEF ordinary, requestsOf
<1>4. OwnerCountExact
  BY <1>2, <1>3, FS_EmptySet DEF OwnerCountExact
<1>5. candidateReserve \in Nat /\ candidateReserve <= maxQueue /\ maxQueue \in Nat
  BY DEF candidateReserve
<1>6. Cardinality({}) = 0 /\ \A o \in Owners : requestsOf(o) \cap ordinary = {}
  BY <1>3, FS_EmptySet
<1>7. QueueBounded
  <2>1. Cardinality(pending) <= maxQueue /\ Cardinality(ordinary) <= maxQueue - candidateReserve
    BY <1>2, <1>3, <1>5, <1>6
  <2>2. ASSUME NEW o \in Owners
        PROVE  /\ Cardinality(requestsOf(o)) <= maxPendingPerMiner + 1
               /\ Cardinality(requestsOf(o) \cap ordinary) <= maxPendingPerMiner
    BY <1>3, <1>6
  <2> QED BY <2>1, <2>2 DEF QueueBounded
<1>8. QueueOK
  BY <1>2, <1>4, <1>7, FS_EmptySet DEF QueueOK, Counts
<1> QED BY <1>1, <1>8, Split

\* A step that only takes requests off the queue, and never an id back.
LEMMA QueueStep ==
    ASSUME QueueOK, nextId \in Nat, nextId' \in Nat, nextId <= nextId', Counts',
           byOwner' \in [Owners -> Nat], pending' \subseteq pending
    PROVE  QueueOK'
<1>1. \A p \in pending : p.id \in Nat /\ p.id < nextId
  BY DEF QueueOK
<1>2. \A p \in pending' : p.id < nextId'
  BY <1>1
<1> QED BY <1>2 DEF QueueOK

LEMMA QueueUnchanged ==
    ASSUME QueueOK, nextId \in Nat, nextId' \in Nat, nextId <= nextId',
           UNCHANGED <<pending, byOwner>>
    PROVE  QueueOK'
<1>1. Counts'
  BY DEF QueueOK, Counts, OwnerCountExact, QueueBounded, requestsOf, ordinary, candidateReserve
<1> QED BY <1>1, QueueStep DEF QueueOK

LEMMA Disconnected ==
    ASSUME RestOK, nextId' = nextId, NEW sd, disconnected(sd),
           sd \in [Seeds -> {"none", "Wanted", "Requested", "Ready"}]
    PROVE  RestOK'
<1>1. /\ faults < MaxFaults /\ faults' = faults + 1 /\ link' = "down"
      /\ controls' = {} /\ wire' = {} /\ prepared' = {} /\ seeds' = unprepared(sd)
  BY DEF disconnected
<1>2. faults' \in 0..MaxFaults
  BY <1>1, VerifierAssumption DEF RestOK
<1>3. seeds' \in [Seeds -> {"none", "Wanted", "Requested", "Ready"}]
  BY <1>1 DEF unprepared
<1> QED BY <1>1, <1>2, <1>3, FS_EmptySet DEF RestOK

\* The frames added by sending to sets of seeds.
LEMMA Sending ==
    ASSUME RestOK, NEW op \in Ops, NEW set \in SUBSET Seeds, NEW first \in Nat,
           NEW last \in Nat, first + Cardinality(set) <= last
    PROVE  /\ sentControls(first, op, set) \subseteq
                [id : Nat, op : Ops, seed : Seeds \cup {NoSeed}, afterSeen : BOOLEAN]
           /\ sentFrames(first, op, set) \subseteq
                [id : Nat, op : Ops \cup {"verify"}, seed : Seeds \cup {NoSeed}]
           /\ \A c \in sentControls(first, op, set) : c.id < last
           /\ \A f \in sentFrames(first, op, set) : f.id < last /\ f.seed \in Seeds
           /\ IsFiniteSet(sentControls(first, op, set))
<1>1. Cardinality(set) \in Nat
  BY SentIds
<1>2. /\ sentControls(first, op, set) \subseteq
            [id : Nat, op : Ops, seed : Seeds \cup {NoSeed}, afterSeen : BOOLEAN]
      /\ sentFrames(first, op, set) \subseteq
            [id : Nat, op : Ops \cup {"verify"}, seed : Seeds \cup {NoSeed}]
      /\ \A c \in sentControls(first, op, set) : c.id < first + Cardinality(set)
      /\ \A f \in sentFrames(first, op, set) : f.id < first + Cardinality(set) /\ f.seed \in Seeds
  BY SentTypes
<1>3. IsFiniteSet(sentControls(first, op, set))
  BY SentFinite
<1>4. (\A c \in sentControls(first, op, set) : c.id \in Nat)
      /\ (\A f \in sentFrames(first, op, set) : f.id \in Nat)
  BY <1>2
<1>5. \A c \in sentControls(first, op, set) : c.id < last
  BY <1>1, <1>2, <1>4
<1>6. \A f \in sentFrames(first, op, set) : f.id < last
  BY <1>1, <1>2, <1>4
<1> QED BY <1>2, <1>3, <1>5, <1>6

\* A tick that keeps the connection.
LEMMA TickRest ==
    ASSUME RestOK, NEW expired, NEW x, NEW released, NEW due, verifierTick(expired, x, released, due)
    PROVE  RestOK' /\ nextId' \in Nat /\ nextId <= nextId'
<1> DEFINE sd == seedsAfterExpiry(x, released)
           first == nextId + Cardinality(released)
           last == first + Cardinality(due)
           Controls == [id : Nat, op : Ops, seed : Seeds \cup {NoSeed}, afterSeen : BOOLEAN]
           Frames == [id : Nat, op : Ops \cup {"verify"}, seed : Seeds \cup {NoSeed}]
<1>1. x \subseteq controls /\ released \in SUBSET Seeds /\ due \in SUBSET Seeds
  BY DEF verifierTick, ExpiredControls, present
<1>2. /\ link' = (IF link = "down" THEN "connecting" ELSE link) /\ prepared' = prepared
      /\ faults + Cardinality(x) <= MaxFaults /\ faults' = faults + Cardinality(x)
      /\ seeds' = [s \in Seeds |-> IF s \in due THEN "Requested" ELSE sd[s]]
  BY DEF verifierTick
<1>3. \/ /\ controls' = (controls \ x) \cup sentControls(nextId, "release_seed", released)
                            \cup sentControls(first, "prepare_seed", due)
         /\ wire' = wire \cup sentFrames(nextId, "release_seed", released)
                         \cup sentFrames(first, "prepare_seed", due)
         /\ nextId' = last
      \/ UNCHANGED <<controls, wire, nextId>>
  BY DEF verifierTick
<1>4. faults' \in 0..MaxFaults
  <2>1. Cardinality(x) \in Nat
    BY <1>1, FS_Subset, FS_CardinalityType DEF RestOK
  <2> QED BY <1>2, <2>1, VerifierAssumption DEF RestOK
<1>5. seeds' \in [Seeds -> {"none", "Wanted", "Requested", "Ready"}]
  <2>1. sd \in [Seeds -> {"none", "Wanted", "Requested", "Ready"}]
    BY DEF seedsAfterExpiry, RestOK
  <2> HIDE DEF sd
  <2> QED BY <1>2, <2>1
<1>6. /\ nextId \in Nat /\ first \in Nat /\ last \in Nat /\ nextId <= first /\ first <= last
      /\ nextId + Cardinality(released) <= last
  BY <1>1, SentIds DEF RestOK
<1>7. CASE UNCHANGED <<controls, wire, nextId>>
  BY <1>2, <1>4, <1>5, <1>6, <1>7 DEF RestOK
<1>8. CASE /\ controls' = (controls \ x) \cup sentControls(nextId, "release_seed", released)
                             \cup sentControls(first, "prepare_seed", due)
           /\ wire' = wire \cup sentFrames(nextId, "release_seed", released)
                           \cup sentFrames(first, "prepare_seed", due)
           /\ nextId' = last
  <2> DEFINE c1 == sentControls(nextId, "release_seed", released)
             c2 == sentControls(first, "prepare_seed", due)
             f1 == sentFrames(nextId, "release_seed", released)
             f2 == sentFrames(first, "prepare_seed", due)
  <2> HIDE DEF first, last
  <2>1. /\ c1 \subseteq Controls /\ f1 \subseteq Frames /\ IsFiniteSet(c1)
        /\ (\A c \in c1 : c.id < last) /\ (\A f \in f1 : f.id < last /\ f.seed \in Seeds)
    BY <1>1, <1>6, Sending DEF Ops
  <2>2. first + Cardinality(due) <= last
    BY <1>6 DEF last
  <2>3. /\ c2 \subseteq Controls /\ f2 \subseteq Frames /\ IsFiniteSet(c2)
        /\ (\A c \in c2 : c.id < last) /\ (\A f \in f2 : f.id < last /\ f.seed \in Seeds)
    BY <1>1, <1>6, <2>2, Sending DEF Ops
  <2>4. controls' = (controls \ x) \cup c1 \cup c2 /\ wire' = wire \cup f1 \cup f2
    BY <1>8
  <2> HIDE DEF c1, c2, f1, f2
  <2>5. IsFiniteSet(controls')
    <3>1. IsFiniteSet(controls \ x)
      BY FS_Difference DEF RestOK
    <3>2. IsFiniteSet((controls \ x) \cup c1)
      BY <2>1, <3>1, FS_Union
    <3> QED BY <2>3, <2>4, <3>2, FS_Union
  <2>6. controls' \subseteq Controls /\ wire' \subseteq Frames
    BY <2>1, <2>3, <2>4 DEF RestOK
  <2>7. (\A c \in controls : c.id < last) /\ (\A f \in wire : f.id < last)
    <3>1. ASSUME NEW c \in controls PROVE c.id < last
      <4>1. c.id \in Nat /\ c.id < nextId
        BY DEF RestOK
      <4> QED BY <1>6, <4>1
    <3>2. ASSUME NEW f \in wire PROVE f.id < last
      <4>1. f.id \in Nat /\ f.id < nextId
        BY DEF RestOK
      <4> QED BY <1>6, <4>1
    <3> QED BY <3>1, <3>2
  <2>8. (\A c \in controls' : c.id < last) /\ (\A f \in wire' : f.id < last)
    BY <2>1, <2>3, <2>4, <2>7
  <2>9. nextId' = last
    BY <1>8
  <2>10. \A f \in wire' : f.op # "hello" => f.seed \in Seeds
    BY <2>1, <2>3, <2>4 DEF RestOK
  <2> QED BY <1>2, <1>4, <1>5, <1>6, <2>5, <2>6, <2>8, <2>9, <2>10 DEF RestOK
<1> QED BY <1>3, <1>7, <1>8

\* A write that fails.
LEMMA WriteStep ==
    ASSUME RestOK, QueueOK, NEW expired \in SUBSET pending, NEW released, NEW added,
           WriteFails(expired, released, added)
    PROVE  RestOK' /\ QueueOK'
<1> DEFINE sd == [s \in Seeds |-> IF s \in released THEN "none"
                                  ELSE IF s \in added THEN "Wanted" ELSE seeds[s]]
<1>1. disconnected(sd) /\ erased(expired) /\ nextId' = nextId
  BY DEF WriteFails
<1>2. sd \in [Seeds -> {"none", "Wanted", "Requested", "Ready"}]
  BY DEF RestOK
<1> HIDE DEF sd
<1>3. RestOK'
  BY <1>1, <1>2, Disconnected
<1>4. nextId \in Nat /\ nextId' \in Nat /\ nextId <= nextId'
  BY <1>1 DEF RestOK
<1>5. QueueOK'
  BY <1>1, <1>4, ErasedCounts, QueueStep DEF QueueOK
<1> QED BY <1>3, <1>5

\* Forgetting the control that a reply belongs to.
LEMMA ReplyRest ==
    ASSUME RestOK, NEW f, wire' = wire \ {f}, controls' = {c \in controls : c.id # f.id},
           prepared' \subseteq Seeds, faults' \in 0..MaxFaults, UNCHANGED <<link, nextId>>,
           seeds' \in [Seeds -> {"none", "Wanted", "Requested", "Ready"}]
    PROVE  RestOK'
<1>1. IsFiniteSet(controls')
  BY FS_Subset DEF RestOK
<1> QED BY <1>1 DEF RestOK

LEMMA NextStep ==
    ASSUME RestOK, QueueOK, [VerifierNext]_verifierVars
    PROVE  RestOK' /\ QueueOK'
<1> USE VerifierAssumption
<1> DEFINE Status == {"none", "Wanted", "Requested", "Ready"}
<1>0. nextId \in Nat /\ IsFiniteSet(controls) /\ Counts /\ byOwner \in [Owners -> Nat]
  BY DEF RestOK, QueueOK
<1>1. CASE verifierDisconnect
  <2>1. RestOK' /\ nextId' = nextId
    BY <1>1, Disconnected DEF verifierDisconnect, RestOK
  <2> QED BY <1>0, <1>1, <2>1, FailedCounts, QueueStep DEF verifierDisconnect
<1>2. CASE onConnect
  <2>1. nextId' \in Nat /\ nextId <= nextId' /\ UNCHANGED <<pending, byOwner>>
    BY <1>0, <1>2 DEF onConnect
  <2>2. IsFiniteSet(controls')
    BY <1>2, FS_Singleton DEF onConnect
  <2>3. RestOK'
    BY <1>2, <2>1, <2>2 DEF onConnect, RestOK, Control, Frame, Ops
  <2> QED BY <1>0, <2>1, <2>3, QueueUnchanged
<1>3. CASE stop
  <2>1. RestOK' /\ nextId' = nextId
    BY <1>3, FS_EmptySet DEF stop, RestOK
  <2> QED BY <1>0, <1>3, <2>1, FailedCounts, QueueStep DEF stop
<1>4. CASE HelloReply
  <2> DEFINE wanted == {s \in Seeds : seeds[s] = "Wanted"}
             last == nextId + Cardinality(wanted)
  <2>1. /\ link' = "ready" /\ nextId' = last
        /\ controls' = sentControls(nextId, "prepare_seed", wanted)
        /\ wire' = sentFrames(nextId, "prepare_seed", wanted)
        /\ seeds' = [s \in Seeds |-> IF s \in wanted THEN "Requested" ELSE seeds[s]]
        /\ UNCHANGED <<pending, byOwner, prepared, faults>>
    BY <1>4 DEF HelloReply
  <2>2. wanted \in SUBSET Seeds
    OBVIOUS
  <2> HIDE DEF wanted
  <2>3. last \in Nat /\ nextId <= last /\ nextId + Cardinality(wanted) <= last
    BY <1>0, <2>2, SentIds
  <2> HIDE DEF last
  <2>4. "prepare_seed" \in Ops
    BY DEF Ops
  <2>5. /\ controls' \subseteq
              [id : Nat, op : Ops, seed : Seeds \cup {NoSeed}, afterSeen : BOOLEAN]
        /\ wire' \subseteq [id : Nat, op : Ops \cup {"verify"}, seed : Seeds \cup {NoSeed}]
        /\ (\A c \in controls' : c.id < last) /\ (\A f \in wire' : f.id < last /\ f.seed \in Seeds)
        /\ IsFiniteSet(controls')
    BY <1>0, <2>1, <2>2, <2>3, <2>4, Sending
  <2>6. seeds' \in [Seeds -> Status]
    BY <2>1 DEF RestOK
  <2>7. RestOK'
    BY <2>1, <2>3, <2>5, <2>6 DEF RestOK
  <2> QED BY <1>0, <2>1, <2>3, <2>7, QueueUnchanged
<1>5. ASSUME NEW expired \in SUBSET pending, NEW released, NEW added,
             WriteFails(expired, released, added)
      PROVE  RestOK' /\ QueueOK'
  BY <1>5, WriteStep
<1>6. ASSUME NEW s \in Seeds, prepareSeed(s)
      PROVE  RestOK' /\ QueueOK'
  <2>1. seen(s) \subseteq [id : Nat, op : Ops, seed : Seeds \cup {NoSeed}, afterSeen : BOOLEAN]
        /\ \A c \in seen(s) : c.id < nextId
    BY DEF seen, RestOK
  <2>2. IsFiniteSet(seen(s))
    <3> DEFINE g == [c \in controls |-> IF c.seed = s THEN [c EXCEPT !.afterSeen = FALSE] ELSE c]
    <3>1. g \in [controls -> seen(s)] /\ \A y \in seen(s) : \E c \in controls : g[c] = y
      BY DEF seen
    <3>2. g \in Surjection(controls, seen(s))
      BY <3>1 DEF Surjection
    <3> QED BY <1>0, <3>2, FS_Surjection
  <2>3. CASE PrepareAndSend(s)
    <3> DEFINE new == [Control(nextId, "prepare_seed", s) EXCEPT !.afterSeen = FALSE]
               frame == Frame(nextId, "prepare_seed", s)
    <3>1. /\ controls' = seen(s) \cup {new} /\ wire' = wire \cup {frame} /\ nextId' = nextId + 1
          /\ seeds' = [seeds EXCEPT ![s] = "Requested"]
          /\ UNCHANGED <<link, pending, byOwner, prepared, faults>>
      BY <2>3 DEF PrepareAndSend
    <3>2. new \in [id : Nat, op : Ops, seed : Seeds \cup {NoSeed}, afterSeen : BOOLEAN]
          /\ frame \in [id : Nat, op : Ops \cup {"verify"}, seed : Seeds \cup {NoSeed}]
          /\ new.id = nextId /\ frame.id = nextId /\ frame.seed \in Seeds
      BY <1>0 DEF Control, Frame, Ops
    <3> HIDE DEF new, frame
    <3>3. IsFiniteSet(controls')
      BY <2>2, <3>1, FS_AddElement
    <3>4. (\A c \in controls' : c.id < nextId') /\ (\A f \in wire' : f.id < nextId')
      <4>1. (\A c \in seen(s) : c.id \in Nat /\ c.id < nextId) /\ (\A f \in wire : f.id \in Nat /\ f.id < nextId)
        BY <2>1 DEF RestOK
      <4>2. nextId < nextId' /\ nextId' \in Nat
        BY <1>0, <3>1
      <4>3. (\A c \in seen(s) : c.id < nextId') /\ (\A f \in wire : f.id < nextId')
        BY <1>0, <4>1, <4>2
      <4> QED BY <3>1, <3>2, <4>2, <4>3
    <3>5. RestOK'
      BY <1>0, <2>1, <3>1, <3>2, <3>3, <3>4 DEF RestOK
    <3> QED BY <1>0, <3>1, <3>5, QueueUnchanged
  <2>4. CASE PrepareLater(s)
    <3>1. /\ controls' = seen(s) /\ UNCHANGED <<link, pending, byOwner, nextId, wire, prepared, faults>>
          /\ seeds' = IF seeds[s] = "none" THEN [seeds EXCEPT ![s] = "Wanted"] ELSE seeds
      BY <2>4 DEF PrepareLater
    <3>2. RestOK'
      BY <2>1, <2>2, <3>1 DEF RestOK
    <3> QED BY <1>0, <3>1, <3>2, QueueUnchanged
  <2>5. CASE WriteFails({}, {}, {s})
    BY <1>5, <2>5
  <2> QED BY <1>6, <2>3, <2>4, <2>5 DEF prepareSeed
<1>7. ASSUME NEW o \in Owners, NEW s \in Seeds, NEW priority \in BOOLEAN, verify(o, s, priority)
      PROVE  RestOK' /\ QueueOK'
  <2> DEFINE frame == Frame(nextId, "verify", s)
             new == [id |-> nextId, owner |-> o, priority |-> priority]
  <2>1. /\ wire' = wire \cup {frame} /\ nextId' = nextId + 1 /\ pending' = pending \cup {new}
        /\ UNCHANGED <<link, controls, seeds, prepared, faults>>
    BY <1>7 DEF verify
  <2>2. frame \in [id : Nat, op : Ops \cup {"verify"}, seed : Seeds \cup {NoSeed}]
        /\ new \in [id : Nat, owner : Owners, priority : BOOLEAN]
        /\ frame.id = nextId /\ new.id = nextId /\ frame.seed \in Seeds
    BY <1>0 DEF Frame
  <2> HIDE DEF frame, new
  <2>3. nextId < nextId' /\ nextId' \in Nat
    BY <1>0, <2>1
  <2>4. /\ \A c \in controls : c.id \in Nat /\ c.id < nextId
        /\ \A f \in wire : f.id \in Nat /\ f.id < nextId
        /\ \A p \in pending : p.id \in Nat /\ p.id < nextId
    BY DEF RestOK, QueueOK
  <2>5. /\ \A c \in controls : c.id < nextId'
        /\ \A f \in wire : f.id < nextId'
        /\ \A p \in pending : p.id < nextId'
    BY <1>0, <2>3, <2>4
  <2>6. RestOK'
    BY <2>1, <2>2, <2>3, <2>5 DEF RestOK
  <2>7. Counts' /\ byOwner' \in [Owners -> Nat]
    BY <1>7, AdmittedCounts, Split DEF VerifierInv, QueueOK
  <2> QED BY <2>1, <2>2, <2>3, <2>5, <2>6, <2>7 DEF QueueOK
<1>8. ASSUME NEW o \in Owners, cancelOwner(o)
      PROVE  RestOK' /\ QueueOK'
  <2>1. UNCHANGED <<link, controls, seeds, nextId, wire, prepared, faults>>
    BY <1>8 DEF cancelOwner
  <2>2. RestOK'
    BY <2>1 DEF RestOK
  <2>3. Counts' /\ byOwner' \in [Owners -> Nat] /\ pending' \subseteq pending
    BY <1>0, <1>8, CancelledCounts
  <2> QED BY <1>0, <2>1, <2>2, <2>3, QueueStep
<1>9. ASSUME NEW f \in wire, Reply(f)
      PROVE  RestOK' /\ QueueOK'
  <2>1. ASSUME NEW ok \in BOOLEAN, PrepareReply(f, ok)
        PROVE  RestOK' /\ QueueOK'
    <3>1. /\ wire' = wire \ {f} /\ controls' = {c \in controls : c.id # f.id}
          /\ UNCHANGED <<link, nextId, pending, byOwner>> /\ f.op = "prepare_seed"
      BY <2>1 DEF PrepareReply
    <3>2. faults' \in 0..MaxFaults
      BY <2>1 DEF PrepareReply, RestOK
    <3>3. seeds' \in [Seeds -> Status]
      BY <2>1 DEF PrepareReply, afterPrepare, RestOK
    <3>4. prepared' \subseteq Seeds
      BY <2>1, <3>1 DEF PrepareReply, RestOK
    <3> QED BY <1>0, <3>1, <3>2, <3>3, <3>4, ReplyRest, QueueUnchanged
  <2>2. CASE ReleaseReply(f)
    <3>1. /\ wire' = wire \ {f} /\ controls' = {c \in controls : c.id # f.id}
          /\ UNCHANGED <<link, nextId, pending, byOwner, seeds, faults>>
          /\ prepared' = prepared \ {f.seed}
      BY <2>2 DEF ReleaseReply
    <3>2. RestOK'
      BY <3>1, ReplyRest DEF RestOK
    <3> QED BY <1>0, <3>1, <3>2, QueueUnchanged
  <2>3. CASE VerifyReply(f)
    <3>1. /\ wire' = wire \ {f} /\ erased({p \in pending : p.id = f.id})
          /\ UNCHANGED <<link, controls, seeds, nextId, prepared, faults>>
      BY <2>3 DEF VerifyReply
    <3>2. RestOK'
      BY <3>1 DEF RestOK
    <3>3. Counts' /\ byOwner' \in [Owners -> Nat] /\ pending' \subseteq pending
      BY <1>0, <3>1, ErasedCounts
    <3> QED BY <1>0, <3>1, <3>2, <3>3, QueueStep
  <2> QED BY <1>9, <2>1, <2>2, <2>3 DEF Reply
<1>10. ASSUME NEW expired \in SUBSET pending, NEW x, NEW released, NEW due,
              verifierTick(expired, x, released, due)
       PROVE  RestOK' /\ QueueOK'
  <2>1. erased(expired)
    BY <1>10 DEF verifierTick, tickExpires
  <2>2. Counts' /\ byOwner' \in [Owners -> Nat] /\ pending' \subseteq pending
    BY <1>0, <2>1, ErasedCounts
  <2>3. RestOK' /\ nextId' \in Nat /\ nextId <= nextId'
    BY <1>10, TickRest
  <2> QED BY <1>0, <2>2, <2>3, QueueStep
<1>11. ASSUME NEW expired \in SUBSET pending, NEW released, tickDown(expired, released)
       PROVE  RestOK' /\ QueueOK'
  <2>1. /\ erased(expired) /\ seeds' = seedsAfterExpiry({}, released)
        /\ UNCHANGED <<link, controls, nextId, wire, prepared, faults>>
    BY <1>11 DEF tickDown, tickExpires
  <2>2. Counts' /\ byOwner' \in [Owners -> Nat] /\ pending' \subseteq pending
    BY <1>0, <2>1, ErasedCounts
  <2>3. seeds' \in [Seeds -> Status]
    BY <2>1 DEF seedsAfterExpiry, RestOK
  <2>4. RestOK'
    BY <2>1, <2>3 DEF RestOK
  <2> QED BY <1>0, <2>1, <2>2, <2>4, QueueStep
<1>12. CASE Tick
  BY <1>5, <1>10, <1>11, <1>12 DEF Tick
<1>13. CASE UNCHANGED verifierVars
  <2>1. RestOK'
    BY <1>13 DEF verifierVars, RestOK
  <2> QED BY <1>0, <1>13, <2>1, QueueUnchanged DEF verifierVars
<1>14. CASE WriteFails({}, {}, {})
  BY <1>5, <1>14
<1> QED BY <1>1, <1>2, <1>3, <1>4, <1>6, <1>7, <1>8, <1>9, <1>12, <1>13, <1>14 DEF VerifierNext

\* IInv is an invariant of the client.
THEOREM VerifierInvariance == VerifierSpec => []VerifierInv
<1>1. VerifierInv /\ [VerifierNext]_verifierVars => VerifierInv'
  <2> SUFFICES ASSUME VerifierInv, [VerifierNext]_verifierVars PROVE VerifierInv'
    OBVIOUS
  <2>1. RestOK' /\ QueueOK'
    BY Split, NextStep
  <2> QED BY <2>1 DEF VerifierInv, VerifierTypeOK, RestOK, QueueOK
<1> QED BY <1>1, InitHolds, PTL DEF VerifierSpec

\* The types of the state, and every id used once (m_nextRequestId).
THEOREM VerifierTypeCorrect == VerifierSpec => []VerifierTypeOK
<1>1. VerifierInv => VerifierTypeOK
  BY DEF VerifierInv
<1> QED BY <1>1, VerifierInvariance, PTL

\* The per-miner counts are exact and the queue, the reserve for candidates and the
\* per-miner limits hold for every setting of maxQueue and maxPendingPerMiner,
\* however replies, timeouts, cancelled miners and lost connections interleave.
THEOREM QueueExactTheorem == VerifierSpec => []QueueExact
<1>1. VerifierInv => QueueExact
  BY DEF VerifierInv, Counts, QueueExact
<1> QED BY <1>1, VerifierInvariance, PTL

-----------------------------------------------------------------------------
(* The connection                                                          *)

\* The frame of a control is on the wire as long as it is known: a reply and
\* the control it belongs to go together.
Paired == \A c \in controls : Frame(c.id, c.op, c.seed) \in wire

OneFrame == \A f, g \in wire : f.id = g.id => f = g

\* Controls are given up oldest first: what was sent after a control that is
\* still known is known too.
NewerKnown == \A c \in controls, f \in wire :
    f.op # "verify" /\ c.id <= f.id => \E d \in controls : d.id = f.id

\* What there is on the wire, and what seeds can be, before and on a connection.
Opened ==
    /\ link \in {"connecting", "down", "stopped"} => controls = {} /\ wire = {}
    /\ link = "hello" => \A f \in wire : f.op = "hello"
    /\ link = "ready" => \A f \in wire : f.op # "hello"
    /\ link \in {"connecting", "down", "hello"} => \A s \in Seeds : seeds[s] \in {"none", "Wanted"}

MatchOK == Paired /\ OneFrame /\ NewerKnown

isPrepare(c, s) == c.op = "prepare_seed" /\ c.seed = s
isRelease(f, s) == f.op = "release_seed" /\ f.seed = s

NewerThanReleases(i, s) == \A r \in wire : isRelease(r, s) => r.id < i

Backing(s) == \E f \in wire : isPrepare(f, s) /\ NewerThanReleases(f.id, s)

RequestedOK(s) ==
    seeds[s] = "Requested" => \E c \in controls : isPrepare(c, s) /\ NewerThanReleases(c.id, s)

\* A reply to a prepare_seed from before a release can make the seed ready only
\* while a newer prepare_seed is on its way.
LateOK(s) ==
    seeds[s] # "none" =>
        \/ Backing(s)
        \/ \A c \in controls, r \in wire : isPrepare(c, s) /\ isRelease(r, s) => r.id < c.id

\* A ready seed's requests are all known: the refusal of one is not ignored.
ReadyOK(s) ==
    seeds[s] = "Ready" =>
        /\ \A f \in wire : isPrepare(f, s) => \E c \in controls : c.id = f.id
        /\ Backing(s) \/ (s \in prepared /\ \A r \in wire : ~ isRelease(r, s))

SeedOK(s) == RequestedOK(s) /\ LateOK(s) /\ ReadyOK(s)
SeedsOK == link = "ready" => \A s \in Seeds : SeedOK(s)

WireOK == MatchOK /\ Opened /\ SeedsOK

\* Controls and frames that are sent together, with new ids.
Batch(cs, fs) ==
    /\ \A c \in cs : c.id \in Nat /\ nextId <= c.id /\ Frame(c.id, c.op, c.seed) \in fs
    /\ \A f \in fs : /\ f.id \in Nat /\ nextId <= f.id
                     /\ f.op = "verify" \/ \E c \in cs : c.id = f.id
    /\ \A f, g \in fs : f.id = g.id => f = g

\* The controls left when the oldest ones are given up, up to their afterSeen.
Kept(kept, x) ==
    /\ x \subseteq controls
    /\ \A c \in x, d \in controls : d.id < c.id => d \in x
    /\ \A c \in kept : \E d \in controls \ x : c.id = d.id /\ c.op = d.op /\ c.seed = d.seed
    /\ \A d \in controls \ x : \E c \in kept : c.id = d.id /\ c.op = d.op /\ c.seed = d.seed

Grows(kept, x, cs, fs) ==
    /\ Kept(kept, x) /\ Batch(cs, fs)
    /\ controls' = kept \cup cs /\ wire' = wire \cup fs

LEMMA KnownIds ==
    ASSUME RestOK
    PROVE  /\ nextId \in Nat
           /\ \A c \in controls : c.id \in Nat /\ c.id < nextId /\ c.op \in Ops
           /\ \A f \in wire : f.id \in Nat /\ f.id < nextId
<1>1. ASSUME NEW c \in controls PROVE c.id \in Nat /\ c.id < nextId /\ c.op \in Ops
  BY DEF RestOK
<1>2. ASSUME NEW f \in wire PROVE f.id \in Nat /\ f.id < nextId
  BY DEF RestOK
<1> QED BY <1>1, <1>2 DEF RestOK

\* What is sent for a set of seeds is a batch, one control for each.
LEMMA SentBatch ==
    ASSUME NEW first \in Nat, NEW op, NEW set \in SUBSET Seeds, nextId \in Nat, nextId <= first
    PROVE  LET cs == sentControls(first, op, set)
               fs == sentFrames(first, op, set)
           IN  /\ Batch(cs, fs)
               /\ \A c \in cs : c.op = op /\ c.seed \in set
               /\ \A f \in fs : /\ f.op = op /\ f.seed \in set
                                /\ first <= f.id /\ f.id < first + Cardinality(set)
               /\ \A s \in set : \E c \in cs : c.seed = s
<1> DEFINE cs == sentControls(first, op, set)
           fs == sentFrames(first, op, set)
<1>1. /\ \A c \in cs : \E s \in set : c = Control(idOf(first, set, s), op, s)
      /\ \A f \in fs : \E s \in set : f = Frame(idOf(first, set, s), op, s)
      /\ \A s \in set : Control(idOf(first, set, s), op, s) \in cs
      /\ \A s \in set : Frame(idOf(first, set, s), op, s) \in fs
  BY DEF sentControls, sentFrames
<1>2. \A s \in set : /\ idOf(first, set, s) \in Nat /\ nextId <= idOf(first, set, s)
                     /\ first <= idOf(first, set, s)
                     /\ idOf(first, set, s) < first + Cardinality(set)
  <2> SUFFICES ASSUME NEW s \in set
               PROVE  nextId <= idOf(first, set, s) /\ first <= idOf(first, set, s)
    BY SentIds
  <2> DEFINE lower == {t \in set : t < s}
  <2>1. Cardinality(lower) \in Nat
    BY SentIds, FS_Subset, FS_CardinalityType
  <2>2. idOf(first, set, s) = first + Cardinality(lower)
    BY DEF idOf
  <2> QED BY <2>1, <2>2
<1>3. \A s, u \in set : idOf(first, set, s) = idOf(first, set, u) => s = u
  <2>1. ASSUME NEW s \in set, NEW u \in set, s < u
        PROVE  idOf(first, set, s) # idOf(first, set, u)
    <3> DEFINE ls == {t \in set : t < s}
               lu == {t \in set : t < u}
    <3>1. set \subseteq Nat
      BY VerifierAssumption
    <3>2. s \in Nat /\ u \in Nat /\ \A t \in set : t \in Nat /\ (t < s => t < u)
      BY <2>1, <3>1
    <3>3. ls \subseteq lu /\ ls # lu
      <4>1. ~ (s < s)
        BY <3>2
      <4> QED BY <2>1, <3>2, <4>1
    <3>4. IsFiniteSet(lu)
      BY SentIds, FS_Subset
    <3> HIDE DEF ls, lu
    <3>5. Cardinality(ls) \in Nat /\ Cardinality(lu) \in Nat /\ Cardinality(ls) # Cardinality(lu)
      BY <3>2, <3>3, <3>4, FS_Subset, FS_CardinalityType
    <3>6. idOf(first, set, s) = first + Cardinality(ls) /\ idOf(first, set, u) = first + Cardinality(lu)
      BY DEF idOf, ls, lu
    <3> QED BY <3>5, <3>6
  <2>2. \A s, u \in set : s = u \/ s < u \/ u < s
    BY VerifierAssumption
  <2> QED BY <2>1, <2>2
<1> HIDE DEF cs, fs
<1>4. \A c \in cs : /\ c.op = op /\ c.seed \in set /\ c.id \in Nat /\ nextId <= c.id
                    /\ Frame(c.id, c.op, c.seed) \in fs
  BY <1>1, <1>2 DEF Control
<1>5. \A f \in fs : /\ f.op = op /\ f.seed \in set /\ f.id \in Nat /\ nextId <= f.id
                    /\ first <= f.id /\ f.id < first + Cardinality(set)
                    /\ \E c \in cs : c.id = f.id
  <2> SUFFICES ASSUME NEW f \in fs
               PROVE  /\ f.op = op /\ f.seed \in set /\ f.id \in Nat /\ nextId <= f.id
                      /\ first <= f.id /\ f.id < first + Cardinality(set)
                      /\ \E c \in cs : c.id = f.id
    OBVIOUS
  <2>1. PICK s \in set : f = Frame(idOf(first, set, s), op, s)
    BY <1>1
  <2>2. Control(idOf(first, set, s), op, s) \in cs /\ Control(idOf(first, set, s), op, s).id = f.id
    BY <1>1, <2>1 DEF Control, Frame
  <2>3. f.op = op /\ f.seed = s /\ f.id = idOf(first, set, s)
    BY <2>1 DEF Frame
  <2> QED BY <1>2, <2>2, <2>3
<1>6. \A f, g \in fs : f.id = g.id => f = g
  <2> SUFFICES ASSUME NEW f \in fs, NEW g \in fs, f.id = g.id PROVE f = g
    OBVIOUS
  <2>1. PICK s \in set : f = Frame(idOf(first, set, s), op, s)
    BY <1>1
  <2>2. PICK u \in set : g = Frame(idOf(first, set, u), op, u)
    BY <1>1
  <2>3. f.id = idOf(first, set, s) /\ g.id = idOf(first, set, u)
    BY <2>1, <2>2 DEF Frame
  <2>4. s = u
    BY <1>3, <2>3
  <2> QED BY <2>1, <2>2, <2>4
<1>7. \A s \in set : \E c \in cs : c.seed = s
  BY <1>1 DEF Control
<1>8. Batch(cs, fs)
  BY <1>4, <1>5, <1>6 DEF Batch
<1> QED BY <1>4, <1>5, <1>7, <1>8 DEF cs, fs

\* Sending keeps controls and frames matched.
LEMMA MatchGrows ==
    ASSUME RestOK, MatchOK, NEW kept, NEW x, NEW cs, NEW fs, Grows(kept, x, cs, fs)
    PROVE  MatchOK'
<1>1. /\ controls' = kept \cup cs /\ wire' = wire \cup fs
      /\ Kept(kept, x) /\ Batch(cs, fs)
  BY DEF Grows
<1>2. Paired'
  <2>1. ASSUME NEW c \in kept PROVE Frame(c.id, c.op, c.seed) \in wire
    BY <1>1 DEF Kept, MatchOK, Paired
  <2>2. ASSUME NEW c \in cs PROVE Frame(c.id, c.op, c.seed) \in fs
    BY <1>1 DEF Batch
  <2> QED BY <1>1, <2>1, <2>2 DEF Paired, Frame
<1>3. OneFrame'
  <2>1. ASSUME NEW f \in wire, NEW g \in fs PROVE f.id # g.id
    <3>1. f.id \in Nat /\ f.id < nextId /\ nextId \in Nat /\ g.id \in Nat /\ nextId <= g.id
      BY <1>1, KnownIds DEF Batch
    <3> QED BY <3>1
  <2> QED BY <1>1, <2>1 DEF OneFrame, MatchOK, Batch
<1>4. ASSUME NEW c \in controls', NEW f \in wire', f.op # "verify", c.id <= f.id
      PROVE  \E d \in controls' : d.id = f.id
  <2>1. CASE f \in fs
    BY <1>1, <1>4, <2>1 DEF Batch
  <2>2. CASE f \in wire /\ c \in cs
    <3>1. f.id \in Nat /\ f.id < nextId /\ nextId \in Nat /\ c.id \in Nat /\ nextId <= c.id
      BY <1>1, <2>2, KnownIds DEF Batch
    <3> QED BY <1>4, <3>1
  <2>3. CASE f \in wire /\ c \in kept
    <3>1. PICK b \in controls \ x : b.id = c.id
      BY <1>1, <2>3 DEF Kept
    <3>2. PICK d \in controls : d.id = f.id
      BY <1>4, <2>3, <3>1 DEF MatchOK, NewerKnown
    <3>3. b.id \in Nat /\ d.id \in Nat /\ b.id <= d.id
      BY <1>4, <3>1, <3>2, KnownIds
    <3>4. CASE d \notin x
      BY <1>1, <3>2, <3>4 DEF Kept
    <3>5. CASE d \in x
      <4>1. ~ (b.id < d.id)
        BY <1>1, <3>1, <3>5 DEF Kept
      <4>2. c.id = f.id
        BY <3>1, <3>2, <3>3, <4>1
      <4> QED BY <4>2
    <3> QED BY <3>4, <3>5
  <2> QED BY <1>1, <2>1, <2>2, <2>3
<1> QED BY <1>2, <1>3, <1>4 DEF MatchOK, NewerKnown

\* What is sent spares a seed that is not released, and requests it anew.
LEMMA SeedGrows ==
    ASSUME RestOK, MatchOK, NEW s \in Seeds, SeedOK(s),
           NEW kept, NEW x, NEW cs, NEW fs, Grows(kept, x, cs, fs), UNCHANGED prepared,
           \A f \in fs : ~ isRelease(f, s),
           \/ /\ seeds'[s] = seeds[s]
              /\ seeds[s] \in {"Requested", "Ready"} => \A c \in x : ~ isPrepare(c, s)
           \/ seeds'[s] = "Wanted" /\ seeds[s] # "none"
           \/ seeds'[s] = "none"
           \/ seeds'[s] = "Requested" /\ \E c \in cs : isPrepare(c, s)
    PROVE  SeedOK(s)'
<1>1. /\ controls' = kept \cup cs /\ wire' = wire \cup fs
      /\ Kept(kept, x) /\ Batch(cs, fs)
  BY DEF Grows
<1>2. ASSUME NEW i, NewerThanReleases(i, s) PROVE NewerThanReleases(i, s)'
  BY <1>1, <1>2 DEF NewerThanReleases, isRelease
<1>3. ASSUME NEW c \in cs PROVE NewerThanReleases(c.id, s)'
  <2>1. ASSUME NEW r \in wire PROVE r.id < c.id
    <3>1. r.id \in Nat /\ r.id < nextId /\ nextId \in Nat /\ c.id \in Nat /\ nextId <= c.id
      BY <1>1, KnownIds DEF Batch
    <3> QED BY <3>1
  <2> QED BY <1>1, <2>1 DEF NewerThanReleases, isRelease
<1>4. Backing(s) => Backing(s)'
  BY <1>1, <1>2 DEF Backing, isPrepare
<1>5. ASSUME NEW c \in cs, isPrepare(c, s) PROVE Backing(s)'
  <2>1. Frame(c.id, c.op, c.seed) \in wire'
    BY <1>1 DEF Batch
  <2>2. /\ Frame(c.id, c.op, c.seed).op = c.op /\ Frame(c.id, c.op, c.seed).seed = c.seed
        /\ Frame(c.id, c.op, c.seed).id = c.id
    BY DEF Frame
  <2>3. isPrepare(Frame(c.id, c.op, c.seed), s)
    BY <1>5, <2>2 DEF isPrepare
  <2>4. NewerThanReleases(Frame(c.id, c.op, c.seed).id, s)'
    BY <1>3, <2>2
  <2> QED BY <2>1, <2>3, <2>4 DEF Backing, isPrepare
<1>6. RequestedOK(s)'
  <2>1. SUFFICES ASSUME seeds'[s] = "Requested"
                 PROVE  \E c \in controls' : isPrepare(c, s) /\ NewerThanReleases(c.id, s)'
    BY DEF RequestedOK, isPrepare
  <2>2. CASE \E c \in cs : isPrepare(c, s)
    BY <1>1, <1>3, <2>2
  <2>3. CASE seeds[s] = "Requested" /\ \A c \in x : ~ isPrepare(c, s)
    <3>1. PICK d \in controls : isPrepare(d, s) /\ NewerThanReleases(d.id, s)
      BY <2>3 DEF SeedOK, RequestedOK
    <3>2. PICK c \in kept : c.id = d.id /\ c.op = d.op /\ c.seed = d.seed
      BY <1>1, <2>3, <3>1 DEF Kept
    <3> QED BY <1>1, <1>2, <3>1, <3>2 DEF isPrepare
  <2> QED BY <2>1, <2>2, <2>3
<1>7. LateOK(s)'
  <2>1. SUFFICES ASSUME seeds'[s] # "none", ~ Backing(s)'
                 PROVE  \A c \in controls', r \in wire' : isPrepare(c, s) /\ isRelease(r, s) => r.id < c.id
    BY DEF LateOK, isPrepare, isRelease
  <2>2. \A c \in cs : ~ isPrepare(c, s)
    BY <1>5, <2>1
  <2>3. seeds[s] # "none"
    BY <2>1, <2>2
  <2>4. \A c \in controls, r \in wire : isPrepare(c, s) /\ isRelease(r, s) => r.id < c.id
    BY <1>4, <2>1, <2>3 DEF SeedOK, LateOK
  <2>5. \A c \in kept : \E d \in controls : c.id = d.id /\ c.op = d.op /\ c.seed = d.seed
    BY <1>1 DEF Kept
  <2> QED BY <1>1, <2>2, <2>4, <2>5 DEF isPrepare
<1>8. ReadyOK(s)'
  <2>1. SUFFICES ASSUME seeds'[s] = "Ready"
                 PROVE  /\ \A f \in wire' : isPrepare(f, s) => \E c \in controls' : c.id = f.id
                        /\ Backing(s)' \/ (s \in prepared' /\ \A r \in wire' : ~ isRelease(r, s))
    BY DEF ReadyOK, isPrepare, isRelease
  <2>2. seeds[s] = "Ready" /\ \A c \in x : ~ isPrepare(c, s)
    BY <2>1
  <2>3. /\ \A f \in wire : isPrepare(f, s) => \E c \in controls : c.id = f.id
        /\ Backing(s) \/ (s \in prepared /\ \A r \in wire : ~ isRelease(r, s))
    BY <2>2 DEF SeedOK, ReadyOK
  <2>4. ASSUME NEW f \in wire, isPrepare(f, s)
        PROVE  \E c \in controls' : c.id = f.id
    <3>1. PICK d \in controls : d.id = f.id
      BY <2>3, <2>4
    <3>2. Frame(d.id, d.op, d.seed) = f
      BY <3>1 DEF MatchOK, Paired, OneFrame, Frame
    <3>3. isPrepare(d, s)
      BY <2>4, <3>2 DEF isPrepare, Frame
    <3>4. d \in controls \ x
      BY <2>2, <3>3
    <3> QED BY <1>1, <3>1, <3>4 DEF Kept
  <2>5. ASSUME NEW f \in fs, isPrepare(f, s)
        PROVE  \E c \in controls' : c.id = f.id
    BY <1>1, <2>5 DEF Batch, isPrepare
  <2> QED BY <1>1, <1>4, <2>3, <2>4, <2>5
<1> QED BY <1>6, <1>7, <1>8 DEF SeedOK

\* The answer to a frame takes the frame and its control away.
LEMMA MatchShrinks ==
    ASSUME RestOK, MatchOK, NEW f \in wire, wire' = wire \ {f},
           controls' = {c \in controls : c.id # f.id}
    PROVE  MatchOK'
<1>1. Paired'
  <2>1. ASSUME NEW c \in controls' PROVE Frame(c.id, c.op, c.seed) \in wire'
    <3>1. Frame(c.id, c.op, c.seed) \in wire /\ Frame(c.id, c.op, c.seed).id = c.id
      BY DEF MatchOK, Paired, Frame
    <3> QED BY <3>1
  <2> QED BY <2>1 DEF Paired, Frame
<1>2. OneFrame'
  BY DEF MatchOK, OneFrame
<1>3. NewerKnown'
  BY DEF MatchOK, NewerKnown, OneFrame
<1> QED BY <1>1, <1>2, <1>3 DEF MatchOK

\* A frame with the id of a control is the control's.
LEMMA OwnFrame ==
    ASSUME MatchOK, NEW c \in controls, NEW f \in wire, c.id = f.id
    PROVE  c.op = f.op /\ c.seed = f.seed
<1>1. Frame(c.id, c.op, c.seed) = f
  BY DEF MatchOK, Paired, OneFrame, Frame
<1> QED BY <1>1 DEF Frame

\* The answer about another seed.
LEMMA SeedSpared ==
    ASSUME MatchOK, NEW f \in wire, NEW s \in Seeds, SeedOK(s), f.seed # s,
           wire' = wire \ {f}, controls' = {c \in controls : c.id # f.id},
           seeds'[s] = seeds[s], s \in prepared => s \in prepared'
    PROVE  SeedOK(s)'
<1>1. \A c \in controls : isPrepare(c, s) => c \in controls'
  BY OwnFrame DEF isPrepare
<1>2. \A g \in wire : isPrepare(g, s) \/ isRelease(g, s) => g \in wire'
  BY DEF isPrepare, isRelease
<1>3. \A i : NewerThanReleases(i, s) => NewerThanReleases(i, s)'
  BY DEF NewerThanReleases, isRelease
<1>4. RequestedOK(s)'
  BY <1>1, <1>3 DEF SeedOK, RequestedOK, isPrepare
<1>5. Backing(s) => Backing(s)'
  BY <1>2, <1>3 DEF Backing, isPrepare
<1>6. LateOK(s)'
  BY <1>5 DEF SeedOK, LateOK, isPrepare, isRelease
<1>7. ReadyOK(s)'
  <2>1. SUFFICES ASSUME seeds'[s] = "Ready"
                 PROVE  /\ \A g \in wire' : isPrepare(g, s) => \E c \in controls' : c.id = g.id
                        /\ Backing(s)' \/ (s \in prepared' /\ \A r \in wire' : ~ isRelease(r, s))
    BY DEF ReadyOK, isPrepare, isRelease
  <2>2. /\ \A g \in wire : isPrepare(g, s) => \E c \in controls : c.id = g.id
        /\ Backing(s) \/ (s \in prepared /\ \A r \in wire : ~ isRelease(r, s))
    BY <2>1 DEF SeedOK, ReadyOK
  <2>3. ASSUME NEW g \in wire', isPrepare(g, s) PROVE \E c \in controls' : c.id = g.id
    <3>1. PICK c \in controls : c.id = g.id
      BY <2>2, <2>3
    <3>2. isPrepare(c, s)
      BY <2>3, <3>1, OwnFrame DEF isPrepare
    <3> QED BY <1>1, <3>1, <3>2
  <2> QED BY <1>5, <2>2, <2>3
<1> QED BY <1>4, <1>6, <1>7 DEF SeedOK

\* The oldest frame of a seed is older than its releases.
LEMMA OldestFirst ==
    ASSUME RestOK, MatchOK, NEW f \in wire, Answerable(f), NEW r \in wire, r # f,
           r.op # "verify", r.seed = f.seed
    PROVE  f.id < r.id
<1>1. f.id <= r.id
  BY DEF Answerable
<1>2. f.id # r.id
  BY DEF MatchOK, OneFrame
<1> QED BY <1>1, <1>2, KnownIds

\* The answer to a prepare_seed: a seed it makes ready is backed.
LEMMA PrepareSeedOK ==
    ASSUME RestOK, MatchOK, NEW f \in wire, NEW ok \in BOOLEAN, PrepareReply(f, ok),
           f.seed \in Seeds, SeedOK(f.seed)
    PROVE  SeedOK(f.seed)'
<1> DEFINE s == f.seed
           known == \E c \in controls : c.id = f.id
<1>1. /\ f.op = "prepare_seed" /\ Answerable(f)
      /\ wire' = wire \ {f} /\ controls' = {c \in controls : c.id # f.id}
      /\ prepared' = IF ok THEN prepared \cup {s} ELSE prepared
      /\ seeds' = IF known THEN afterPrepare(seeds, s, ok) ELSE seeds
  BY DEF PrepareReply
<1>2. ASSUME NEW i, NewerThanReleases(i, s) PROVE NewerThanReleases(i, s)'
  BY <1>1, <1>2 DEF NewerThanReleases, isRelease
<1>3. ASSUME NEW r \in wire, isRelease(r, s) PROVE f.id < r.id /\ r # f
  BY <1>1, <1>3, OldestFirst DEF isRelease
\* A newer request than a release is not the one that is answered.
<1>4. ASSUME NEW r \in wire, isRelease(r, s), Backing(s) PROVE Backing(s)'
  <2>1. PICK p \in wire : isPrepare(p, s) /\ NewerThanReleases(p.id, s)
    BY <1>4 DEF Backing
  <2>2. f.id < r.id /\ r.id < p.id
    BY <1>3, <1>4, <2>1 DEF NewerThanReleases
  <2>3. p # f
    BY <2>2, KnownIds
  <2> QED BY <1>1, <1>2, <2>1, <2>3 DEF Backing, isPrepare
<1>5. CASE ~ known
  <2>1. controls' = controls /\ seeds' = seeds
    BY <1>1, <1>5
  <2>2. RequestedOK(s)'
    BY <1>2, <2>1 DEF SeedOK, RequestedOK, isPrepare
  <2>3. seeds[s] # "Ready"
    BY <1>1, <1>5 DEF SeedOK, ReadyOK, isPrepare
  <2>4. LateOK(s)'
    <3>1. SUFFICES ASSUME seeds[s] # "none", ~ Backing(s)'
                   PROVE  \A c \in controls, r \in wire' : isPrepare(c, s) /\ isRelease(r, s) => r.id < c.id
      BY <2>1 DEF LateOK, isPrepare, isRelease
    <3>2. CASE Backing(s)
      BY <1>1, <1>4, <3>1, <3>2
    <3>3. CASE ~ Backing(s)
      BY <1>1, <3>1, <3>3 DEF SeedOK, LateOK
    <3> QED BY <3>2, <3>3
  <2> QED BY <2>1, <2>2, <2>3, <2>4 DEF SeedOK, ReadyOK
<1>6. CASE known
  <2>1. PICK c \in controls : c.id = f.id
    BY <1>6
  <2>2. isPrepare(c, s)
    BY <1>1, <2>1, OwnFrame DEF isPrepare
  <2>3. seeds'[s] # "none" => seeds[s] # "none" /\ seeds'[s] = IF ok THEN "Ready" ELSE "Wanted"
    BY <1>1, <1>6 DEF afterPrepare, RestOK
  <2>4. RequestedOK(s)'
    BY <2>3 DEF RequestedOK
  \* The control is older than the release, so a newer request is on its way.
  <2>5. ASSUME seeds[s] # "none", NEW r \in wire, isRelease(r, s) PROVE Backing(s)'
    <3>1. ~ (r.id < c.id)
      BY <1>3, <2>1, <2>5, KnownIds
    <3>2. Backing(s)
      BY <2>2, <2>5, <3>1 DEF SeedOK, LateOK
    <3> QED BY <1>4, <2>5, <3>2
  <2>6. LateOK(s)'
    BY <1>1, <2>3, <2>5 DEF LateOK, isRelease, isPrepare
  <2>7. ReadyOK(s)'
    <3>1. SUFFICES ASSUME seeds'[s] = "Ready"
                   PROVE  /\ \A g \in wire' : isPrepare(g, s) => \E d \in controls' : d.id = g.id
                          /\ Backing(s)' \/ (s \in prepared' /\ \A r \in wire' : ~ isRelease(r, s))
      BY DEF ReadyOK, isPrepare, isRelease
    <3>2. ASSUME NEW g \in wire', isPrepare(g, s) PROVE \E d \in controls' : d.id = g.id
      <4>1. g \in wire /\ g # f /\ g.op # "verify" /\ g.seed = f.seed
        BY <1>1, <3>2 DEF isPrepare
      <4>2. f.id < g.id
        BY <1>1, <4>1, OldestFirst
      <4>3. c.id <= g.id /\ g.id # f.id
        BY <2>1, <4>1, <4>2, KnownIds
      <4>4. PICK d \in controls : d.id = g.id
        BY <4>1, <4>3 DEF MatchOK, NewerKnown
      <4> QED BY <1>1, <4>3, <4>4
    <3>3. ok /\ seeds[s] # "none"
      BY <2>3, <3>1
    <3> QED BY <1>1, <2>5, <3>2, <3>3
  <2> QED BY <2>4, <2>6, <2>7 DEF SeedOK
<1> QED BY <1>5, <1>6

\* The answer to a release_seed: a ready seed keeps the newer request.
LEMMA ReleaseSeedOK ==
    ASSUME RestOK, MatchOK, NEW f \in wire, ReleaseReply(f), f.seed \in Seeds, SeedOK(f.seed)
    PROVE  SeedOK(f.seed)'
<1> DEFINE s == f.seed
<1>1. /\ f.op = "release_seed"
      /\ wire' = wire \ {f} /\ controls' = {c \in controls : c.id # f.id}
      /\ prepared' = prepared \ {s} /\ seeds' = seeds
  BY DEF ReleaseReply
<1>2. \A c \in controls : isPrepare(c, s) => c \in controls'
  BY <1>1, OwnFrame DEF isPrepare
<1>3. \A i : NewerThanReleases(i, s) => NewerThanReleases(i, s)'
  BY <1>1 DEF NewerThanReleases, isRelease
<1>4. RequestedOK(s)'
  BY <1>1, <1>2, <1>3 DEF SeedOK, RequestedOK, isPrepare
<1>5. Backing(s) => Backing(s)'
  BY <1>1, <1>3 DEF Backing, isPrepare
<1>6. LateOK(s)'
  BY <1>1, <1>5 DEF SeedOK, LateOK, isPrepare, isRelease
<1>7. ReadyOK(s)'
  <2>1. SUFFICES ASSUME seeds[s] = "Ready"
                 PROVE  /\ \A g \in wire' : isPrepare(g, s) => \E c \in controls' : c.id = g.id
                        /\ Backing(s)'
    BY <1>1 DEF ReadyOK, isPrepare, isRelease
  <2>2. /\ \A g \in wire : isPrepare(g, s) => \E c \in controls : c.id = g.id
        /\ Backing(s)
    BY <1>1, <2>1 DEF SeedOK, ReadyOK, isRelease
  <2>3. ASSUME NEW g \in wire', isPrepare(g, s) PROVE \E c \in controls' : c.id = g.id
    <3>1. PICK c \in controls : c.id = g.id
      BY <1>1, <2>2, <2>3
    <3>2. isPrepare(c, s)
      BY <1>1, <2>3, <3>1, OwnFrame DEF isPrepare
    <3> QED BY <1>2, <3>1, <3>2
  <2> QED BY <1>5, <2>2, <2>3
<1> QED BY <1>4, <1>6, <1>7 DEF SeedOK

\* Without a connection there is nothing to match.
LEMMA Unconnected ==
    ASSUME link' \in {"connecting", "down", "stopped"}, controls' = {}, wire' = {},
           link' = "stopped" \/ \A s \in Seeds : seeds'[s] \in {"none", "Wanted"}
    PROVE  WireOK'
<1>1. MatchOK'
  BY DEF MatchOK, Paired, OneFrame, NewerKnown
<1>2. Opened'
  BY DEF Opened
<1> QED BY <1>1, <1>2 DEF WireOK, SeedsOK

LEMMA DisconnectedWire ==
    ASSUME RestOK, NEW sd \in [Seeds -> {"none", "Wanted", "Requested", "Ready"}], disconnected(sd)
    PROVE  WireOK'
<1>1. link' = "down" /\ controls' = {} /\ wire' = {} /\ seeds' = unprepared(sd)
  BY DEF disconnected
<1>2. \A s \in Seeds : seeds'[s] \in {"none", "Wanted"}
  BY <1>1 DEF unprepared
<1> QED BY <1>1, <1>2, Unconnected

\* What a step does on an open connection that sends and answers nothing, and
\* what it does elsewhere.
LEMMA QuietWire ==
    ASSUME RestOK, WireOK, NEW kept, Grows(kept, {}, {}, {}), UNCHANGED <<link, prepared>>,
           \A s \in Seeds : \/ seeds'[s] = seeds[s]
                            \/ link # "ready" /\ seeds'[s] \in {"none", "Wanted"}
    PROVE  WireOK'
<1>1. MatchOK'
  BY MatchGrows DEF WireOK
<1>2. controls' = kept /\ wire' = wire
  BY DEF Grows
<1>3. controls = {} => kept = {}
  BY DEF Grows, Kept
<1>4. Opened'
  BY <1>2, <1>3 DEF WireOK, Opened
<1>5. SeedsOK'
  <2>1. SUFFICES ASSUME link = "ready", NEW s \in Seeds PROVE SeedOK(s)'
    BY DEF SeedsOK
  <2>2. SeedOK(s) /\ seeds'[s] = seeds[s]
    BY <2>1 DEF WireOK, SeedsOK
  <2> QED BY <2>2, SeedGrows DEF WireOK
<1> QED BY <1>1, <1>4, <1>5 DEF WireOK

\* Nothing is given up.
LEMMA AllKept == Kept(controls, {})
  BY DEF Kept

LEMMA NothingSent == Batch({}, {})
  BY DEF Batch

\* A sighting changes no control's id, op or seed.
LEMMA SeenKept == ASSUME RestOK, NEW s PROVE Kept(seen(s), {})
<1>1. ASSUME NEW c \in controls
      PROVE  LET d == IF c.seed = s THEN [c EXCEPT !.afterSeen = FALSE] ELSE c
             IN  d.id = c.id /\ d.op = c.op /\ d.seed = c.seed /\ d \in seen(s)
  <2>1. c \in [id : Nat, op : Ops, seed : Seeds \cup {NoSeed}, afterSeen : BOOLEAN]
    BY DEF RestOK
  <2> QED BY <2>1 DEF seen
<1>2. \A d \in seen(s) : \E c \in controls :
        d = IF c.seed = s THEN [c EXCEPT !.afterSeen = FALSE] ELSE c
  BY DEF seen
<1> QED BY <1>1, <1>2 DEF Kept

\* A tick on an open connection: controls are given up, seeds released and
\* wanted seeds requested at once.
LEMMA TickWire ==
    ASSUME RestOK, WireOK, NEW expired \in SUBSET pending, NEW x, NEW released, NEW due,
           verifierTick(expired, x, released, due), link = "ready"
    PROVE  WireOK'
<1> DEFINE sd == seedsAfterExpiry(x, released)
           first == nextId + Cardinality(released)
           c1 == sentControls(nextId, "release_seed", released)
           c2 == sentControls(first, "prepare_seed", due)
           f1 == sentFrames(nextId, "release_seed", released)
           f2 == sentFrames(first, "prepare_seed", due)
<1>1. /\ x \in SUBSET controls /\ released \in SUBSET Seeds /\ due \in SUBSET Seeds
      /\ \A c \in x, d \in controls : d.id < c.id => d \in x
      /\ \A s \in due : sd[s] = "Wanted" /\ seeds[s] = "Wanted"
      /\ UNCHANGED prepared /\ link' = "ready"
      /\ seeds' = [s \in Seeds |-> IF s \in due THEN "Requested" ELSE sd[s]]
      /\ controls' = (controls \ x) \cup c1 \cup c2 /\ wire' = wire \cup f1 \cup f2
  BY DEF verifierTick, ExpiredControls, present
<1>2. nextId \in Nat /\ first \in Nat /\ nextId <= first
  BY <1>1, KnownIds, SentIds
<1>3. /\ Batch(c1, f1)
      /\ \A f \in f1 : f.op = "release_seed" /\ f.seed \in released
      /\ \A f \in f1 : f.id < first
  BY <1>1, <1>2, SentBatch
<1>4. /\ Batch(c2, f2)
      /\ \A f \in f2 : f.op = "prepare_seed" /\ f.seed \in due
      /\ \A f \in f2 : first <= f.id
      /\ \A c \in c2 : c.op = "prepare_seed"
      /\ \A s \in due : \E c \in c2 : c.seed = s
  BY <1>1, <1>2, SentBatch
<1>5. \A s \in Seeds : sd[s] = IF s \in released THEN "none"
                               ELSE IF seeds[s] # "none" /\ \E c \in x : isPrepare(c, s)
                               THEN "Wanted" ELSE seeds[s]
  BY DEF seedsAfterExpiry, isPrepare
<1> HIDE DEF c1, c2, f1, f2, sd, first
<1>6. Batch(c1 \cup c2, f1 \cup f2)
  <2>1. ASSUME NEW f \in f1, NEW g \in f2 PROVE f.id # g.id
    <3>1. f.id \in Nat /\ g.id \in Nat
      BY <1>3, <1>4 DEF Batch
    <3> QED BY <1>2, <1>3, <1>4, <3>1
  <2> QED BY <1>3, <1>4, <2>1 DEF Batch
<1>7. Kept(controls \ x, x)
  BY <1>1 DEF Kept
<1>8. Grows(controls \ x, x, c1 \cup c2, f1 \cup f2)
  BY <1>1, <1>6, <1>7 DEF Grows
<1>9. MatchOK'
  BY <1>8, MatchGrows DEF WireOK
<1>10. Opened'
  BY <1>1, <1>3, <1>4 DEF WireOK, Opened
<1>11. ASSUME NEW s \in Seeds PROVE SeedOK(s)'
  <2>1. SeedOK(s) /\ MatchOK
    BY DEF WireOK, SeedsOK
  <2>2. CASE s \in released
    <3>1. seeds'[s] = "none"
      BY <1>1, <1>5, <2>2
    <3> QED BY <3>1 DEF SeedOK, RequestedOK, LateOK, ReadyOK
  <2>3. CASE s \notin released
    <3>1. \A f \in f1 \cup f2 : ~ isRelease(f, s)
      BY <1>3, <1>4, <2>3 DEF isRelease
    <3>2. CASE s \in due
      <4>1. seeds'[s] = "Requested" /\ \E c \in c1 \cup c2 : isPrepare(c, s)
        BY <1>1, <1>4, <3>2 DEF isPrepare
      <4> QED BY <1>1, <1>8, <2>1, <3>1, <4>1, SeedGrows
    <3>3. CASE s \notin due
      <4>1. \/ seeds'[s] = seeds[s] /\ (seeds[s] # "none" => \A c \in x : ~ isPrepare(c, s))
            \/ seeds'[s] = "Wanted" /\ seeds[s] # "none"
        BY <1>1, <1>5, <2>3, <3>3
      <4> QED BY <1>1, <1>8, <2>1, <3>1, <4>1, SeedGrows
    <3> QED BY <3>2, <3>3
  <2> QED BY <2>2, <2>3
<1> QED BY <1>9, <1>10, <1>11 DEF WireOK, SeedsOK

LEMMA WireStep ==
    ASSUME RestOK, WireOK, [VerifierNext]_verifierVars
    PROVE  WireOK'
<1> DEFINE Status == {"none", "Wanted", "Requested", "Ready"}
<1>0. /\ nextId \in Nat /\ seeds \in [Seeds -> Status]
      /\ MatchOK /\ Opened /\ SeedsOK
  BY DEF RestOK, WireOK
\* Nothing is sent, and no seed of an open connection changes.
<1>1. ASSUME UNCHANGED <<link, controls, wire, prepared>>,
             \A s \in Seeds : \/ seeds'[s] = seeds[s]
                              \/ link # "ready" /\ seeds'[s] \in {"none", "Wanted"}
      PROVE  WireOK'
  <2>1. Grows(controls, {}, {}, {})
    BY <1>1, AllKept, NothingSent DEF Grows
  <2> QED BY <1>1, <2>1, QuietWire
<1>2. CASE verifierDisconnect
  BY <1>0, <1>2, DisconnectedWire DEF verifierDisconnect
<1>3. CASE onConnect
  <2>1. /\ link' = "hello" /\ controls' = {Control(nextId, "hello", NoSeed)}
        /\ wire' = {Frame(nextId, "hello", NoSeed)} /\ seeds' = seeds
        /\ \A s \in Seeds : seeds[s] \in {"none", "Wanted"}
    BY <1>0, <1>3 DEF onConnect, Opened
  <2>2. MatchOK'
    BY <2>1 DEF MatchOK, Paired, OneFrame, NewerKnown, Control, Frame
  <2>3. Opened'
    BY <2>1 DEF Opened, Frame
  <2> QED BY <2>1, <2>2, <2>3 DEF WireOK, SeedsOK
<1>4. CASE stop
  BY <1>4, Unconnected DEF stop
<1>5. CASE HelloReply
  <2> DEFINE wanted == {s \in Seeds : seeds[s] = "Wanted"}
             cs == sentControls(nextId, "prepare_seed", wanted)
             fs == sentFrames(nextId, "prepare_seed", wanted)
  <2>1. /\ link' = "ready" /\ controls' = cs /\ wire' = fs
        /\ seeds' = [s \in Seeds |-> IF s \in wanted THEN "Requested" ELSE seeds[s]]
        /\ \A s \in Seeds : seeds[s] \in {"none", "Wanted"}
    BY <1>0, <1>5 DEF HelloReply, Opened
  <2>2. /\ Batch(cs, fs) /\ \A c \in cs : c.op = "prepare_seed"
        /\ \A f \in fs : f.op = "prepare_seed"
        /\ \A s \in wanted : \E c \in cs : c.seed = s
    <3>1. wanted \in SUBSET Seeds /\ nextId <= nextId
      BY <1>0
    <3> HIDE DEF wanted
    <3> QED BY <1>0, <3>1, SentBatch
  <2>3. \A s \in Seeds : /\ seeds'[s] # "none" => s \in wanted
                         /\ seeds'[s] \in {"none", "Requested"}
    BY <2>1
  <2> HIDE DEF cs, fs, wanted
  <2>4. MatchOK'
    BY <2>1, <2>2 DEF Batch, MatchOK, Paired, OneFrame, NewerKnown, Frame
  <2>5. Opened'
    BY <2>1, <2>2 DEF Opened
  <2>6. ASSUME NEW s \in Seeds PROVE SeedOK(s)'
    <3>1. \A i : NewerThanReleases(i, s)'
      BY <2>1, <2>2 DEF NewerThanReleases, isRelease
    <3>2. LateOK(s)'
      BY <2>1, <2>2 DEF LateOK, isRelease
    <3> QED BY <2>1, <2>2, <2>3, <3>1, <3>2 DEF SeedOK, RequestedOK, ReadyOK, isPrepare
  <2> QED BY <2>4, <2>5, <2>6 DEF WireOK, SeedsOK
<1>6. ASSUME NEW expired, NEW released, NEW added, WriteFails(expired, released, added)
      PROVE  WireOK'
  <2> DEFINE sd == [s \in Seeds |-> IF s \in released THEN "none"
                                    ELSE IF s \in added THEN "Wanted" ELSE seeds[s]]
  <2>1. sd \in [Seeds -> Status] /\ disconnected(sd)
    BY <1>0, <1>6 DEF WriteFails
  <2> QED BY <2>1, DisconnectedWire
<1>7. ASSUME NEW s \in Seeds, PrepareAndSend(s)
      PROVE  WireOK'
  <2> DEFINE new == [Control(nextId, "prepare_seed", s) EXCEPT !.afterSeen = FALSE]
             frame == Frame(nextId, "prepare_seed", s)
  <2>1. /\ link = "ready" /\ link' = "ready" /\ UNCHANGED prepared
        /\ controls' = seen(s) \cup {new} /\ wire' = wire \cup {frame}
        /\ seeds' = [seeds EXCEPT ![s] = "Requested"]
    BY <1>7 DEF PrepareAndSend
  <2>2. /\ new.id = nextId /\ isPrepare(new, s) /\ Frame(new.id, new.op, new.seed) = frame
        /\ frame.id = nextId /\ frame.op = "prepare_seed" /\ frame.seed = s
    BY DEF Control, Frame, isPrepare
  <2> HIDE DEF new, frame
  <2>3. Grows(seen(s), {}, {new}, {frame})
    <3>1. Batch({new}, {frame})
      BY <1>0, <2>2 DEF Batch
    <3> QED BY <2>1, <3>1, SeenKept DEF Grows
  <2>4. MatchOK'
    BY <1>0, <2>3, MatchGrows
  <2>5. Opened'
    BY <1>0, <2>1, <2>2 DEF Opened
  <2>6. ASSUME NEW u \in Seeds PROVE SeedOK(u)'
    <3>1. SeedOK(u) /\ \A f \in {frame} : ~ isRelease(f, u)
      BY <1>0, <2>1, <2>2 DEF SeedsOK, isRelease
    <3>2. \/ seeds'[u] = seeds[u]
          \/ seeds'[u] = "Requested" /\ \E c \in {new} : isPrepare(c, u)
      BY <1>0, <2>1, <2>2
    <3> QED BY <1>0, <2>1, <2>3, <3>1, <3>2, SeedGrows
  <2> QED BY <2>4, <2>5, <2>6 DEF WireOK, SeedsOK
<1>8. ASSUME NEW s \in Seeds, PrepareLater(s)
      PROVE  WireOK'
  <2>1. /\ controls' = seen(s) /\ UNCHANGED <<link, wire, prepared>>
        /\ seeds' = IF seeds[s] = "none" THEN [seeds EXCEPT ![s] = "Wanted"] ELSE seeds
        /\ seeds[s] = "none" => link # "ready"
    BY <1>8 DEF PrepareLater
  <2>2. Grows(seen(s), {}, {}, {})
    BY <2>1, SeenKept, NothingSent DEF Grows
  <2>3. \A u \in Seeds : \/ seeds'[u] = seeds[u]
                         \/ link # "ready" /\ seeds'[u] \in {"none", "Wanted"}
    BY <1>0, <2>1
  <2> QED BY <2>1, <2>2, <2>3, QuietWire
<1>9. ASSUME NEW o \in Owners, NEW s \in Seeds, NEW priority \in BOOLEAN, verify(o, s, priority)
      PROVE  WireOK'
  <2> DEFINE frame == Frame(nextId, "verify", s)
  <2>1. /\ link = "ready" /\ UNCHANGED <<link, controls, seeds, prepared>>
        /\ wire' = wire \cup {frame}
    BY <1>9 DEF verify
  <2>2. frame.id = nextId /\ frame.op = "verify"
    BY DEF Frame
  <2> HIDE DEF frame
  <2>3. Grows(controls, {}, {}, {frame})
    <3>1. Batch({}, {frame})
      BY <1>0, <2>2 DEF Batch
    <3> QED BY <2>1, <3>1, AllKept DEF Grows
  <2>4. MatchOK' /\ Opened'
    BY <1>0, <2>1, <2>2, <2>3, MatchGrows DEF Opened
  <2>5. ASSUME NEW u \in Seeds PROVE SeedOK(u)'
    <3>1. SeedOK(u) /\ \A f \in {frame} : ~ isRelease(f, u)
      BY <1>0, <2>1, <2>2 DEF SeedsOK, isRelease
    <3> QED BY <1>0, <2>1, <2>3, <3>1, SeedGrows
  <2> QED BY <2>4, <2>5 DEF WireOK, SeedsOK
<1>10. ASSUME NEW f \in wire, wire' = wire \ {f}, controls' = {c \in controls : c.id # f.id},
              UNCHANGED link, \A u \in Seeds \ {f.seed} : seeds'[u] = seeds[u],
              \A u \in Seeds \ {f.seed} : u \in prepared => u \in prepared',
              f.op # "hello", SeedOK(f.seed) /\ f.seed \in Seeds => SeedOK(f.seed)'
       PROVE  WireOK'
  <2>1. MatchOK'
    BY <1>0, <1>10, MatchShrinks
  <2>2. link \in {"ready", "stopped"}
    BY <1>0, <1>10 DEF Opened, RestOK
  <2>3. Opened'
    BY <1>0, <1>10, <2>2 DEF Opened
  <2>4. ASSUME NEW u \in Seeds, link = "ready" PROVE SeedOK(u)'
    <3>1. CASE u = f.seed
      BY <1>0, <1>10, <2>4, <3>1 DEF SeedsOK
    <3>2. CASE u # f.seed
      BY <1>0, <1>10, <2>4, <3>2, SeedSpared DEF SeedsOK
    <3> QED BY <3>1, <3>2
  <2> QED BY <1>10, <2>1, <2>3, <2>4 DEF WireOK, SeedsOK
<1>11. ASSUME NEW f \in wire, NEW ok \in BOOLEAN, PrepareReply(f, ok)
       PROVE  WireOK'
  <2>1. f.seed \in Seeds /\ f.op = "prepare_seed"
    BY <1>11 DEF PrepareReply, RestOK
  <2>2. \A u \in Seeds \ {f.seed} : seeds'[u] = seeds[u]
    BY <1>0, <1>11 DEF PrepareReply, afterPrepare
  <2>3. \A u \in prepared : u \in prepared'
    BY <1>11 DEF PrepareReply
  <2>4. SeedOK(f.seed) => SeedOK(f.seed)'
    BY <1>0, <1>11, <2>1, PrepareSeedOK
  <2> QED BY <1>10, <1>11, <2>1, <2>2, <2>3, <2>4 DEF PrepareReply
<1>12. ASSUME NEW f \in wire, ReleaseReply(f)
       PROVE  WireOK'
  <2>1. f.seed \in Seeds /\ f.op = "release_seed"
    BY <1>12 DEF ReleaseReply, RestOK
  <2>2. SeedOK(f.seed) => SeedOK(f.seed)'
    BY <1>0, <1>12, <2>1, ReleaseSeedOK
  <2> QED BY <1>10, <1>12, <2>1, <2>2 DEF ReleaseReply
<1>13. ASSUME NEW f \in wire, VerifyReply(f)
       PROVE  WireOK'
  <2>1. /\ f.op = "verify" /\ wire' = wire \ {f} /\ UNCHANGED <<link, controls, seeds, prepared>>
    BY <1>13 DEF VerifyReply
  <2>2. \A c \in controls : c.id # f.id
    <3>1. ASSUME NEW c \in controls, c.id = f.id PROVE FALSE
      <4>1. c.op = "verify"
        BY <1>0, <2>1, <3>1, OwnFrame
      <4> QED BY <4>1, KnownIds DEF Ops
    <3> QED BY <3>1
  <2>3. controls' = {c \in controls : c.id # f.id}
    BY <2>1, <2>2
  <2>4. MatchOK'
    BY <1>0, <2>1, <2>3, MatchShrinks
  <2>5. Opened'
    BY <1>0, <2>1 DEF Opened
  <2>6. ASSUME NEW u \in Seeds, SeedOK(u) PROVE SeedOK(u)'
    <3>1. \A i : NewerThanReleases(i, u)' <=> NewerThanReleases(i, u)
      BY <2>1 DEF NewerThanReleases, isRelease
    <3>2. Backing(u)' <=> Backing(u)
      BY <2>1, <3>1 DEF Backing, isPrepare
    <3>3. RequestedOK(u)' /\ LateOK(u)'
      BY <2>1, <2>6, <3>1, <3>2 DEF SeedOK, RequestedOK, LateOK
    <3>4. ReadyOK(u)'
      BY <2>1, <2>6, <3>2 DEF SeedOK, ReadyOK
    <3> QED BY <3>3, <3>4 DEF SeedOK
  <2> QED BY <1>0, <2>1, <2>4, <2>5, <2>6 DEF WireOK, SeedsOK
<1>14. ASSUME NEW expired \in SUBSET pending, NEW x, NEW released, NEW due,
              verifierTick(expired, x, released, due)
       PROVE  WireOK'
  <2>1. CASE link = "ready"
    BY <1>14, <2>1, TickWire
  <2>2. CASE link # "ready"
    <3>1. /\ x \subseteq controls /\ (\A c \in x : c.op # "hello") /\ due = {}
          /\ UNCHANGED <<controls, wire, nextId, prepared>>
          /\ link' = IF link = "down" THEN "connecting" ELSE link
          /\ seeds' = [s \in Seeds |-> IF s \in due THEN "Requested"
                                       ELSE seedsAfterExpiry(x, released)[s]]
      BY <1>14, <2>2 DEF verifierTick, ExpiredControls
    <3>2. x = {}
      <4>1. ASSUME NEW c \in controls PROVE c.op = "hello"
        <5>1. link = "hello"
          BY <1>0, <2>2, <4>1 DEF Opened, RestOK
        <5>2. Frame(c.id, c.op, c.seed) \in wire
          BY <1>0 DEF MatchOK, Paired
        <5> QED BY <1>0, <5>1, <5>2 DEF Opened, Frame
      <4> QED BY <3>1, <4>1
    <3>3. \A s \in Seeds : seeds'[s] \in {"none", seeds[s]}
      BY <3>1, <3>2 DEF seedsAfterExpiry
    <3>4. CASE link = "down"
      BY <1>0, <3>1, <3>3, <3>4, Unconnected DEF Opened
    <3>5. CASE link # "down"
      <4>1. UNCHANGED <<link, controls, wire, prepared>>
        BY <3>1, <3>5
      <4>2. MatchOK' /\ Opened' /\ SeedsOK'
        BY <1>0, <2>2, <3>3, <4>1 DEF MatchOK, Paired, OneFrame, NewerKnown, Opened, SeedsOK
      <4> QED BY <4>2 DEF WireOK
    <3> QED BY <3>4, <3>5
  <2> QED BY <2>1, <2>2
<1>15. ASSUME NEW expired, NEW released, tickDown(expired, released)
       PROVE  WireOK'
  <2>1. /\ link = "down" /\ UNCHANGED <<link, controls, wire, prepared>>
        /\ seeds' = seedsAfterExpiry({}, released)
    BY <1>15 DEF tickDown
  <2>2. \A s \in Seeds : seeds'[s] \in {"none", seeds[s]}
    BY <2>1 DEF seedsAfterExpiry
  <2> QED BY <1>0, <1>1, <2>1, <2>2 DEF Opened
<1>16. CASE Tick
  BY <1>6, <1>14, <1>15, <1>16 DEF Tick
<1>17. CASE UNCHANGED verifierVars
  BY <1>1, <1>17 DEF verifierVars
<1>18. ASSUME NEW o \in Owners, cancelOwner(o) PROVE WireOK'
  BY <1>1, <1>18 DEF cancelOwner
<1>19. ASSUME NEW s \in Seeds, prepareSeed(s) PROVE WireOK'
  BY <1>6, <1>7, <1>8, <1>19 DEF prepareSeed
<1>20. ASSUME NEW f \in wire, Reply(f) PROVE WireOK'
  BY <1>11, <1>12, <1>13, <1>20 DEF Reply
<1> QED BY <1>2, <1>3, <1>4, <1>5, <1>6, <1>9, <1>16, <1>17, <1>18, <1>19, <1>20 DEF VerifierNext

\* WireOK is an invariant of the client.
THEOREM WireInvariance == VerifierSpec => []WireOK
<1>1. VerifierInit => WireOK
  BY DEF VerifierInit, NoRequest, WireOK, MatchOK, Paired, OneFrame, NewerKnown, Opened, SeedsOK
<1>2. VerifierInv /\ WireOK /\ [VerifierNext]_verifierVars => WireOK'
  BY Split, WireStep
<1> QED BY <1>1, <1>2, VerifierInvariance, PTL DEF VerifierSpec

\* However deadlines, releases, replies and lost connections interleave, and for
\* any number of seeds, a seed that is requested has a prepare_seed that the
\* client waits for and the sidecar still has to answer (handleResponse, tick,
\* prepareSeed, releaseSeed).
THEOREM RequestedIsAwaitedTheorem == VerifierSpec => []RequestedIsAwaited
<1>1. WireOK => RequestedIsAwaited
  <2> SUFFICES ASSUME WireOK, link = "ready", NEW s \in Seeds, seeds[s] = "Requested"
               PROVE  \E c \in controls, f \in wire :
                          c.op = "prepare_seed" /\ c.seed = s /\ f.id = c.id
    BY DEF RequestedIsAwaited
  <2>1. PICK c \in controls : isPrepare(c, s)
    BY DEF WireOK, SeedsOK, SeedOK, RequestedOK
  <2>2. Frame(c.id, c.op, c.seed) \in wire /\ Frame(c.id, c.op, c.seed).id = c.id
    BY DEF WireOK, MatchOK, Paired, Frame
  <2> QED BY <2>1, <2>2 DEF isPrepare
<1> QED BY <1>1, WireInvariance, PTL

\* A late reply never leaves a ready seed without its dataset: the sidecar holds
\* it and no release is on its way, or a prepare_seed newer than every release is
\* (handleResponse, which takes the reply for the seed now in the table).
THEOREM ReadyIsBackedTheorem == VerifierSpec => []ReadyIsBacked
<1>1. WireOK => ReadyIsBacked
  <2> SUFFICES ASSUME WireOK, link = "ready", NEW s \in Seeds, seeds[s] = "Ready"
               PROVE  LET releases == {f \in wire : f.op = "release_seed" /\ f.seed = s}
                      IN  \/ s \in prepared /\ releases = {}
                          \/ \E f \in wire : /\ f.op = "prepare_seed" /\ f.seed = s
                                             /\ \A r \in releases : r.id < f.id
    BY DEF ReadyIsBacked
  <2>1. Backing(s) \/ (s \in prepared /\ \A r \in wire : ~ isRelease(r, s))
    BY DEF WireOK, SeedsOK, SeedOK, ReadyOK
  <2> QED BY <2>1 DEF Backing, NewerThanReleases, isPrepare, isRelease
<1> QED BY <1>1, WireInvariance, PTL
=============================================================================
