--------------------------- MODULE Upstream_proofs ---------------------------
(***************************************************************************)
(* Proofs about the clients towards pools and daemons, which share no      *)
(* state: where templates come from (DaemonTemplates), and the clients of  *)
(* a pool strategy (FailoverStrategy).                                     *)
(*                                                                         *)
(* Of the source of a daemon pool: types, the unbroken timer chain, the    *)
(* queues that always drain and, for a daemon whose RPC side knows every   *)
(* published tip, the pursuit of every notification.  Of the self-select   *)
(* client: that the template in a job was made for it, for any number of   *)
(* retries and with or without submission to the origin daemon.  Then both *)
(* as one specification.                                                   *)
(*                                                                         *)
(* Of pool strategies: a deleted client is released, and a share is        *)
(* answered at most once, for any number of pools, retries and shares.     *)
(***************************************************************************)
EXTENDS DaemonTemplates, FailoverStrategy, TLAPS

(***************************************************************************)
(* The source of a daemon pool                                             *)
(***************************************************************************)

-----------------------------------------------------------------------------
(* What the operators do to the state                                      *)

\* Requesting a template leaves one in flight and touches nothing else but the
\* queue, which keeps a waiting ZMQ refresh (requestTemplate).
LEMMA RequestTemplate ==
    ASSUME NEW s \in SourceState, NEW reason \in Reasons, rpcTip \in Tips,
           NEW r, r = requestTemplate(s, reason)
    PROVE  /\ r \in SourceState
           /\ r.templateInFlight
           /\ (r.shutdown <=> s.shutdown) /\ (r.timer <=> s.timer) /\ r.latest = s.latest
           /\ (r.zmqTimer <=> s.zmqTimer) /\ (r.heightInFlight <=> s.heightInFlight)
           /\ (r.heightPending <=> s.heightPending) /\ r.heightFrom = s.heightFrom
           /\ (r.heightFollowup <=> s.heightFollowup)
           /\ s.templateInFlight => /\ r.templateFrom = s.templateFrom
                                    /\ r.templatePending
                                    /\ \/ reason = "zmq"
                                       \/ s.templatePending /\ s.pendingReason = "zmq"
                                       => r.pendingReason = "zmq"
           /\ ~ s.templateInFlight => /\ r.templateFrom = rpcTip
                                      /\ (r.templatePending <=> s.templatePending)
<1> DEFINE best == IF \/ ~ s.templatePending
                      \/ reasonPriority(reason) > reasonPriority(s.pendingReason)
                   THEN reason ELSE s.pendingReason
<1>1. best \in Reasons
  BY DEF SourceState
<1>2. \/ reason = "zmq"
      \/ s.templatePending /\ s.pendingReason = "zmq"
      => best = "zmq"
  <2>1. s.pendingReason \in Reasons
    BY DEF SourceState
  <2> QED BY <2>1 DEF Reasons, reasonPriority
<1>3. CASE s.templateInFlight
  <2>1. r = [s EXCEPT !.templatePending = TRUE, !.pendingReason = best]
    BY <1>3 DEF requestTemplate
  <2> HIDE DEF best
  <2> QED BY <1>1, <1>2, <1>3, <2>1 DEF SourceState
<1>4. CASE ~ s.templateInFlight
  <2>1. r = [s EXCEPT !.templateInFlight = TRUE, !.templateFrom = rpcTip]
    BY <1>4 DEF requestTemplate
  <2> QED BY <1>4, <2>1 DEF SourceState
<1> QED BY <1>3, <1>4

\* Requesting a height check starts one or leaves it waiting (requestHeight).
LEMMA RequestHeight ==
    ASSUME NEW s \in SourceState, NEW followup \in BOOLEAN, rpcTip \in Tips,
           NEW r, r = requestHeight(s, followup)
    PROVE  /\ r \in SourceState
           /\ (r.shutdown <=> s.shutdown) /\ (r.timer <=> s.timer) /\ r.latest = s.latest
           /\ (r.zmqTimer <=> s.zmqTimer)
           /\ (r.templateInFlight <=> s.templateInFlight) /\ r.templateFrom = s.templateFrom
           /\ (r.templatePending <=> s.templatePending) /\ r.pendingReason = s.pendingReason
           /\ s.heightInFlight \/ s.templateInFlight
                => /\ r.heightPending
                   /\ (r.heightInFlight <=> s.heightInFlight) /\ r.heightFrom = s.heightFrom
                   /\ (r.heightFollowup <=> s.heightFollowup)
           /\ ~ (s.heightInFlight \/ s.templateInFlight)
                => r.heightInFlight /\ r.heightFrom = rpcTip /\ (r.heightPending <=> s.heightPending)
BY DEF requestHeight, SourceState

\* The queues after a template request ended: nothing waits for nothing, and a
\* ZMQ refresh or a height check that waited is now under way with a current
\* view, or still waits for a request in flight (drainTemplateQueue and
\* drainHeightQueue, in the order the handlers call them).
LEMMA Drained ==
    ASSUME NEW s \in SourceState, ~ s.templateInFlight, rpcTip \in Tips,
           NEW recent \in BOOLEAN, NEW covered \in BOOLEAN,
           NEW r, r = drainHeightQueue(drainTemplateQueue(s, recent), covered)
    PROVE  /\ r \in SourceState
           /\ (r.shutdown <=> s.shutdown) /\ (r.timer <=> s.timer) /\ r.latest = s.latest
           /\ (r.zmqTimer <=> s.zmqTimer)
           /\ ~ r.templatePending
           /\ r.heightPending => r.heightInFlight \/ r.templateInFlight
           /\ s.heightInFlight => /\ r.heightInFlight /\ r.heightFrom = s.heightFrom
                                  /\ (r.heightFollowup <=> s.heightFollowup)
                                  /\ (r.heightPending <=> s.heightPending)
           /\ s.heightPending => \/ r.heightPending
                                 \/ r.heightInFlight /\ r.heightFrom = rpcTip
           /\ r.heightInFlight \/ r.heightPending => s.heightInFlight \/ s.heightPending
           /\ r.templateInFlight => r.templateFrom = rpcTip
           /\ s.templatePending /\ s.pendingReason = "zmq" => r.templateInFlight
<1> DEFINE d == drainTemplateQueue(s, recent)
           idle == [s EXCEPT !.templatePending = FALSE, !.pendingReason = "timer"]
<1>1. /\ d \in SourceState
      /\ (d.shutdown <=> s.shutdown) /\ (d.timer <=> s.timer) /\ d.latest = s.latest
      /\ (d.zmqTimer <=> s.zmqTimer)
      /\ ~ d.templatePending
      /\ (d.heightInFlight <=> s.heightInFlight) /\ d.heightFrom = s.heightFrom
      /\ (d.heightFollowup <=> s.heightFollowup) /\ (d.heightPending <=> s.heightPending)
      /\ d.templateInFlight => d.templateFrom = rpcTip
      /\ s.templatePending /\ s.pendingReason = "zmq" => d.templateInFlight
  <2>1. CASE ~ s.templatePending
    BY <2>1 DEF drainTemplateQueue, SourceState
  <2>2. CASE s.templatePending
    <3>1. /\ idle \in SourceState /\ ~ idle.templateInFlight /\ ~ idle.templatePending
          /\ (idle.shutdown <=> s.shutdown) /\ (idle.timer <=> s.timer) /\ idle.latest = s.latest
          /\ (idle.zmqTimer <=> s.zmqTimer)
          /\ (idle.heightInFlight <=> s.heightInFlight) /\ idle.heightFrom = s.heightFrom
          /\ (idle.heightFollowup <=> s.heightFollowup) /\ (idle.heightPending <=> s.heightPending)
      BY DEF SourceState, Reasons
    <3>2. s.pendingReason \in Reasons
      BY DEF SourceState
    <3>3. \/ d = idle /\ s.pendingReason = "timer"
          \/ d = requestTemplate(idle, s.pendingReason)
      BY <2>2 DEF drainTemplateQueue
    <3> HIDE DEF idle, d
    <3>4. CASE d = idle /\ s.pendingReason = "timer"
      BY <3>1, <3>4
    <3>5. CASE d = requestTemplate(idle, s.pendingReason)
      BY <3>1, <3>2, <3>5, RequestTemplate
    <3> QED BY <3>3, <3>4, <3>5
  <2> QED BY <2>1, <2>2
<1> DEFINE free == [d EXCEPT !.heightPending = FALSE]
<1>2. r = IF ~ d.heightPending \/ d.heightInFlight \/ d.templateInFlight
          THEN d ELSE requestHeight(free, covered)
  BY DEF drainHeightQueue
<1> HIDE DEF d
<1>3. /\ free \in SourceState /\ ~ free.heightPending
      /\ (free.shutdown <=> d.shutdown) /\ (free.timer <=> d.timer) /\ free.latest = d.latest
      /\ (free.zmqTimer <=> d.zmqTimer) /\ (free.templatePending <=> d.templatePending)
      /\ (free.heightInFlight <=> d.heightInFlight) /\ (free.templateInFlight <=> d.templateInFlight)
      /\ free.templateFrom = d.templateFrom
  BY <1>1 DEF SourceState
<1> HIDE DEF free
<1>4. CASE ~ d.heightPending \/ d.heightInFlight \/ d.templateInFlight
  BY <1>1, <1>2, <1>4
<1>5. CASE ~ (~ d.heightPending \/ d.heightInFlight \/ d.templateInFlight)
  <2>1. r = requestHeight(free, covered)
    BY <1>2, <1>5
  <2> QED BY <1>1, <1>3, <1>5, <2>1, RequestHeight
<1> QED BY <1>4, <1>5

-----------------------------------------------------------------------------
(* The inductive invariant                                                 *)

\* What keeps the pursuit of tip a alive in state s: a check that will see a or
\* will be repeated, an armed retry, or a fetch that will see a or has such a
\* check or another fetch waiting behind it.
Chasing(s, a) ==
    \/ s.heightInFlight /\ (s.heightFrom >= a \/ s.heightPending \/ ~ s.heightFollowup)
    \/ s.zmqTimer
    \/ s.templateInFlight /\ \/ s.templateFrom >= a
                             \/ s.heightPending
                             \/ s.templatePending /\ s.pendingReason = "zmq"

\* Queued requests wait for one in flight, and a retry is armed only while no
\* check is in flight or waiting: a check that ends never cancels it.
Queues(s) ==
    /\ s.templatePending => s.templateInFlight
    /\ s.heightPending => s.heightInFlight \/ s.templateInFlight
    /\ s.zmqTimer => ~ s.heightInFlight /\ ~ s.heightPending

\* A fetch in flight in r was sent now or was already in flight in s.
FetchOf(s, r) ==
    r.templateInFlight =>
        \/ r.templateFrom = rpcTip
        \/ s.templateInFlight /\ r.templateFrom = s.templateFrom

\* The cached tip is not newer than what the RPC, or a fetch, may answer: no
\* reply takes the source back to an older tip.
Order ==
    /\ src.latest <= rpcTip
    /\ src.templateInFlight => src.latest <= src.templateFrom /\ src.templateFrom <= rpcTip

\* Nothing is announced before the daemon has it, and without lag the RPC
\* knows all of it.
Views ==
    /\ announced <= tip
    /\ \A i \in 1..Len(unread) : unread[i] <= tip
    /\ ~ rpcLags => rpcTip = tip

Pursuit ==
    ~ rpcLags /\ ~ src.shutdown /\ announced > src.latest /\ announced > excused
        => Chasing(src, announced)

IInv == TypeOK /\ NeverStalls /\ Queues(src) /\ Order /\ Views /\ Pursuit

-----------------------------------------------------------------------------
(* What the handlers do to it                                              *)

\* An installed template re-arms the timer, and one on an older tip than the
\* one pursued leaves the pursuit alive (onHttpData, getblocktemplate).
LEMMA InstallTemplate ==
    ASSUME NEW s \in SourceState, s.templateInFlight, Queues(s), rpcTip \in Tips,
           NEW t \in Tips, t >= s.templateFrom, NEW r, r = installTemplate(s, t)
    PROVE  /\ r \in SourceState /\ Queues(r)
           /\ r.templateInFlight => r.templateFrom = rpcTip
           /\ r.timer /\ r.latest = t /\ (r.shutdown <=> s.shutdown)
           /\ \A a \in Tips : a <= rpcTip /\ a > t /\ Chasing(s, a) => Chasing(r, a)
<1> DEFINE i == [s EXCEPT !.templateInFlight = FALSE, !.latest = t, !.timer = TRUE]
<1>1. /\ i \in SourceState /\ ~ i.templateInFlight /\ i.timer /\ i.latest = t
      /\ (i.shutdown <=> s.shutdown) /\ (i.zmqTimer <=> s.zmqTimer)
      /\ (i.heightInFlight <=> s.heightInFlight) /\ i.heightFrom = s.heightFrom
      /\ (i.heightFollowup <=> s.heightFollowup) /\ (i.heightPending <=> s.heightPending)
      /\ (i.templatePending <=> s.templatePending) /\ i.pendingReason = s.pendingReason
  BY DEF SourceState
<1>2. r = drainHeightQueue(drainTemplateQueue(i, TRUE), s.latest # t)
  BY DEF installTemplate
<1> HIDE DEF i
<1>3. PICK recent \in BOOLEAN, covered \in BOOLEAN :
             r = drainHeightQueue(drainTemplateQueue(i, recent), covered)
  <2> DEFINE advanced == s.latest # t
             now == TRUE
  <2>1. advanced \in BOOLEAN /\ now \in BOOLEAN
    OBVIOUS
  <2>2. r = drainHeightQueue(drainTemplateQueue(i, now), advanced)
    BY <1>2
  <2> HIDE DEF advanced, now
  <2> QED BY <2>1, <2>2
<1>4. /\ r \in SourceState
      /\ ~ r.templatePending
      /\ r.heightPending => r.heightInFlight \/ r.templateInFlight
      /\ (r.zmqTimer <=> i.zmqTimer) /\ (r.timer <=> i.timer)
      /\ (r.shutdown <=> i.shutdown) /\ r.latest = i.latest
  BY <1>1, <1>3, Drained
<1>5. i.heightInFlight => /\ r.heightInFlight /\ r.heightFrom = i.heightFrom
                          /\ (r.heightFollowup <=> i.heightFollowup)
                          /\ (r.heightPending <=> i.heightPending)
  BY <1>1, <1>3, Drained
<1>6. /\ i.heightPending => \/ r.heightPending
                            \/ r.heightInFlight /\ r.heightFrom = rpcTip
      /\ r.heightInFlight \/ r.heightPending => i.heightInFlight \/ i.heightPending
  BY <1>1, <1>3, Drained
<1>7. /\ r.templateInFlight => r.templateFrom = rpcTip
      /\ i.templatePending /\ i.pendingReason = "zmq" => r.templateInFlight
  BY <1>1, <1>3, Drained
<1>8. ASSUME NEW a \in Tips, a <= rpcTip, a > t, Chasing(s, a)
      PROVE  Chasing(r, a)
  <2>1. CASE s.heightInFlight /\ (s.heightFrom >= a \/ s.heightPending \/ ~ s.heightFollowup)
    BY <1>1, <1>4, <1>5, <2>1 DEF Chasing
  <2>2. CASE s.zmqTimer
    BY <1>1, <1>4, <2>2 DEF Chasing
  <2>3. ~ (s.templateFrom >= a)
    BY <1>8 DEF SourceState, Tips
  <2>4. CASE s.heightPending
    BY <1>1, <1>4, <1>8, <1>6, <2>4 DEF Chasing, Tips
  <2>5. CASE s.templatePending /\ s.pendingReason = "zmq"
    BY <1>1, <1>4, <1>8, <1>7, <2>5 DEF Chasing, Tips
  <2> QED BY <1>8, <2>1, <2>2, <2>3, <2>4, <2>5 DEF Chasing
<1> QED BY <1>1, <1>4, <1>6, <1>7, <1>8 DEF Queues

\* A failed template request leaves another one in flight or the timer armed
\* (failTemplate).
LEMMA FailTemplate ==
    ASSUME NEW s \in SourceState, s.templateInFlight, Queues(s), rpcTip \in Tips,
           NEW recent \in BOOLEAN, NEW r, r = failTemplate(s, recent)
    PROVE  /\ r \in SourceState /\ Queues(r) /\ FetchOf(s, r)
           /\ r.timer \/ r.templateInFlight
           /\ (r.shutdown <=> s.shutdown) /\ r.latest = s.latest
<1> DEFINE i == [s EXCEPT !.templateInFlight = FALSE]
           d == drainHeightQueue(drainTemplateQueue(i, recent), FALSE)
<1>1. /\ i \in SourceState /\ ~ i.templateInFlight /\ (i.shutdown <=> s.shutdown)
      /\ (i.zmqTimer <=> s.zmqTimer) /\ i.latest = s.latest
      /\ (i.heightInFlight <=> s.heightInFlight) /\ (i.heightPending <=> s.heightPending)
  BY DEF SourceState
<1>2. r = IF d.templateInFlight \/ d.templatePending THEN d ELSE [d EXCEPT !.timer = TRUE]
  BY DEF failTemplate
<1> HIDE DEF i
<1>3. /\ d \in SourceState /\ (d.shutdown <=> i.shutdown) /\ ~ d.templatePending
      /\ (d.zmqTimer <=> i.zmqTimer) /\ d.latest = i.latest
      /\ d.templateInFlight => d.templateFrom = rpcTip
      /\ d.heightInFlight \/ d.heightPending => i.heightInFlight \/ i.heightPending
      /\ d.heightPending => d.heightInFlight \/ d.templateInFlight
  BY <1>1, Drained
<1> HIDE DEF d
<1>4. CASE d.templateInFlight
  BY <1>1, <1>2, <1>3, <1>4 DEF Queues, FetchOf
<1>5. CASE ~ d.templateInFlight
  <2>1. r = [d EXCEPT !.timer = TRUE]
    BY <1>2, <1>3, <1>5
  <2> QED BY <1>1, <1>3, <1>5, <2>1 DEF Queues, SourceState, FetchOf
<1> QED BY <1>4, <1>5

\* What stays of a height request that ended (heightDone, retry, giveUp and
\* resetRetries).
LEMMA HeightEnds ==
    ASSUME NEW s \in SourceState, NEW followup \in BOOLEAN, NEW r,
           \/ r = giveUp(heightDone(s))
           \/ r = resetRetries(heightDone(s))
           \/ r = retry(heightDone(s), followup) /\ ~ outOfRetries(s)
    PROVE  /\ r \in SourceState
           /\ ~ r.heightInFlight /\ ~ r.heightPending
           /\ (r.shutdown <=> s.shutdown) /\ (r.timer <=> s.timer) /\ r.latest = s.latest
           /\ (r.templateInFlight <=> s.templateInFlight) /\ r.templateFrom = s.templateFrom
           /\ (r.templatePending <=> s.templatePending) /\ r.pendingReason = s.pendingReason
<1> DEFINE h == heightDone(s)
<1>1. /\ h \in SourceState
      /\ ~ h.heightInFlight /\ ~ h.heightPending
      /\ (h.shutdown <=> s.shutdown) /\ (h.timer <=> s.timer) /\ h.latest = s.latest
      /\ (h.templateInFlight <=> s.templateInFlight) /\ h.templateFrom = s.templateFrom
      /\ (h.templatePending <=> s.templatePending) /\ h.pendingReason = s.pendingReason
      /\ h.zmqHeightRetries = s.zmqHeightRetries
  BY DEF heightDone, SourceState
<1>2. r = giveUp(h) \/ r = resetRetries(h) \/ (r = retry(h, followup) /\ ~ outOfRetries(s))
  OBVIOUS
<1>3. 0 \in 0..kMaxZmqHeightRetries
  BY SourceAssumption
<1>4. ~ outOfRetries(s) => h.zmqHeightRetries + 1 \in 0..kMaxZmqHeightRetries
  BY <1>1, SourceAssumption DEF outOfRetries, SourceState
<1> HIDE DEF h
<1>5. CASE r = giveUp(h)
  BY <1>1, <1>3, <1>5 DEF giveUp, SourceState
<1>6. CASE r = resetRetries(h)
  BY <1>1, <1>3, <1>6 DEF resetRetries, SourceState
<1>7. CASE ~ outOfRetries(s) /\ r = retry(h, followup)
  BY <1>1, <1>4, <1>7 DEF retry, SourceState
<1> QED BY <1>2, <1>5, <1>6, <1>7

\* A retry arms the retry timer and a reset stops it.
LEMMA RetryArms ==
    ASSUME NEW s \in SourceState, NEW followup \in BOOLEAN
    PROVE  /\ retry(heightDone(s), followup).zmqTimer
           /\ ~ resetRetries(heightDone(s)).zmqTimer
<1>1. heightDone(s) \in SourceState
  BY DEF heightDone, SourceState
<1> QED BY <1>1 DEF retry, resetRetries, SourceState

\* An answered check keeps the pursuit alive unless its retries ran out
\* (onHttpData, /getheight).
LEMMA CheckHeight ==
    ASSUME NEW s \in SourceState, s.heightInFlight, Queues(s), rpcTip \in Tips,
           NEW t \in Tips, t >= s.heightFrom, NEW r, r = checkHeight(s, t)
    PROVE  /\ r \in SourceState /\ Queues(r) /\ FetchOf(s, r)
           /\ (r.timer <=> s.timer) /\ r.latest = s.latest /\ (r.shutdown <=> s.shutdown)
           /\ s.templateInFlight => r.templateInFlight
           /\ \A a \in Tips :
                a <= rpcTip /\ a > s.latest /\ Chasing(s, a)
                  /\ ~ (t = s.latest /\ ~ s.heightFollowup /\ outOfRetries(s))
                => Chasing(r, a)
<1> DEFINE h == heightDone(s)
           z == resetRetries(h)
<1>1. /\ z \in SourceState /\ ~ z.zmqTimer
      /\ ~ z.heightInFlight /\ ~ z.heightPending
      /\ (z.shutdown <=> s.shutdown) /\ (z.timer <=> s.timer) /\ z.latest = s.latest
      /\ (z.templateInFlight <=> s.templateInFlight) /\ z.templateFrom = s.templateFrom
      /\ (z.templatePending <=> s.templatePending) /\ z.pendingReason = s.pendingReason
  BY HeightEnds, RetryArms
<1>2. CASE s.latest # 0 /\ t = s.latest /\ s.heightFollowup
  <2>1. r = [z EXCEPT !.zmqTimer = s.heightPending, !.heightRetryFollowup = s.heightPending]
    BY <1>2 DEF checkHeight
  <2> HIDE DEF z
  <2>2. /\ r \in SourceState /\ ~ r.heightInFlight /\ ~ r.heightPending
        /\ (r.zmqTimer <=> s.heightPending)
        /\ (r.shutdown <=> s.shutdown) /\ (r.timer <=> s.timer) /\ r.latest = s.latest
        /\ (r.templateInFlight <=> s.templateInFlight) /\ r.templateFrom = s.templateFrom
        /\ (r.templatePending <=> s.templatePending) /\ r.pendingReason = s.pendingReason
    BY <1>1, <2>1 DEF SourceState
  <2>3. ASSUME NEW a \in Tips, a > s.latest, Chasing(s, a)
        PROVE  Chasing(r, a)
    <3>1. ~ (s.heightFrom >= a)
      BY <1>2, <2>3 DEF SourceState, Tips
    <3>2. CASE s.heightPending
      BY <2>2, <3>2 DEF Chasing
    <3>3. CASE ~ s.heightPending
      BY <1>2, <2>2, <2>3, <3>1, <3>3 DEF Chasing, Queues
    <3> QED BY <3>2, <3>3
  <2> QED BY <2>2, <2>3 DEF Queues, FetchOf
<1>3. CASE s.latest # 0 /\ t = s.latest /\ ~ s.heightFollowup /\ ~ outOfRetries(s)
  <2>1. r = retry(h, FALSE)
    BY <1>3 DEF checkHeight
  <2>2. r.zmqTimer
    BY <2>1, RetryArms
  <2>3. PICK followup \in BOOLEAN : r = retry(heightDone(s), followup)
    <3> DEFINE no == FALSE
    <3>1. no \in BOOLEAN /\ r = retry(heightDone(s), no)
      BY <2>1
    <3> HIDE DEF no
    <3> QED BY <3>1
  <2>4. /\ r \in SourceState /\ ~ r.heightPending /\ ~ r.heightInFlight
        /\ (r.shutdown <=> s.shutdown) /\ (r.timer <=> s.timer) /\ r.latest = s.latest
        /\ (r.templateInFlight <=> s.templateInFlight) /\ r.templateFrom = s.templateFrom
        /\ (r.templatePending <=> s.templatePending)
    BY <1>3, <2>3, HeightEnds
  <2> QED BY <2>2, <2>4 DEF Queues, Chasing, FetchOf
<1>4. CASE s.latest # 0 /\ t = s.latest /\ ~ s.heightFollowup /\ outOfRetries(s)
  <2>1. r = giveUp(h)
    BY <1>4 DEF checkHeight
  <2>2. ~ h.zmqTimer
    BY DEF heightDone, Queues, SourceState
  <2>3. ~ r.zmqTimer
    BY <2>1, <2>2 DEF giveUp, heightDone, SourceState
  <2>4. /\ r \in SourceState /\ ~ r.heightPending
        /\ (r.shutdown <=> s.shutdown) /\ (r.timer <=> s.timer) /\ r.latest = s.latest
        /\ (r.templateInFlight <=> s.templateInFlight) /\ r.templateFrom = s.templateFrom
        /\ (r.templatePending <=> s.templatePending)
    BY <2>1, HeightEnds
  <2> QED BY <1>4, <2>3, <2>4 DEF Queues, FetchOf
<1>5. CASE ~ (s.latest # 0 /\ t = s.latest)
  <2> DEFINE p == [z EXCEPT !.heightPending = s.heightPending]
  <2>1. r = requestTemplate(p, "zmq")
    BY <1>5 DEF checkHeight
  <2> HIDE DEF z
  <2>2. /\ p \in SourceState /\ ~ p.heightInFlight /\ ~ p.zmqTimer
        /\ (p.shutdown <=> s.shutdown) /\ (p.timer <=> s.timer) /\ p.latest = s.latest
        /\ (p.templateInFlight <=> s.templateInFlight) /\ p.templateFrom = s.templateFrom
        /\ (p.templatePending <=> s.templatePending)
    BY <1>1 DEF SourceState
  <2> HIDE DEF p
  <2>3. "zmq" \in Reasons
    BY DEF Reasons
  <2>4. /\ r \in SourceState /\ r.templateInFlight /\ (r.zmqTimer <=> p.zmqTimer)
        /\ (r.shutdown <=> p.shutdown) /\ (r.timer <=> p.timer) /\ r.latest = p.latest
        /\ p.templateInFlight => /\ r.templatePending /\ r.pendingReason = "zmq"
                                 /\ r.templateFrom = p.templateFrom
        /\ ~ p.templateInFlight => r.templateFrom = rpcTip
    BY <2>1, <2>2, <2>3, RequestTemplate
  <2>5. \A a \in Tips : a <= rpcTip => Chasing(r, a)
    BY <2>2, <2>4 DEF Chasing, Tips
  <2> QED BY <2>2, <2>4, <2>5 DEF Queues, FetchOf
<1> QED BY <1>2, <1>3, <1>4, <1>5

\* A failed check is repeated unless its retries ran out (failHeight).
LEMMA FailHeight ==
    ASSUME NEW s \in SourceState, s.heightInFlight, Queues(s), NEW r, r = failHeight(s)
    PROVE  /\ r \in SourceState /\ Queues(r) /\ FetchOf(s, r)
           /\ (r.timer <=> s.timer) /\ r.latest = s.latest /\ (r.shutdown <=> s.shutdown)
           /\ s.templateInFlight => r.templateInFlight
           /\ ~ outOfRetries(s) => r.zmqTimer
<1> DEFINE f == s.heightFollowup
<1>1. f \in BOOLEAN
  BY DEF SourceState
<1>2. r = IF outOfRetries(s) THEN giveUp(heightDone(s)) ELSE retry(heightDone(s), f)
  BY DEF failHeight
<1> HIDE DEF f
<1>3. /\ r \in SourceState /\ ~ r.heightPending /\ ~ r.heightInFlight
      /\ (r.shutdown <=> s.shutdown) /\ (r.timer <=> s.timer) /\ r.latest = s.latest
      /\ (r.templateInFlight <=> s.templateInFlight) /\ r.templateFrom = s.templateFrom
      /\ (r.templatePending <=> s.templatePending)
  <2>1. CASE outOfRetries(s)
    BY <1>1, <1>2, <2>1, HeightEnds
  <2>2. CASE ~ outOfRetries(s)
    BY <1>1, <1>2, <2>2, HeightEnds
  <2> QED BY <2>1, <2>2
<1>4. ~ outOfRetries(s) => r.zmqTimer
  BY <1>1, <1>2, RetryArms
<1> QED BY <1>3, <1>4 DEF Queues, FetchOf

\* A notification restarts the retries and asks for a check, at once or behind
\* the request in flight (notifyZmq).
LEMMA Notify ==
    ASSUME NEW s \in SourceState, Queues(s), rpcTip \in Tips, NEW no \in BOOLEAN,
           NEW r, r = requestHeight(resetRetries(s), no)
    PROVE  /\ r \in SourceState /\ Queues(r) /\ FetchOf(s, r)
           /\ (r.timer <=> s.timer) /\ r.latest = s.latest /\ (r.shutdown <=> s.shutdown)
           /\ (r.templateInFlight <=> s.templateInFlight)
           /\ \A a \in Tips : a <= rpcTip => Chasing(r, a)
<1> DEFINE z == resetRetries(s)
<1>0. 0 \in 0..kMaxZmqHeightRetries
  BY SourceAssumption
<1>1. /\ z \in SourceState /\ ~ z.zmqTimer
      /\ (z.timer <=> s.timer) /\ z.latest = s.latest /\ (z.shutdown <=> s.shutdown)
      /\ (z.templateInFlight <=> s.templateInFlight) /\ z.templateFrom = s.templateFrom
      /\ (z.templatePending <=> s.templatePending)
      /\ (z.heightInFlight <=> s.heightInFlight)
      /\ (z.heightPending <=> s.heightPending)
  BY <1>0 DEF resetRetries, SourceState
<1>2. r = requestHeight(z, no)
  OBVIOUS
<1> HIDE DEF z
<1>3. /\ r \in SourceState
      /\ (r.shutdown <=> z.shutdown) /\ (r.timer <=> z.timer) /\ r.latest = z.latest
      /\ (r.zmqTimer <=> z.zmqTimer)
      /\ (r.templateInFlight <=> z.templateInFlight) /\ r.templateFrom = z.templateFrom
      /\ (r.templatePending <=> z.templatePending)
      /\ z.heightInFlight \/ z.templateInFlight
           => r.heightPending /\ (r.heightInFlight <=> z.heightInFlight)
      /\ ~ (z.heightInFlight \/ z.templateInFlight)
           => r.heightInFlight /\ r.heightFrom = rpcTip /\ (r.heightPending <=> z.heightPending)
  BY <1>1, <1>2, RequestHeight
<1>4. Queues(r)
  BY <1>1, <1>3 DEF Queues
<1>5. ASSUME NEW a \in Tips, a <= rpcTip
      PROVE  Chasing(r, a)
  BY <1>1, <1>3, <1>5 DEF Chasing, Tips
<1>6. FetchOf(s, r)
  BY <1>1, <1>3 DEF FetchOf
<1> QED BY <1>1, <1>3, <1>4, <1>5, <1>6

\* A retry asks for the check again (onTimer, m_zmqTimer).
LEMMA RetryFires ==
    ASSUME NEW s \in SourceState, Queues(s), s.zmqTimer, rpcTip \in Tips,
           NEW r, r = requestHeight([s EXCEPT !.zmqTimer = FALSE], s.heightRetryFollowup)
    PROVE  /\ r \in SourceState /\ Queues(r) /\ FetchOf(s, r)
           /\ (r.timer <=> s.timer) /\ r.latest = s.latest /\ (r.shutdown <=> s.shutdown)
           /\ (r.templateInFlight <=> s.templateInFlight)
           /\ \A a \in Tips : a <= rpcTip => Chasing(r, a)
<1> DEFINE z == [s EXCEPT !.zmqTimer = FALSE]
           f == s.heightRetryFollowup
<1>1. /\ z \in SourceState /\ ~ z.zmqTimer
      /\ (z.timer <=> s.timer) /\ z.latest = s.latest /\ (z.shutdown <=> s.shutdown)
      /\ (z.templateInFlight <=> s.templateInFlight) /\ z.templateFrom = s.templateFrom
      /\ (z.templatePending <=> s.templatePending)
      /\ (z.heightInFlight <=> s.heightInFlight)
      /\ (z.heightPending <=> s.heightPending)
  BY DEF SourceState
<1>2. f \in BOOLEAN /\ r = requestHeight(z, f)
  BY DEF SourceState
<1> HIDE DEF z, f
<1>3. /\ r \in SourceState
      /\ (r.shutdown <=> z.shutdown) /\ (r.timer <=> z.timer) /\ r.latest = z.latest
      /\ (r.zmqTimer <=> z.zmqTimer)
      /\ (r.templateInFlight <=> z.templateInFlight) /\ r.templateFrom = z.templateFrom
      /\ (r.templatePending <=> z.templatePending)
      /\ z.heightInFlight \/ z.templateInFlight
           => r.heightPending /\ (r.heightInFlight <=> z.heightInFlight)
      /\ ~ (z.heightInFlight \/ z.templateInFlight)
           => r.heightInFlight /\ r.heightFrom = rpcTip /\ (r.heightPending <=> z.heightPending)
  BY <1>1, <1>2, RequestHeight
<1>4. Queues(r)
  BY <1>1, <1>3 DEF Queues
<1>5. ASSUME NEW a \in Tips, a <= rpcTip
      PROVE  Chasing(r, a)
  BY <1>1, <1>3, <1>5 DEF Chasing, Tips
<1>6. FetchOf(s, r)
  BY <1>1, <1>3 DEF FetchOf
<1> QED BY <1>1, <1>3, <1>4, <1>5, <1>6

\* A periodic refresh leaves a fetch in flight and takes nothing away from a
\* pursuit (onTimer, m_timer, and start).
LEMMA Refresh ==
    ASSUME NEW s \in SourceState, Queues(s), rpcTip \in Tips, NEW reason \in Reasons,
           NEW timer \in BOOLEAN,
           NEW r, r = requestTemplate([s EXCEPT !.timer = timer], reason)
    PROVE  /\ r \in SourceState /\ Queues(r) /\ FetchOf(s, r)
           /\ r.latest = s.latest /\ (r.shutdown <=> s.shutdown)
           /\ r.templateInFlight
           /\ \A a \in Tips : Chasing(s, a) => Chasing(r, a)
<1> DEFINE z == [s EXCEPT !.timer = timer]
<1>1. /\ z \in SourceState
      /\ z.latest = s.latest /\ (z.shutdown <=> s.shutdown)
      /\ (z.zmqTimer <=> s.zmqTimer)
      /\ (z.templateInFlight <=> s.templateInFlight) /\ z.templateFrom = s.templateFrom
      /\ (z.templatePending <=> s.templatePending) /\ z.pendingReason = s.pendingReason
      /\ (z.heightInFlight <=> s.heightInFlight) /\ z.heightFrom = s.heightFrom
      /\ (z.heightPending <=> s.heightPending) /\ (z.heightFollowup <=> s.heightFollowup)
  BY DEF SourceState
<1>2. r = requestTemplate(z, reason)
  OBVIOUS
<1> HIDE DEF z
<1>3. /\ r \in SourceState
      /\ r.templateInFlight
      /\ (r.shutdown <=> z.shutdown) /\ r.latest = z.latest
      /\ (r.zmqTimer <=> z.zmqTimer) /\ (r.heightInFlight <=> z.heightInFlight)
      /\ (r.heightPending <=> z.heightPending) /\ r.heightFrom = z.heightFrom
      /\ (r.heightFollowup <=> z.heightFollowup)
      /\ z.templateInFlight => r.templateFrom = z.templateFrom /\ r.templatePending
      /\ ~ z.templateInFlight => r.templateFrom = rpcTip
      /\ z.templateInFlight /\ z.templatePending /\ z.pendingReason = "zmq"
           => r.pendingReason = "zmq"
  BY <1>1, <1>2, RequestTemplate
<1>4. Queues(r)
  BY <1>1, <1>3 DEF Queues
<1>5. ASSUME NEW a \in Tips, Chasing(s, a)
      PROVE  Chasing(r, a)
  BY <1>1, <1>3, <1>5 DEF Chasing
<1>6. FetchOf(s, r)
  BY <1>1, <1>3 DEF FetchOf
<1> QED BY <1>1, <1>3, <1>4, <1>5, <1>6

-----------------------------------------------------------------------------
(* The invariant is inductive                                              *)

\* The part of the type invariant that is not about src.
EnvOK ==
    /\ zmq \in {Stages[n] : n \in 1..Len(Stages)} \cup {"disconnected"}
    /\ unread \in Seq(Tips)
    /\ tip \in Tips /\ rpcTip \in Tips /\ rpcTip <= tip /\ rpcLags \in BOOLEAN
    /\ failures \in 0..MaxFailures
    /\ announced \in Tips /\ excused \in Tips

\* The source and its environment start in the invariant.
LEMMA InitIInv == Init => IInv
<1> SUFFICES ASSUME Init PROVE IInv
  OBVIOUS
<1>1. /\ Constructed \in SourceState
      /\ ~ Constructed.templatePending /\ ~ Constructed.heightPending
      /\ ~ Constructed.zmqTimer
  <2>1. 0 \in 0..kMaxZmqHeightRetries /\ 0 \in Tips
    BY SourceAssumption DEF Tips
  <2> QED BY <2>1 DEF Constructed, SourceState, Reasons
<1>2. EnvOK /\ Views
  BY SourceAssumption DEF Init, EnvOK, Views, Tips, startZmq, Stages
<1>3. /\ src \in SourceState /\ Queues(src) /\ src.templateInFlight
      /\ FetchOf(Constructed, src) /\ src.latest = Constructed.latest
  <2> DEFINE on == TRUE
  <2>1. on \in BOOLEAN /\ "initial" \in Reasons
    BY DEF Reasons
  <2>2. src = requestTemplate([Constructed EXCEPT !.timer = on], "initial")
    BY DEF Init, start
  <2>3. Queues(Constructed) /\ rpcTip \in Tips
    BY <1>1, <1>2 DEF Queues, EnvOK
  <2> HIDE DEF on
  <2> QED BY <1>1, <2>1, <2>2, <2>3, Refresh
<1>4. announced = excused
  BY DEF Init
<1>5. Pursuit
  BY <1>2, <1>4 DEF Pursuit, EnvOK, Tips
<1>6. Constructed.latest = 0 /\ ~ Constructed.templateInFlight
  BY DEF Constructed
<1>7. Order
  BY <1>2, <1>3, <1>6 DEF Order, FetchOf, EnvOK, Tips
<1> QED BY <1>2, <1>3, <1>5, <1>7 DEF IInv, TypeOK, EnvOK, NeverStalls

\* No step changes what kind of daemon this is.
LEMMA SameDaemon == [Next]_vars => UNCHANGED rpcLags
BY DEF Next, vars, TemplateReply, TemplateFails, HeightReply, HeightFails, PeriodicTimer,
       ZmqRetryTimer, notifyZmq, ZmqProgress, closeZmq, shutdown, NewTip, RpcCatchesUp

\* The steps of the environment keep its part of the invariant.
LEMMA EnvSteps ==
    ASSUME EnvOK, Views, [Next]_vars
    PROVE  EnvOK' /\ Views'
<1>0. UNCHANGED rpcLags
  BY SameDaemon
<1> USE SourceAssumption, <1>0
<1>1. CASE UNCHANGED <<unread, tip, rpcTip, announced>> /\ zmq' \in startZmq(zmq)
           /\ failures' \in 0..MaxFailures /\ excused' \in {announced, excused}
  BY <1>1 DEF EnvOK, Views, startZmq, Stages
<1>4. CASE /\ UNCHANGED <<zmq, unread, tip, rpcTip, announced>>
           /\ failures' \in 0..MaxFailures /\ excused' \in {announced, excused}
  BY <1>4 DEF EnvOK, Views
<1>5. CASE TemplateReply
  BY <1>4, <1>5 DEF TemplateReply, EnvOK
<1>6. CASE TemplateFails
  BY <1>4, <1>6 DEF TemplateFails, EnvOK
<1>7. CASE HeightReply
  BY <1>4, <1>7 DEF HeightReply, EnvOK
<1>8. CASE HeightFails
  BY <1>4, <1>8 DEF HeightFails, EnvOK
<1>9. CASE PeriodicTimer
  BY <1>1, <1>9 DEF PeriodicTimer, EnvOK
<1>10. CASE ZmqRetryTimer
  BY <1>4, <1>10 DEF ZmqRetryTimer, EnvOK
<1>11. CASE notifyZmq
  <2>1. /\ unread \in Seq(Tips) /\ unread # <<>> /\ unread' = Tail(unread)
        /\ announced' = Head(unread)
        /\ UNCHANGED <<zmq, tip, rpcTip, failures, excused>>
    BY <1>11 DEF notifyZmq, EnvOK
  <2>2. Head(unread) = unread[1] /\ unread[1] \in Tips /\ unread[1] <= tip
    BY <2>1 DEF Views
  <2>3. /\ Tail(unread) \in Seq(Tips) /\ Len(Tail(unread)) = Len(unread) - 1
        /\ \A i \in 1..(Len(unread) - 1) : Tail(unread)[i] = unread[i + 1]
    BY <2>1
  <2>4. \A i \in 1..Len(unread') : unread'[i] <= tip
    BY <2>1, <2>3 DEF Views
  <2> QED BY <2>1, <2>2, <2>3, <2>4 DEF EnvOK, Views
<1>12. CASE ZmqProgress
  BY <1>12 DEF ZmqProgress, EnvOK, Views, Stages
<1>13. CASE closeZmq
  BY <1>13 DEF closeZmq, EnvOK, Views
<1>14. CASE shutdown
  BY <1>14 DEF shutdown, EnvOK, Views
<1>15. CASE NewTip
  <2>1. /\ unread \in Seq(Tips) /\ tip' = tip + 1 /\ tip + 1 \in Tips
        /\ rpcTip' \in Tips /\ rpcTip' <= tip' /\ (~ rpcLags => rpcTip' = tip')
        /\ unread' \in {unread, Append(unread, tip + 1)}
        /\ UNCHANGED <<zmq, failures, announced, excused>>
    BY <1>15 DEF NewTip, EnvOK, Views, Tips
  <2>2. Append(unread, tip + 1) \in Seq(Tips)
    BY <2>1
  <2>3. \A i \in 1..Len(unread') : unread'[i] <= tip'
    <3>1. tip \in Nat /\ tip' = tip + 1 /\ (\A i \in 1..Len(unread) : unread[i] \in Nat /\ unread[i] <= tip)
      BY <2>1 DEF Views, EnvOK, Tips
    <3>2. CASE unread' = unread
      BY <3>1, <3>2
    <3>3. CASE unread' = Append(unread, tip + 1)
      <4>1. /\ Len(unread') = Len(unread) + 1 /\ Len(unread) \in Nat
            /\ unread'[Len(unread) + 1] = tip + 1
            /\ \A i \in 1..Len(unread) : unread'[i] = unread[i]
        BY <2>1, <3>3
      <4>2. \A i \in 1..Len(unread') : i \in 1..Len(unread) \/ i = Len(unread) + 1
        BY <4>1
      <4>3. TAKE i \in 1..Len(unread')
      <4>4. CASE i \in 1..Len(unread)
        BY <3>1, <4>1, <4>4
      <4>5. CASE i = Len(unread) + 1
        BY <3>1, <4>1, <4>5
      <4> QED BY <4>2, <4>4, <4>5
    <3> QED BY <2>1, <3>2, <3>3
  <2>4. unread' \in Seq(Tips)
    BY <2>1, <2>2
  <2>5. EnvOK'
    BY <2>1, <2>4 DEF EnvOK
  <2>6. announced' <= tip'
    BY <2>1 DEF EnvOK, Views, Tips
  <2> QED BY <2>1, <2>3, <2>5, <2>6 DEF Views
<1>16. CASE RpcCatchesUp
  BY <1>16 DEF RpcCatchesUp, EnvOK, Views, Tips
<1>17. CASE UNCHANGED vars
  BY <1>17 DEF vars, EnvOK, Views
<1> QED BY <1>5, <1>6, <1>7, <1>8, <1>9, <1>10, <1>11, <1>12, <1>13, <1>14,
           <1>15, <1>16, <1>17 DEF Next

\* Every step keeps the source's part: types, timer chain, queues, the order of
\* tips and the pursuit.
LEMMA SourceSteps ==
    ASSUME IInv, EnvOK', [Next]_vars
    PROVE  src' \in SourceState /\ NeverStalls' /\ Queues(src') /\ Order' /\ Pursuit'
<1>0. UNCHANGED rpcLags
  BY SameDaemon
<1> USE <1>0
<1>1. /\ src \in SourceState /\ NeverStalls /\ Queues(src) /\ Order /\ Views /\ Pursuit
      /\ rpcTip \in Tips /\ tip \in Tips /\ announced \in Tips /\ excused \in Tips
      /\ announced' \in Tips /\ excused' \in Tips
  BY DEF IInv, TypeOK, EnvOK
<1>2. ~ rpcLags => announced <= rpcTip
  BY <1>1 DEF Views
<1>3. ASSUME rpcTip' = rpcTip, src' \in SourceState, FetchOf(src, src'),
             src'.latest = src.latest
      PROVE  Order'
  BY <1>1, <1>3 DEF Order, FetchOf, SourceState, Tips
<1>4. CASE TemplateReply
  <2>1. PICK t \in src.templateFrom..rpcTip : src' = installTemplate(src, t)
    BY <1>4 DEF TemplateReply
  <2>2. /\ src.templateInFlight
        /\ announced' = announced /\ excused' = excused /\ rpcTip' = rpcTip
    BY <1>4 DEF TemplateReply
  <2>3. t \in Tips /\ t >= src.templateFrom /\ t >= src.latest /\ t <= rpcTip
    BY <1>1, <2>2, SourceAssumption DEF SourceState, Tips, Order
  <2>4. /\ src' \in SourceState /\ Queues(src')
        /\ src'.templateInFlight => src'.templateFrom = rpcTip
        /\ src'.timer /\ src'.latest = t /\ (src'.shutdown <=> src.shutdown)
        /\ \A a \in Tips : a <= rpcTip /\ a > t /\ Chasing(src, a) => Chasing(src', a)
    BY <1>1, <2>1, <2>2, <2>3, InstallTemplate
  <2>5. ASSUME ~ rpcLags, ~ src'.shutdown, announced > t, announced > excused
        PROVE  Chasing(src', announced)
    <3>1. announced > src.latest
      BY <1>1, <2>3, <2>5 DEF SourceState, Tips
    <3> QED BY <1>1, <1>2, <2>4, <2>5, <3>1 DEF Pursuit
  <2>6. Order'
    BY <1>1, <2>2, <2>3, <2>4 DEF Order, SourceState, Tips
  <2> QED BY <2>2, <2>4, <2>5, <2>6 DEF NeverStalls, Pursuit
<1>5. CASE TemplateFails
  <2>1. PICK recent \in BOOLEAN : src' = failTemplate(src, recent)
    BY <1>5 DEF TemplateFails
  <2>2. /\ src.templateInFlight
        /\ announced' = announced /\ excused' = announced /\ rpcTip' = rpcTip
    BY <1>5 DEF TemplateFails
  <2>3. /\ src' \in SourceState /\ Queues(src') /\ FetchOf(src, src')
        /\ src'.timer \/ src'.templateInFlight
        /\ src'.latest = src.latest
    BY <1>1, <2>1, <2>2, FailTemplate
  <2>4. Pursuit'
    BY <1>1, <2>2 DEF Pursuit, Tips
  <2> QED BY <1>3, <2>2, <2>3, <2>4 DEF NeverStalls
<1>6. CASE HeightReply
  <2>1. PICK t \in src.heightFrom..rpcTip :
            /\ src' = checkHeight(src, t)
            /\ excused' = IF t = src.latest /\ ~ src.heightFollowup /\ outOfRetries(src)
                          THEN announced ELSE excused
    BY <1>6 DEF HeightReply
  <2>2. src.heightInFlight /\ announced' = announced /\ rpcTip' = rpcTip
    BY <1>6 DEF HeightReply
  <2>3. t \in Tips /\ t >= src.heightFrom
    BY <1>1, SourceAssumption DEF SourceState, Tips
  <2>4. /\ src' \in SourceState /\ Queues(src') /\ FetchOf(src, src')
        /\ (src'.timer <=> src.timer) /\ src'.latest = src.latest
        /\ (src'.shutdown <=> src.shutdown)
        /\ src.templateInFlight => src'.templateInFlight
        /\ \A a \in Tips :
             a <= rpcTip /\ a > src.latest /\ Chasing(src, a)
               /\ ~ (t = src.latest /\ ~ src.heightFollowup /\ outOfRetries(src))
             => Chasing(src', a)
    BY <1>1, <2>1, <2>2, <2>3, CheckHeight
  <2>5. Pursuit'
    <3>1. CASE t = src.latest /\ ~ src.heightFollowup /\ outOfRetries(src)
      BY <1>1, <2>1, <2>2, <3>1 DEF Pursuit, Tips
    <3>2. CASE ~ (t = src.latest /\ ~ src.heightFollowup /\ outOfRetries(src))
      <4>1. excused' = excused
        BY <2>1, <3>2
      <4> QED BY <1>1, <1>2, <2>2, <2>4, <3>2, <4>1 DEF Pursuit
    <3> QED BY <3>1, <3>2
  <2> QED BY <1>1, <1>3, <2>2, <2>4, <2>5 DEF NeverStalls
<1>7. CASE HeightFails
  <2>1. /\ src.heightInFlight /\ src' = failHeight(src)
        /\ announced' = announced /\ rpcTip' = rpcTip
        /\ excused' = IF outOfRetries(src) THEN announced ELSE excused
    BY <1>7 DEF HeightFails
  <2>2. /\ src' \in SourceState /\ Queues(src') /\ FetchOf(src, src')
        /\ (src'.timer <=> src.timer) /\ src'.latest = src.latest
        /\ (src'.shutdown <=> src.shutdown)
        /\ src.templateInFlight => src'.templateInFlight
        /\ ~ outOfRetries(src) => src'.zmqTimer
    BY <1>1, <2>1, FailHeight
  <2>3. Pursuit'
    BY <1>1, <2>1, <2>2 DEF Pursuit, Chasing, Tips
  <2> QED BY <1>1, <1>3, <2>1, <2>2, <2>3 DEF NeverStalls
<1>8. CASE PeriodicTimer
  <2> DEFINE off == FALSE
  <2>1. off \in BOOLEAN /\ "timer" \in Reasons
    BY DEF Reasons
  <2>2. /\ src' = requestTemplate([src EXCEPT !.timer = off], "timer")
        /\ announced' = announced /\ excused' = excused /\ rpcTip' = rpcTip
    BY <1>8 DEF PeriodicTimer
  <2> HIDE DEF off
  <2>3. /\ src' \in SourceState /\ Queues(src') /\ FetchOf(src, src')
        /\ src'.latest = src.latest /\ (src'.shutdown <=> src.shutdown)
        /\ src'.templateInFlight
        /\ \A a \in Tips : Chasing(src, a) => Chasing(src', a)
    BY <1>1, <2>1, <2>2, Refresh
  <2>4. Pursuit'
    BY <1>1, <2>2, <2>3 DEF Pursuit
  <2> QED BY <1>3, <2>2, <2>3, <2>4 DEF NeverStalls
<1>9. CASE ZmqRetryTimer
  <2>1. /\ src.zmqTimer
        /\ src' = requestHeight([src EXCEPT !.zmqTimer = FALSE], src.heightRetryFollowup)
        /\ announced' = announced /\ excused' = excused /\ rpcTip' = rpcTip
    BY <1>9 DEF ZmqRetryTimer
  <2>2. /\ src' \in SourceState /\ Queues(src') /\ FetchOf(src, src')
        /\ (src'.timer <=> src.timer) /\ src'.latest = src.latest
        /\ (src'.shutdown <=> src.shutdown)
        /\ (src'.templateInFlight <=> src.templateInFlight)
        /\ \A a \in Tips : a <= rpcTip => Chasing(src', a)
    BY <1>1, <2>1, RetryFires
  <2>3. Pursuit'
    BY <1>1, <1>2, <2>1, <2>2 DEF Pursuit
  <2> QED BY <1>1, <1>3, <2>1, <2>2, <2>3 DEF NeverStalls
<1>10. CASE notifyZmq
  <2> DEFINE no == FALSE
  <2>1. no \in BOOLEAN
    OBVIOUS
  <2>2. /\ src' = requestHeight(resetRetries(src), no)
        /\ excused' = excused /\ rpcTip' = rpcTip /\ tip' = tip
    BY <1>10 DEF notifyZmq
  <2> HIDE DEF no
  <2>3. /\ src' \in SourceState /\ Queues(src') /\ FetchOf(src, src')
        /\ (src'.timer <=> src.timer) /\ src'.latest = src.latest
        /\ (src'.shutdown <=> src.shutdown)
        /\ (src'.templateInFlight <=> src.templateInFlight)
        /\ \A a \in Tips : a <= rpcTip => Chasing(src', a)
    BY <1>1, <2>1, <2>2, Notify
  <2>4. ~ rpcLags => announced' <= rpcTip
    <3>1. Views'
      BY EnvSteps DEF IInv, TypeOK, EnvOK
    <3> QED BY <2>2, <3>1 DEF Views
  <2>5. Pursuit'
    BY <1>1, <2>2, <2>3, <2>4 DEF Pursuit
  <2> QED BY <1>1, <1>3, <2>2, <2>3, <2>5 DEF NeverStalls
<1>11. CASE shutdown
  <2>1. /\ src' = [src EXCEPT !.shutdown = TRUE, !.latest = 0, !.timer = FALSE,
                              !.zmqTimer = FALSE, !.templatePending = FALSE,
                              !.heightFollowup = FALSE, !.heightPending = FALSE,
                              !.heightRetryFollowup = FALSE]
        /\ rpcTip' = rpcTip
    BY <1>11 DEF shutdown
  <2>2. /\ src' \in SourceState /\ src'.shutdown /\ src'.latest = 0
        /\ ~ src'.zmqTimer /\ ~ src'.templatePending /\ ~ src'.heightPending
        /\ (src'.templateInFlight <=> src.templateInFlight)
        /\ src'.templateFrom = src.templateFrom
    <3>1. 0 \in Tips
      BY SourceAssumption DEF Tips
    <3> QED BY <1>1, <2>1, <3>1 DEF SourceState
  <2>3. Order'
    BY <1>1, <2>1, <2>2 DEF Order, SourceState, Tips
  <2> QED BY <2>2, <2>3 DEF NeverStalls, Queues, Pursuit
<1>12. CASE /\ src' = src /\ announced' = announced /\ excused' = excused
            /\ rpcTip' \in Tips /\ rpcTip' >= rpcTip
  <2>1. Order'
    BY <1>1, <1>12 DEF Order, SourceState, Tips
  <2> QED BY <1>1, <1>12, <2>1 DEF NeverStalls, Pursuit, Queues, Chasing
<1>13. CASE ZmqProgress \/ closeZmq
  BY <1>1, <1>12, <1>13 DEF ZmqProgress, closeZmq, Tips
<1>14. CASE NewTip \/ RpcCatchesUp
  <2>1. rpcTip' \in Tips
    BY DEF EnvOK
  <2>2. rpcTip' >= rpcTip
    BY <1>1, <1>14, <2>1 DEF NewTip, RpcCatchesUp, Tips, IInv, TypeOK
  <2> QED BY <1>12, <1>14, <2>1, <2>2 DEF NewTip, RpcCatchesUp
<1>15. CASE UNCHANGED vars
  BY <1>1, <1>12, <1>15 DEF vars, Tips
<1> QED BY <1>4, <1>5, <1>6, <1>7, <1>8, <1>9, <1>10, <1>11, <1>13, <1>14, <1>15 DEF Next

-----------------------------------------------------------------------------
(* The theorems                                                            *)

\* The invariant holds in every reachable state.
LEMMA SourceInvStep == IInv /\ [Next]_vars => IInv'
<1> SUFFICES ASSUME IInv, [Next]_vars PROVE IInv'
  OBVIOUS
<1>1. EnvOK' /\ Views'
  BY EnvSteps DEF IInv, TypeOK, EnvOK
<1>2. src' \in SourceState /\ NeverStalls' /\ Queues(src') /\ Order' /\ Pursuit'
  BY <1>1, SourceSteps
<1>3. TypeOK'
  BY <1>1, <1>2 DEF TypeOK, EnvOK
<1> QED BY <1>1, <1>2, <1>3 DEF IInv

LEMMA Invariance == Spec => []IInv
<1> QED BY SourceInvStep, InitIInv, PTL DEF Spec

\* The source's state keeps its types and the retry count stays within
\* kMaxZmqHeightRetries, for any limit, number of tips and failures.
THEOREM TypeCorrect == Spec => []TypeOK
<1>1. IInv => TypeOK
  BY DEF IInv
<1> QED BY <1>1, Invariance, PTL

\* The chain of single-shot timers never breaks: a source that is not shut down
\* has its periodic timer armed or a template request in flight.
THEOREM NeverStallsTheorem == Spec => []NeverStalls
<1>1. IInv => NeverStalls
  BY DEF IInv
<1> QED BY <1>1, Invariance, PTL

\* Every queued template or height request waits behind one in flight.
THEOREM QueuesDrainTheorem == Spec => []QueuesDrain
<1>1. IInv => QueuesDrain
  BY DEF IInv, Queues, QueuesDrain
<1> QED BY <1>1, Invariance, PTL

\* With a daemon whose RPC knows every published tip, a notification is pursued
\* until its tip is cached, its retries run out or a refresh fails.
THEOREM NotificationPursuedTheorem == Spec => []NotificationPursued
<1>1. IInv => NotificationPursued
  BY DEF IInv, Pursuit, Chasing, NotificationPursued
<1> QED BY <1>1, Invariance, PTL

(***************************************************************************)
(* The self-select client                                                  *)
(***************************************************************************)

States == {"idle", "wait", "retry"}

SelfTypeOK ==
    /\ self \in [st : States, active : BOOLEAN, closing : BOOLEAN,
                 failures : 0..(SelfRetries + 1), tpl : Templates]
    /\ daemon \subseteq [kind : {"getblocktemplate", "submitblock"},
                         latest : BOOLEAN, mine : BOOLEAN]
    /\ shown \subseteq BOOLEAN
    /\ told \in [up : BOOLEAN, bad : BOOLEAN, served : Templates]

\* The latest request was made for the current job: a new job asks at once, and
\* nothing else makes a request of another job the latest.
LatestIsMine == \A r \in daemon : r.latest => r.mine

\* While the pool's connection is up, the strategy is told otherwise only after
\* too many failures, which the next agreement of the pool takes back.
HeardOrFailing == self.active => told.up \/ self.failures > SelfRetries

SelfInv == SelfTypeOK /\ LatestIsMine /\ HeardOrFailing /\ TemplateMatchesJob

-----------------------------------------------------------------------------

LEMMA CappedRange ==
    ASSUME NEW n \in 0..(SelfRetries + 1)
    PROVE  /\ Capped(n + 1) \in 0..(SelfRetries + 1)
           /\ n > SelfRetries => Capped(n + 1) > SelfRetries
  BY SelfSelectAssumption DEF Capped

\* setState changes the state and, from one state to another, the failures.
LEMMA StateSet ==
    ASSUME NEW c \in [st : States, active : BOOLEAN, closing : BOOLEAN,
                      failures : 0..(SelfRetries + 1), tpl : Templates],
           NEW st \in States
    PROVE  LET d == setSelfState(c, st)
           IN  /\ d \in [st : States, active : BOOLEAN, closing : BOOLEAN,
                         failures : 0..(SelfRetries + 1), tpl : Templates]
               /\ d.st = st /\ d.active = c.active /\ d.closing = c.closing /\ d.tpl = c.tpl
               /\ st = "wait" => d.failures = c.failures
               /\ st = "retry" => (c.failures > SelfRetries => d.failures > SelfRetries)
<1>1. CASE c.st = st
  BY <1>1 DEF setSelfState
<1>2. CASE c.st # st /\ st = "idle"
  <2>1. setSelfState(c, st) = [c EXCEPT !.st = st, !.failures = 0]
    BY <1>2 DEF setSelfState
  <2>2. 0 \in 0..(SelfRetries + 1)
    BY SelfSelectAssumption
  <2> QED BY <1>2, <2>1, <2>2
<1>3. CASE c.st # st /\ st = "wait"
  BY <1>3 DEF setSelfState
<1>4. CASE c.st # st /\ st = "retry"
  <2>1. /\ Capped(c.failures + 1) \in 0..(SelfRetries + 1)
        /\ c.failures > SelfRetries => Capped(c.failures + 1) > SelfRetries
    BY CappedRange
  <2>2. setSelfState(c, st) = [c EXCEPT !.st = st, !.failures = Capped(c.failures + 1)]
    BY <1>4 DEF setSelfState
  <2> QED BY <1>4, <2>1, <2>2
<1> QED BY <1>1, <1>2, <1>3, <1>4 DEF States

\* A new request is for the current job, and it alone is the latest.
LEMMA AskedLatest ==
    ASSUME NEW reqs \in SUBSET [kind : {"getblocktemplate", "submitblock"},
                                latest : BOOLEAN, mine : BOOLEAN]
    PROVE  /\ getBlockTemplate(reqs) \subseteq
                [kind : {"getblocktemplate", "submitblock"}, latest : BOOLEAN, mine : BOOLEAN]
           /\ \A r \in getBlockTemplate(reqs) : r.latest => r.mine
<1> DEFINE Requests == [kind : {"getblocktemplate", "submitblock"}, latest : BOOLEAN, mine : BOOLEAN]
<1>1. \A r \in reqs : [r EXCEPT !.latest = FALSE] \in Requests
                     /\ [r EXCEPT !.latest = FALSE].latest = FALSE
  OBVIOUS
<1>2. Request("getblocktemplate") \in Requests /\ Request("getblocktemplate").mine = TRUE
  BY DEF Request
<1>3. \A r \in getBlockTemplate(reqs) :
         \/ \E q \in reqs : r = [q EXCEPT !.latest = FALSE]
         \/ r = Request("getblocktemplate")
  BY DEF getBlockTemplate
<1> QED BY <1>1, <1>2, <1>3

LEMMA Forgotten ==
    ASSUME NEW reqs \in SUBSET [kind : {"getblocktemplate", "submitblock"},
                                latest : BOOLEAN, mine : BOOLEAN]
    PROVE  forgetJob(reqs) \subseteq
                [kind : {"getblocktemplate", "submitblock"}, latest : BOOLEAN, mine : BOOLEAN]
  BY DEF forgetJob

\* retry, as the answers of the daemon and of the pool call it.
LEMMA Retried ==
    ASSUME SelfInv, retrySelf, daemon' \subseteq daemon, shown' \subseteq shown
    PROVE  SelfInv'
<1>1. self' = setSelfState(self, "retry") /\ told' = tellRetry(self)
  BY DEF retrySelf
<1>2. /\ self' \in [st : States, active : BOOLEAN, closing : BOOLEAN,
                    failures : 0..(SelfRetries + 1), tpl : Templates]
      /\ self'.active = self.active /\ self'.tpl = self.tpl
      /\ self.failures > SelfRetries => self'.failures > SelfRetries
  BY <1>1, StateSet DEF SelfInv, SelfTypeOK, States
<1>3. /\ told' \in [up : BOOLEAN, bad : BOOLEAN, served : Templates] /\ told'.bad = told.bad
      /\ told'.up = told.up \/ self.failures > SelfRetries
  BY <1>1 DEF tellRetry, SelfInv, SelfTypeOK
<1> QED BY <1>2, <1>3 DEF SelfInv, SelfTypeOK, LatestIsMine, HeardOrFailing, TemplateMatchesJob

LEMMA SelfStep == SelfInv /\ [SelfNext]_selfVars => SelfInv'
<1> DEFINE Clients == [st : States, active : BOOLEAN, closing : BOOLEAN,
                       failures : 0..(SelfRetries + 1), tpl : Templates]
           Requests == [kind : {"getblocktemplate", "submitblock"}, latest : BOOLEAN, mine : BOOLEAN]
<1> SUFFICES ASSUME SelfInv, [SelfNext]_selfVars PROVE SelfInv'
  OBVIOUS
<1>0. /\ self \in Clients /\ daemon \in SUBSET Requests /\ shown \subseteq BOOLEAN
      /\ told \in [up : BOOLEAN, bad : BOOLEAN, served : Templates]
  BY DEF SelfInv, SelfTypeOK
<1>1. CASE PoolLogin
  <2> DEFINE c == [setSelfState(self, "idle") EXCEPT !.active = TRUE]
  <2>1. c \in Clients
    <3>1. setSelfState(self, "idle") \in Clients
      BY <1>0, StateSet DEF States
    <3> QED BY <3>1
  <2>2. setSelfState(c, "wait") \in Clients
    BY <2>1, StateSet DEF States
  <2>3. self' = [setSelfState(c, "wait") EXCEPT !.tpl = "none"]
    BY <1>1 DEF PoolLogin, receiveJob
  <2> HIDE DEF c
  <2>4. self' \in Clients /\ self'.tpl = "none"
    BY <2>2, <2>3 DEF Templates
  <2>5. daemon' \subseteq Requests /\ LatestIsMine'
    BY <1>0, <1>1, Forgotten, AskedLatest DEF PoolLogin, LatestIsMine
  <2>6. /\ told' = [told EXCEPT !.up = TRUE, !.served = "nojob"] /\ shown' = shown
    BY <1>1 DEF PoolLogin
  <2> QED BY <1>0, <2>4, <2>5, <2>6
          DEF SelfInv, SelfTypeOK, HeardOrFailing, TemplateMatchesJob, Templates
<1>2. CASE PoolClose
  <2>1. /\ setSelfState(self, "idle") \in Clients
        /\ setSelfState(self, "idle").tpl = self.tpl
    BY <1>0, StateSet DEF States
  <2>2. /\ self' = [setSelfState(self, "idle") EXCEPT !.active = FALSE, !.closing = FALSE]
        /\ told' = [told EXCEPT !.up = FALSE] /\ shown' = {} /\ daemon' = daemon
    BY <1>2 DEF PoolClose
  <2>3. self' \in Clients /\ self'.active = FALSE /\ self'.tpl = self.tpl
    BY <2>1, <2>2
  <2> QED BY <1>0, <2>2, <2>3
          DEF SelfInv, SelfTypeOK, LatestIsMine, HeardOrFailing, TemplateMatchesJob
<1>3. CASE PoolJob
  <2>1. /\ setSelfState(self, "wait") \in Clients
        /\ setSelfState(self, "wait").active = self.active
        /\ setSelfState(self, "wait").failures = self.failures
    BY <1>0, StateSet DEF States
  <2>2. /\ self' = [setSelfState(self, "wait") EXCEPT !.tpl = "none"]
        /\ told' = [told EXCEPT !.served = "nojob"] /\ shown' = {FALSE : b \in shown}
    BY <1>3 DEF PoolJob, receiveJob
  <2>3. self' \in Clients /\ self'.tpl = "none" /\ self'.active = self.active
        /\ self'.failures = self.failures
    BY <2>1, <2>2 DEF Templates
  <2>4. daemon' \subseteq Requests /\ LatestIsMine'
    BY <1>0, <1>3, Forgotten, AskedLatest DEF PoolJob, LatestIsMine
  <2>5. told' \in [up : BOOLEAN, bad : BOOLEAN, served : Templates]
        /\ told'.up = told.up /\ told'.bad = told.bad
    BY <1>0, <2>2 DEF Templates
  <2> QED BY <1>0, <2>2, <2>3, <2>4, <2>5
          DEF SelfInv, SelfTypeOK, HeardOrFailing, TemplateMatchesJob
<1>4. CASE Submit
  <2>1. CASE SubmitToOrigin
    <3>1. PICK enough \in BOOLEAN :
             daemon' = getBlockTemplate(daemon) \cup (IF enough THEN {Request("submitblock")} ELSE {})
      BY <1>4, <2>1 DEF Submit
    <3>2. daemon' \subseteq Requests /\ LatestIsMine'
      <4>1. getBlockTemplate(daemon) \subseteq Requests
            /\ \A r \in getBlockTemplate(daemon) : r.latest => r.mine
        BY <1>0, AskedLatest
      <4>2. Request("submitblock") \in Requests /\ Request("submitblock").mine = TRUE
        BY DEF Request
      <4>3. \A r \in daemon' : r \in getBlockTemplate(daemon) \/ r = Request("submitblock")
        BY <3>1
      <4> QED BY <4>1, <4>2, <4>3 DEF LatestIsMine
    <3>3. self' = setSelfState(self, "wait") /\ UNCHANGED <<shown, told>>
      BY <1>4, <2>1 DEF Submit
    <3>4. self' \in Clients /\ self'.tpl = self.tpl /\ self'.active = self.active
          /\ self'.failures = self.failures
      BY <1>0, <3>3, StateSet DEF States
    <3> QED BY <1>0, <3>2, <3>3, <3>4
            DEF SelfInv, SelfTypeOK, HeardOrFailing, TemplateMatchesJob
  <2>2. CASE ~ SubmitToOrigin
    BY <1>4, <2>2
       DEF Submit, SelfInv, SelfTypeOK, LatestIsMine, HeardOrFailing, TemplateMatchesJob
  <2> QED BY <2>1, <2>2
<1>5. CASE Retry
  <2>1. self' = setSelfState(self, "wait") /\ daemon' = getBlockTemplate(daemon)
        /\ UNCHANGED <<shown, told>>
    BY <1>5 DEF Retry
  <2>2. self' \in Clients /\ self'.tpl = self.tpl /\ self'.active = self.active
        /\ self'.failures = self.failures
    BY <1>0, <2>1, StateSet DEF States
  <2>3. daemon' \subseteq Requests /\ LatestIsMine'
    BY <1>0, <2>1, AskedLatest DEF LatestIsMine
  <2> QED BY <1>0, <2>1, <2>2, <2>3 DEF SelfInv, SelfTypeOK, HeardOrFailing, TemplateMatchesJob
<1>6. ASSUME NEW r \in daemon, DaemonFails(r) \/ DaemonRefuses(r)
      PROVE  SelfInv'
  BY <1>6, Retried DEF DaemonFails, DaemonRefuses
<1>7. ASSUME NEW r \in daemon, DaemonLate(r)
      PROVE  SelfInv'
  BY <1>7 DEF DaemonLate, SelfInv, SelfTypeOK, LatestIsMine, HeardOrFailing, TemplateMatchesJob
<1>8. ASSUME NEW r \in daemon, NEW sent \in BOOLEAN, DaemonTemplate(r, sent)
      PROVE  SelfInv'
  <2>1. r.mine
    BY <1>8 DEF DaemonTemplate, isLatest, SelfInv, LatestIsMine
  <2>2. /\ self' = [self EXCEPT !.tpl = IF r.mine THEN "mine" ELSE "other",
                                !.closing = self.closing \/ (self.active /\ ~sent)]
        /\ shown' = IF sent THEN shown \cup {r.mine} ELSE shown
        /\ daemon' \subseteq daemon /\ told' = told
    BY <1>8 DEF DaemonTemplate
  <2>3. self' \in Clients /\ self'.tpl = "mine" /\ self'.active = self.active
        /\ self'.failures = self.failures
    BY <1>0, <2>1, <2>2 DEF Templates
  <2>4. shown' \subseteq BOOLEAN
    BY <1>0, <2>1, <2>2
  <2> QED BY <2>2, <2>3, <2>4
          DEF SelfInv, SelfTypeOK, LatestIsMine, HeardOrFailing, TemplateMatchesJob
<1>9. ASSUME NEW b \in shown, PoolRefuses(b)
      PROVE  SelfInv'
  BY <1>9, Retried DEF PoolRefuses
<1>10. ASSUME NEW b \in shown, PoolAgrees(b)
       PROVE  SelfInv'
  <2>1. shown' \subseteq shown /\ daemon' = daemon
    BY <1>10 DEF PoolAgrees
  <2>2. CASE self.active
    <3>1. /\ self' = setSelfState(self, "idle")
          /\ told' = [up |-> back(self), bad |-> told.bad \/ ~back(self), served |-> self.tpl]
      BY <1>10, <2>2 DEF PoolAgrees
    <3>2. self' \in Clients /\ self'.tpl = self.tpl
      BY <1>0, <3>1, StateSet DEF States
    <3>3. back(self) = TRUE
      BY <1>0, <2>2 DEF back, SelfInv, HeardOrFailing
    <3>4. told'.up = TRUE /\ told'.bad = FALSE /\ told'.served = self.tpl
          /\ told' \in [up : BOOLEAN, bad : BOOLEAN, served : Templates]
      BY <1>0, <3>1, <3>3 DEF SelfInv, TemplateMatchesJob
    <3> QED BY <2>1, <3>2, <3>4
            DEF SelfInv, SelfTypeOK, LatestIsMine, HeardOrFailing, TemplateMatchesJob
  <2>3. CASE ~ self.active
    BY <1>10, <2>1, <2>3
       DEF PoolAgrees, SelfInv, SelfTypeOK, LatestIsMine, HeardOrFailing, TemplateMatchesJob
  <2> QED BY <2>2, <2>3
<1>11. CASE UNCHANGED selfVars
  BY <1>11 DEF selfVars, SelfInv, SelfTypeOK, LatestIsMine, HeardOrFailing, TemplateMatchesJob
<1> QED BY <1>1, <1>2, <1>3, <1>4, <1>5, <1>6, <1>7, <1>8, <1>9, <1>10, <1>11 DEF SelfNext

LEMMA SelfInitInv == SelfInit => SelfInv
BY SelfSelectAssumption
   DEF SelfInit, SelfInv, SelfTypeOK, LatestIsMine, HeardOrFailing, TemplateMatchesJob,
       Templates, States

\* SelfInv is an invariant of the client.
THEOREM SelfInvariance == SelfSpec => []SelfInv
<1> QED BY SelfInitInv, SelfStep, PTL DEF SelfSpec

\* However the answers of the daemon and of the pool, their failures, new jobs and
\* lost connections interleave, the template in a job was made for that job, and
\* a job is given only to a strategy that counts the client as connected
\* (SelfSelectClient::onHttpData, setState, submitBlockTemplate).
THEOREM TemplateMatchesJobTheorem == SelfSpec => []TemplateMatchesJob
<1>1. SelfInv => TemplateMatchesJob
  BY DEF SelfInv
<1> QED BY <1>1, SelfInvariance, PTL

(***************************************************************************)
(* One of them runs                                                        *)
(***************************************************************************)

TemplatesInv ==
    /\ SelfInv
    /\ \/ fetcher = "source" /\ IInv
       \/ fetcher = "selfselect" /\ src.shutdown = TRUE

LEMMA TemplatesStep == TemplatesInv /\ [TemplatesNext]_templatesVars => TemplatesInv'
<1> SUFFICES ASSUME TemplatesInv, [TemplatesNext]_templatesVars PROVE TemplatesInv'
  OBVIOUS
<1>1. CASE fetcher = "source" /\ Next /\ UNCHANGED <<fetcher, selfVars>>
  <2>1. IInv'
    BY <1>1, SourceInvStep DEF TemplatesInv
  <2>2. SelfInv'
    BY <1>1, SelfStep DEF TemplatesInv
  <2> QED BY <1>1, <2>1, <2>2 DEF TemplatesInv
<1>2. CASE fetcher = "selfselect" /\ SelfNext /\ UNCHANGED <<fetcher, vars>>
  <2>1. SelfInv'
    BY <1>2, SelfStep DEF TemplatesInv
  <2>2. src'.shutdown = TRUE
    BY <1>2 DEF TemplatesInv, vars
  <2> QED BY <1>2, <2>1, <2>2 DEF TemplatesInv
<1>3. CASE UNCHANGED templatesVars
  <2>1. UNCHANGED fetcher /\ UNCHANGED vars /\ UNCHANGED selfVars
    BY <1>3 DEF templatesVars
  <2>2. SelfInv'
    BY <2>1, SelfStep DEF TemplatesInv
  <2>3. IInv => IInv'
    BY <2>1, SourceInvStep
  <2>4. src' = src
    BY <2>1 DEF vars
  <2> QED BY <2>1, <2>2, <2>3, <2>4 DEF TemplatesInv
<1> QED BY <1>1, <1>2, <1>3 DEF TemplatesNext

\* Whichever of the two a pool has, its invariant holds.
THEOREM TemplatesInvariance == TemplatesSpec => []TemplatesInv
<1>1. ASSUME TemplatesInit PROVE TemplatesInv
  <2>1. SelfInv
    BY <1>1, SelfInitInv DEF TemplatesInit
  <2>2. \/ fetcher = "source" /\ Init
        \/ fetcher = "selfselect" /\ NoSource
    BY <1>1, Zenon DEF TemplatesInit
  <2>3. Init => IInv
    BY InitIInv
  <2>4. NoSource => src.shutdown = TRUE
    BY DEF NoSource, start, requestTemplate, Constructed
  <2> QED BY <2>1, <2>2, <2>3, <2>4, Zenon DEF TemplatesInv
<1> QED BY <1>1, TemplatesStep, PTL DEF TemplatesSpec

\* However the answers of the daemon and of the pool, timers, failures and
\* notifications interleave: the timer chain of the source does not break, what it
\* was notified of is pursued, and the template in a job of the self-select client
\* was made for that job.
THEOREM TemplatesSafe == TemplatesSpec => [](NeverStalls /\ NotificationPursued /\ TemplateMatchesJob)
<1>1. src.shutdown = TRUE => NeverStalls /\ NotificationPursued
  BY DEF NeverStalls, NotificationPursued
<1>2. IInv => NeverStalls /\ NotificationPursued
  BY DEF IInv, Pursuit, Chasing, NotificationPursued
<1>3. TemplatesInv => NeverStalls /\ NotificationPursued /\ TemplateMatchesJob
  BY <1>1, <1>2 DEF TemplatesInv, SelfInv
<1> QED BY <1>3, TemplatesInvariance, PTL

(***************************************************************************)
(* Pool strategies                                                         *)
(*                                                                         *)
(* Either every client is in use, or the strategy was deleted and every    *)
(* client waits for its socket or is released.  A client in use asks only  *)
(* what was sent, expects only what is not answered yet, and is closing    *)
(* only while its socket is; each operation of Client keeps that (Live).   *)
(***************************************************************************)

Requests == FShares \cup {"login"}

SocketStates == {"none", "connecting", "open", "closing", "dead", "mute"}

Sockets == [st : SocketStates, asked : SUBSET Requests, in : BOOLEAN]

ClientStates ==
    {"unconnected", "lookup", "connecting", "connected", "closing", "reconnecting"}

Phases == {"line", "socks0", "socks1", "socks2", "tls", "tls1"}

Clients ==
    [pool : SUBSET {"socks", "tls", "keepalive"}, st : ClientStates, failures : -1..Retries,
     armed : BOOLEAN, keep : BOOLEAN, dns : BOOLEAN, phase : Phases,
     sock : Sockets, old : Sockets, results : SUBSET FShares,
     listener : BOOLEAN, released : BOOLEAN]

\* A client in use: what is asked is among asked, what it expects among open,
\* and it is closing only when its socket is.
Live(c, asked, open) ==
    /\ c \in Clients
    /\ c.listener = TRUE /\ c.released = FALSE
    /\ c.st = "closing" => c.sock.st = "closing"
    /\ c.sock.asked \subseteq asked /\ c.old.asked \subseteq asked
    /\ c.results \subseteq open

\* A client that was deleted: released, or about to be.
Gone(c) ==
    /\ c \in Clients
    /\ c.listener = FALSE
    /\ \/ c.released = TRUE /\ c.sock.st = "none" /\ c.dns = FALSE
       \/ c.released = FALSE /\ c.sock.st = "closing"

\* Requests that were sent, and shares that are not answered yet.
Asked == {s \in DOMAIN fate : fate[s].st = "sent"} \cup {"login"}
Open == {s \in DOMAIN fate : fate[s].answers = 0}

Fates == [st : {"new", "sent", "failed"}, answers : Nat]

Nets(pools) ==
    [cl : [pools -> Clients], active : {-1} \cup pools, index : pools,
     on : BOOLEAN, late : BOOLEAN]

\* A strategy that was not deleted.
InUse(n, pools, asked, open) ==
    n \in Nets(pools) /\ \A k \in pools : Live(n.cl[k], asked, open)

FailoverTypeOK ==
    /\ kind \in {"single", "failover"}
    /\ net \in Nets(Pools(kind))
    /\ fate \in [(IF kind = "single" THEN FShares ELSE {}) -> Fates]

FailoverInv ==
    /\ FailoverTypeOK
    /\ ResultOnce
    /\ \/ InUse(net, Pools(kind), Asked, Open)
       \/ net.on = FALSE /\ \A k \in Pools(kind) : Gone(net.cl[k])

(***************************************************************************)
(* The operations of a client                                              *)
(***************************************************************************)

LEMMA RetriesInt ==
    /\ Retries \in Nat \ {0} /\ -1 \in -1..Retries /\ 0 \in -1..Retries
    /\ "login" \in Requests /\ FShares \subseteq Requests
BY FailoverAssumption DEF Requests

LEMMA NewLive ==
    ASSUME NEW o \in SUBSET {"socks", "tls", "keepalive"}, NEW asked, NEW open
    PROVE  Live(NewClient(o), asked, open)
<1>1. NoSocket \in Sockets
  BY DEF NoSocket, Sockets, SocketStates
<1>2. NewClient(o) \in Clients
  BY <1>1, RetriesInt DEF NewClient, Clients, ClientStates, Phases
<1> QED BY <1>2 DEF NewClient, NoSocket, Live

LEMMA ReleasedGone ==
    ASSUME NEW c \in Clients
    PROVE  Gone(Released(c))
<1> DEFINE n == NewClient(c.pool)
<1>1. c.pool \in SUBSET {"socks", "tls", "keepalive"}
  BY DEF Clients
<1>2. n \in Clients /\ n.sock.st = "none" /\ n.dns = FALSE
  <2>1. Live(n, {}, {})
    BY <1>1, NewLive
  <2> QED BY <2>1 DEF Live, NewClient, NoSocket
<1>3. Released(c) = [n EXCEPT !.listener = FALSE, !.released = TRUE]
  BY DEF Released
<1> HIDE DEF n
<1> QED BY <1>2, <1>3 DEF Clients, Gone

\* setState keeps the rest of the client.
LEMMA StateKept ==
    ASSUME NEW c \in Clients, NEW st \in ClientStates, NEW d, d = setState(c, st)
    PROVE  /\ d \in Clients /\ d.st = st
           /\ d.pool = c.pool /\ d.sock = c.sock /\ d.old = c.old /\ d.results = c.results
           /\ d.listener = c.listener /\ d.released = c.released /\ d.phase = c.phase
           /\ d.dns = c.dns /\ d.failures = c.failures
<1> DEFINE a == IF c.st = st THEN c.armed
                ELSE CASE st = "lookup" -> FALSE
                       [] st \in {"connecting", "reconnecting"} -> TRUE
                       [] OTHER -> c.armed
<1>1. a \in BOOLEAN
  BY DEF Clients
<1>2. d = [c EXCEPT !.st = st, !.armed = a]
  BY DEF setState
<1> HIDE DEF a
<1> QED BY <1>1, <1>2 DEF Clients

LEMMA CloseLive ==
    ASSUME NEW asked, NEW open, NEW c, Live(c, asked, open), NEW d, d = close(c)
    PROVE  /\ Live(d, asked, open) /\ d.failures = c.failures
           /\ c.st = "closing" => d.st = "closing"
<1>1. CASE c.st \in {"closing", "unconnected"} \/ c.sock.st = "none"
  BY <1>1 DEF close
<1>2. CASE ~ (c.st \in {"closing", "unconnected"} \/ c.sock.st = "none")
  <2> DEFINE e == setState(c, "closing")
             s == [NoSocket EXCEPT !.st = "closing"]
  <2>1. /\ e \in Clients /\ e.st = "closing"
        /\ e.pool = c.pool /\ e.sock = c.sock /\ e.old = c.old /\ e.results = c.results
        /\ e.listener = c.listener /\ e.released = c.released /\ e.failures = c.failures
    BY StateKept DEF Live, ClientStates
  <2>2. s \in Sockets /\ s.st = "closing" /\ s.asked = {}
    BY DEF NoSocket, Sockets, SocketStates
  <2>3. d = [e EXCEPT !.sock = s]
    BY <1>2 DEF close
  <2> HIDE DEF e, s
  <2> QED BY <2>1, <2>2, <2>3 DEF Live, Clients
<1> QED BY <1>1, <1>2

LEMMA DisconnectLive ==
    ASSUME NEW asked, NEW open, NEW c, Live(c, asked, open)
    PROVE  Live(disconnect(c), asked, open)
<1> DEFINE d == [c EXCEPT !.keep = FALSE, !.armed = FALSE, !.failures = -1]
<1>1. Live(d, asked, open)
  BY RetriesInt DEF Live, Clients
<1>2. disconnect(c) = close(d)
  BY DEF disconnect
<1> HIDE DEF d
<1> QED BY <1>1, <1>2, CloseLive

LEMMA DeletedGone ==
    ASSUME NEW asked, NEW open, NEW c, Live(c, asked, open)
    PROVE  Gone(deleteLater(c))
<1> DEFINE e == [c EXCEPT !.keep = FALSE, !.armed = FALSE, !.failures = -1]
           f == [c EXCEPT !.listener = FALSE]
           g == [f EXCEPT !.keep = FALSE, !.armed = FALSE, !.failures = -1]
           d == disconnect(f)
<1>1. /\ g \in Clients /\ g.listener = FALSE /\ g.released = FALSE
      /\ g.st = "closing" => g.sock.st = "closing"
  BY RetriesInt DEF Live, Clients
<1>2. d = close(g)
  BY DEF disconnect
<1>3. /\ d \in Clients /\ d.listener = FALSE /\ d.released = FALSE
      /\ d.st = "closing" => d.sock.st = "closing"
  <2>1. CASE g.st \in {"closing", "unconnected"} \/ g.sock.st = "none"
    <3>1. d = g
      BY <1>2, <2>1 DEF close
    <3> HIDE DEF d, g
    <3> QED BY <1>1, <3>1
  <2>2. CASE ~ (g.st \in {"closing", "unconnected"} \/ g.sock.st = "none")
    <3> DEFINE h == setState(g, "closing")
               s == [NoSocket EXCEPT !.st = "closing"]
    <3>0. "closing" \in ClientStates
      BY DEF ClientStates
    <3> HIDE DEF g
    <3>1. h \in Clients /\ h.listener = g.listener /\ h.released = g.released
      BY <1>1, <3>0, StateKept
    <3>2. s \in Sockets /\ s.st = "closing"
      BY DEF NoSocket, Sockets, SocketStates
    <3>3. d = [h EXCEPT !.sock = s]
      BY <1>2, <2>2 DEF close
    <3> HIDE DEF d, h, s
    <3> QED BY <1>1, <3>1, <3>2, <3>3 DEF Clients
  <2> QED BY <2>1, <2>2
<1>4. deleteLater(c) = IF d.st = "closing" THEN d ELSE Released(c)
  BY DEF deleteLater, Live
<1>5. c \in Clients
  BY DEF Live
<1> HIDE DEF d
<1>6. CASE d.st = "closing"
  BY <1>3, <1>4, <1>6 DEF Gone
<1>7. CASE d.st # "closing"
  BY <1>4, <1>5, <1>7, ReleasedGone
<1> QED BY <1>6, <1>7

LEMMA ConnectLive ==
    ASSUME NEW asked, NEW open, NEW c, Live(c, asked, open)
    PROVE  Live(connect(c), asked, open)
<1> DEFINE e == setState(c, "lookup")
           f == IF c.failures = -1 THEN 0 ELSE c.failures
           p == IF "socks" \in c.pool THEN "socks0" ELSE IF "tls" \in c.pool THEN "tls" ELSE "line"
<1>1. /\ e \in Clients /\ e.st = "lookup" /\ e.sock = c.sock /\ e.old = c.old
      /\ e.results = c.results /\ e.listener = c.listener /\ e.released = c.released
  BY StateKept DEF Live, ClientStates
<1>2. f \in -1..Retries /\ p \in Phases
  BY RetriesInt DEF Live, Clients, Phases
<1>3. connect(c) = [e EXCEPT !.failures = f, !.phase = p, !.dns = TRUE]
  BY DEF connect
<1> HIDE DEF e, f, p
<1> QED BY <1>1, <1>2, <1>3 DEF Live, Clients

LEMMA ConnectToLive ==
    ASSUME NEW asked, NEW open, NEW c, Live(c, asked, open)
    PROVE  Live(connectTo(c), asked, open)
<1> DEFINE e == setState(c, "connecting")
           o == IF c.sock.st \in {"connecting", "open"} THEN c.sock ELSE c.old
           s == [NoSocket EXCEPT !.st = "connecting"]
<1>1. /\ e \in Clients /\ e.st = "connecting" /\ e.sock = c.sock /\ e.old = c.old
      /\ e.results = c.results /\ e.listener = c.listener /\ e.released = c.released
  BY StateKept DEF Live, ClientStates
<1>2. o \in Sockets /\ o.asked \subseteq asked
  BY DEF Live, Clients
<1>3. s \in Sockets /\ s.asked = {}
  BY DEF NoSocket, Sockets, SocketStates
<1>4. connectTo(c) = [e EXCEPT !.dns = FALSE, !.old = o, !.sock = s]
  BY DEF connectTo
<1> HIDE DEF e, o, s
<1> QED BY <1>1, <1>2, <1>3, <1>4 DEF Live, Clients

LEMMA TimeoutLive ==
    ASSUME NEW asked, NEW open, NEW c, Live(c, asked, open)
    PROVE  Live(startTimeout(c), asked, open) /\ startTimeout(c).sock = c.sock
<1> DEFINE k == IF "keepalive" \in c.pool THEN TRUE ELSE c.keep
<1>1. k \in BOOLEAN
  BY DEF Live, Clients
<1>2. startTimeout(c) = [c EXCEPT !.armed = FALSE, !.keep = k]
  BY DEF startTimeout
<1> HIDE DEF k
<1> QED BY <1>1, <1>2 DEF Live, Clients

\* What is sent is asked, or the client asks no more than before.
LEMMA SendLive ==
    ASSUME NEW asked, NEW open, NEW c, Live(c, asked, open),
           NEW r \in Requests, NEW ok \in BOOLEAN, NEW d, d = send(c, r, ok)
    PROVE  /\ Live(d, asked \cup {r}, open)
           /\ r \in asked \/ r \notin d.sock.asked => Live(d, asked, open)
<1>0. ASSUME Live(d, asked, open) PROVE Live(d, asked \cup {r}, open)
  BY <1>0 DEF Live
<1>1. CASE c.st # "connected" \/ c.sock.st # "open" \/ ("tls" \in c.pool /\ c.phase # "line")
  <2>1. d = c
    BY <1>1 DEF send
  <2> QED BY <1>0, <2>1
<1>2. CASE ~ (c.st # "connected" \/ c.sock.st # "open" \/ ("tls" \in c.pool /\ c.phase # "line")) /\ ~ ok
  <2>1. d = close(c)
    BY <1>2 DEF send
  <2> QED BY <1>0, <2>1, CloseLive
<1>3. CASE ~ (c.st # "connected" \/ c.sock.st # "open" \/ ("tls" \in c.pool /\ c.phase # "line")) /\ ok
  <2> DEFINE s == [c.sock EXCEPT !.asked = c.sock.asked \cup {r}]
             e == [c EXCEPT !.sock = s]
  <2>1. d = startTimeout(e)
    BY <1>3 DEF send
  <2>2. s \in Sockets /\ s.asked = c.sock.asked \cup {r} /\ s.st = c.sock.st
    BY DEF Live, Clients, Sockets
  <2> HIDE DEF s
  <2>3. Live(e, asked \cup {r}, open) /\ e.sock = s
    BY <2>2 DEF Live, Clients
  <2> HIDE DEF e
  <2>4. Live(d, asked \cup {r}, open) /\ d.sock.asked = c.sock.asked \cup {r}
    BY <2>1, <2>2, <2>3, TimeoutLive
  <2>5. ASSUME r \in asked \/ r \notin d.sock.asked PROVE Live(d, asked, open)
    <3>1. asked \cup {r} = asked
      BY <2>4, <2>5
    <3> QED BY <2>4, <3>1
  <2> QED BY <2>4, <2>5
<1> QED BY <1>1, <1>2, <1>3

LEMMA LoginLive ==
    ASSUME NEW asked, "login" \in asked, NEW open, NEW c, Live(c, asked, open), NEW ok \in BOOLEAN
    PROVE  Live(login(c, ok), asked, open)
<1> DEFINE e == [c EXCEPT !.results = {}]
<1>1. Live(e, asked, open)
  BY DEF Live, Clients
<1>2. login(c, ok) = send(e, "login", ok)
  BY DEF login
<1> HIDE DEF e
<1> QED BY <1>1, <1>2, SendLive, RetriesInt

\* A share that is open is expected, and asked unless it could not be sent.
LEMMA SubmitLive ==
    ASSUME NEW asked, NEW open, NEW c, Live(c, asked, open),
           NEW s \in FShares, s \in open, NEW ok \in BOOLEAN, NEW d, d = submit(c, s, ok)
    PROVE  /\ Live(d, asked \cup {s}, open)
           /\ s \notin d.sock.asked => Live(d, asked, open)
<1> DEFINE e == [c EXCEPT !.results = c.results \cup {s}]
<1>1. Live(e, asked, open)
  BY DEF Live, Clients
<1>2. d = send(e, s, ok)
  BY DEF submit
<1>3. s \in Requests
  BY RetriesInt
<1> HIDE DEF e
<1> QED BY <1>1, <1>2, <1>3, SendLive

LEMMA AnsweredLive ==
    ASSUME NEW asked, NEW open, NEW c, Live(c, asked, open), NEW s
    PROVE  Live(handleSubmitResponse(c, s), asked, open \ {s})
BY DEF handleSubmitResponse, Live, Clients

LEMMA HandshakeLive ==
    ASSUME NEW asked, "login" \in asked, NEW open, NEW c, Live(c, asked, open), NEW ok \in BOOLEAN
    PROVE  Live(handshake(c, ok), asked, open)
<1> DEFINE f == [c EXCEPT !.phase = "socks1"]
           g == [c EXCEPT !.phase = "tls1", !.armed = TRUE]
           h == [c EXCEPT !.armed = TRUE]
<1>1. Live(f, asked, open) /\ Live(g, asked, open) /\ Live(h, asked, open)
  BY DEF Live, Clients, Phases
<1>2. \/ handshake(c, ok) \in {f, g, close(c), close(h)}
      \/ handshake(c, ok) = login(c, ok)
  BY DEF handshake
<1> HIDE DEF f, g, h
<1> QED BY <1>1, <1>2, CloseLive, LoginLive

LEMMA ConnectedLive ==
    ASSUME NEW asked, "login" \in asked, NEW open, NEW c, Live(c, asked, open), NEW ok \in BOOLEAN
    PROVE  Live(onConnected(c, ok), asked, open)
<1> DEFINE m == [c EXCEPT !.sock = [c.sock EXCEPT !.st = "mute"]]
           o == [c EXCEPT !.sock = [c.sock EXCEPT !.st = "open"]]
           e == setState(o, "connected")
<1>1. CASE c.st = "connected"
  <2>1. onConnected(c, ok) = m
    BY <1>1 DEF onConnected
  <2>2. Live(m, asked, open)
    BY <1>1 DEF Live, Clients, Sockets, SocketStates
  <2> QED BY <2>1, <2>2
<1>2. CASE c.st # "connected"
  <2>1. onConnected(c, ok) = handshake(e, ok)
    BY <1>2 DEF onConnected
  <2>2. /\ o \in Clients /\ o.listener = TRUE /\ o.released = FALSE
        /\ o.sock.asked \subseteq asked /\ o.old.asked \subseteq asked /\ o.results \subseteq open
    BY DEF Live, Clients, Sockets, SocketStates
  <2>3. "connected" \in ClientStates
    BY DEF ClientStates
  <2> HIDE DEF o
  <2>4. Live(e, asked, open)
    BY <2>2, <2>3, StateKept DEF Live
  <2> HIDE DEF e
  <2> QED BY <2>1, <2>4, HandshakeLive
<1> QED BY <1>1, <1>2

LEMMA OldConnectedLive ==
    ASSUME NEW asked, "login" \in asked, NEW open, NEW c, Live(c, asked, open)
    PROVE  Live(onOldConnected(c), asked, open)
<1> DEFINE d == [c EXCEPT !.old = NoSocket]
           e == setState(d, "connected")
           f == [e EXCEPT !.phase = "tls1", !.armed = TRUE]
           g == [e EXCEPT !.results = {}]
<1>1. /\ NoSocket \in Sockets /\ NoSocket.asked = {}
      /\ "connected" \in ClientStates /\ TRUE \in BOOLEAN
  BY DEF NoSocket, Sockets, SocketStates, ClientStates
<1>2. Live(d, asked, open)
  BY <1>1 DEF Live, Clients
<1>3. \/ onOldConnected(c) \in {d, close(e), f, g}
      \/ onOldConnected(c) = handshake(e, TRUE)
  BY DEF onOldConnected
<1> HIDE DEF d
<1>4. Live(e, asked, open)
  BY <1>1, <1>2, StateKept DEF Live
<1> HIDE DEF e
<1>5. Live(f, asked, open) /\ Live(g, asked, open)
  BY <1>4 DEF Live, Clients, Phases
<1> HIDE DEF f, g
<1>6. Live(close(e), asked, open)
  BY <1>4, CloseLive
<1>7. Live(handshake(e, TRUE), asked, open)
  <2> DEFINE ok == TRUE
  <2>1. ok \in BOOLEAN
    OBVIOUS
  <2> HIDE DEF ok
  <2>2. Live(handshake(e, ok), asked, open)
    BY <1>4, <2>1, HandshakeLive
  <2> QED BY <2>2 DEF ok
<1> QED BY <1>2, <1>3, <1>5, <1>6, <1>7

LEMMA ConnectErrorLive ==
    ASSUME NEW asked, NEW open, NEW c, Live(c, asked, open), NEW isOld \in BOOLEAN,
           isOld \/ c.sock.st = "connecting"
    PROVE  Live(onConnectError(c, isOld), asked, open)
<1> DEFINE d == [c EXCEPT !.old = NoSocket]
           e == [c EXCEPT !.sock = [c.sock EXCEPT !.st = "dead"]]
<1>1. NoSocket \in Sockets /\ NoSocket.asked = {}
  BY DEF NoSocket, Sockets, SocketStates
<1>2. Live(d, asked, open)
  BY <1>1 DEF Live, Clients
<1>3. ~ isOld => Live(e, asked, open)
  BY DEF Live, Clients, Sockets, SocketStates
<1>4. \/ isOld /\ onConnectError(c, isOld) \in {d, close(d)}
      \/ ~ isOld /\ onConnectError(c, isOld) \in {e, close(e)}
  BY DEF onConnectError
<1> HIDE DEF d, e
<1> QED BY <1>2, <1>3, <1>4, CloseLive

LEMMA SocksLive ==
    ASSUME NEW asked, "login" \in asked, NEW open, NEW c, Live(c, asked, open),
           NEW good \in BOOLEAN, NEW ok \in BOOLEAN
    PROVE  Live(socksRead(c, good, ok), asked, open)
<1> DEFINE d == [c EXCEPT !.phase = "socks2"]
           e == [c EXCEPT !.phase = IF "tls" \in c.pool THEN "tls" ELSE "line"]
<1>1. Live(d, asked, open) /\ Live(e, asked, open)
  BY DEF Live, Clients, Phases
<1>2. \/ socksRead(c, good, ok) \in {d, close(c), close(d)}
      \/ socksRead(c, good, ok) = handshake(e, ok)
  BY DEF socksRead
<1> HIDE DEF d, e
<1> QED BY <1>1, <1>2, CloseLive, HandshakeLive

LEMMA TlsLive ==
    ASSUME NEW asked, "login" \in asked, NEW open, NEW c, Live(c, asked, open),
           NEW verified \in BOOLEAN, NEW ok \in BOOLEAN
    PROVE  Live(tlsRead(c, verified, ok), asked, open)
<1> DEFINE d == [c EXCEPT !.phase = "line"]
<1>1. Live(d, asked, open)
  BY DEF Live, Clients, Phases
<1>2. tlsRead(c, verified, ok) = close(c) \/ tlsRead(c, verified, ok) = login(d, ok)
  BY DEF tlsRead
<1> HIDE DEF d
<1> QED BY <1>1, <1>2, CloseLive, LoginLive

LEMMA RepliedLive ==
    ASSUME NEW asked, NEW open, NEW c, Live(c, asked, open),
           NEW w \in {"own", "old"}, NEW accepted \in BOOLEAN
    PROVE  Live(replied(c, w, accepted), asked, open)
<1> DEFINE o == Socket(c, w)
           s == [o EXCEPT !.asked = o.asked \ {"login"}, !.in = accepted]
           d == [c EXCEPT !.old = s]
           e == [c EXCEPT !.sock = s]
<1>1. o \in Sockets /\ o.asked \subseteq asked /\ (w = "own" => o = c.sock)
  BY DEF Socket, Live, Clients
<1>2. replied(c, w, accepted) = IF w = "old" THEN d ELSE e
  BY DEF replied
<1> HIDE DEF o
<1>3. s \in Sockets /\ s.asked \subseteq asked /\ s.st = o.st
  BY <1>1 DEF Sockets
<1> HIDE DEF s
<1>4. Live(d, asked, open)
  BY <1>3 DEF Live, Clients
<1>5. w = "own" => Live(e, asked, open)
  BY <1>1, <1>3 DEF Live, Clients
<1> HIDE DEF d, e
<1> QED BY <1>2, <1>4, <1>5

(***************************************************************************)
(* The strategies                                                          *)
(***************************************************************************)

LEMMA PoolIds ==
    ASSUME kind \in {"single", "failover"}
    PROVE  /\ 0 \in Pools(kind)
           /\ kind # "single" => Pools(kind) = Ids
BY FailoverAssumption DEF Pools, Ids

LEMMA PutInUse ==
    ASSUME NEW pools, NEW asked, NEW open, NEW n, InUse(n, pools, asked, open),
           NEW k \in pools, NEW c, Live(c, asked, open), NEW m, m = Put(n, k, c)
    PROVE  InUse(m, pools, asked, open)
<1>1. c \in Clients
  BY DEF Live
<1>2. /\ n \in Nets(pools) /\ m = [n EXCEPT !.cl = [n.cl EXCEPT ![k] = c]]
  BY DEF InUse, Put
<1> DEFINE f == [n.cl EXCEPT ![k] = c]
<1>3. f \in [pools -> Clients]
  BY <1>1, <1>2 DEF Nets
<1>4. \A j \in pools : f[j] = IF j = k THEN c ELSE n.cl[j]
  BY <1>2 DEF Nets
<1> HIDE DEF f
<1>5. m \in Nets(pools) /\ m.cl = f
  BY <1>2, <1>3 DEF Nets, f
<1> QED BY <1>4, <1>5 DEF InUse

LEMMA OnCloseInUse ==
    ASSUME kind \in {"single", "failover"},
           NEW asked, NEW open, NEW n, InUse(n, Pools(kind), asked, open),
           NEW k \in Pools(kind), NEW tried \in -1..Retries
    PROVE  InUse(onClose(n, k, tried), Pools(kind), asked, open)
<1> DEFINE p == IF n.active = k THEN [n EXCEPT !.active = -1] ELSE n
           q == [n EXCEPT !.active = -1]
<1>1. InUse(q, Pools(kind), asked, open)
  BY DEF InUse, Nets
<1>2. InUse(p, Pools(kind), asked, open)
  BY <1>1
<1>3. onClose(n, k, tried) =
         IF kind = "single" THEN q
         ELSE IF tried = -1 THEN n
         ELSE IF p.index = 0 /\ tried < Retries THEN p
         ELSE IF p.index = k /\ k + 1 \in Ids
              THEN [Put(p, k + 1, connect(p.cl[k + 1])) EXCEPT !.index = k + 1]
         ELSE p
  BY DEF onClose, singleClosed
<1> HIDE DEF p, q
<1>4. ASSUME kind # "single", k + 1 \in Ids
      PROVE  InUse([Put(p, k + 1, connect(p.cl[k + 1])) EXCEPT !.index = k + 1],
                   Pools(kind), asked, open)
  <2>1. k + 1 \in Pools(kind)
    BY <1>4, PoolIds
  <2>2. Live(connect(p.cl[k + 1]), asked, open)
    BY <1>2, <2>1, ConnectLive DEF InUse
  <2>3. PICK r : r = Put(p, k + 1, connect(p.cl[k + 1]))
    OBVIOUS
  <2>4. InUse(r, Pools(kind), asked, open)
    BY <1>2, <2>1, <2>2, <2>3, PutInUse
  <2>5. InUse([r EXCEPT !.index = k + 1], Pools(kind), asked, open)
    BY <2>1, <2>4 DEF InUse, Nets
  <2> QED BY <2>3, <2>5
<1> QED BY <1>1, <1>2, <1>3, <1>4

LEMMA ReconnectInUse ==
    ASSUME kind \in {"single", "failover"},
           NEW asked, NEW open, NEW n, InUse(n, Pools(kind), asked, open),
           NEW k \in Pools(kind)
    PROVE  InUse(reconnect(n, k), Pools(kind), asked, open)
<1>1. PICK c : c = n.cl[k]
  OBVIOUS
<1>2. Live(c, asked, open)
  BY <1>1 DEF InUse
<1> DEFINE d == [c EXCEPT !.keep = FALSE]
           f == IF c.failures >= Retries THEN Retries ELSE c.failures + 1
           e == setState(d, "reconnecting")
           g == [e EXCEPT !.failures = f]
<1>3. Live(d, asked, open)
  BY <1>2 DEF Live, Clients
<1>4. f \in -1..Retries /\ c.failures \in -1..Retries
  BY <1>2, RetriesInt DEF Live, Clients
<1>5. "reconnecting" \in ClientStates
  BY DEF ClientStates
<1>6. \/ c.failures = -1 /\ reconnect(n, k) = onClose(Put(n, k, d), k, -1)
      \/ reconnect(n, k) = onClose(Put(n, k, g), k, f)
  BY <1>1, <1>2 DEF reconnect, Live
<1> HIDE DEF d, f
<1>7. Live(g, asked, open)
  <2>1. /\ e \in Clients /\ e.st = "reconnecting" /\ e.sock = d.sock /\ e.old = d.old
        /\ e.results = d.results /\ e.listener = d.listener /\ e.released = d.released
    BY <1>3, <1>5, StateKept DEF Live
  <2> HIDE DEF e
  <2> QED BY <1>3, <1>4, <2>1 DEF Live, Clients
<1> HIDE DEF e, g
<1>8. InUse(Put(n, k, d), Pools(kind), asked, open) /\ InUse(Put(n, k, g), Pools(kind), asked, open)
  BY <1>3, <1>7, PutInUse
<1> QED BY <1>4, <1>6, <1>8, OnCloseInUse

LEMMA LoggedInInUse ==
    ASSUME kind \in {"single", "failover"},
           NEW asked, NEW open, NEW n, InUse(n, Pools(kind), asked, open),
           NEW k \in Pools(kind)
    PROVE  InUse(onLoginSuccess(n, k), Pools(kind), asked, open)
<1> DEFINE a == IF k = 0 \/ n.active = -1 THEN k ELSE n.active
           f == [j \in Pools(kind) |-> IF j # 0 /\ j # a THEN disconnect(n.cl[j]) ELSE n.cl[j]]
           i == IF a # n.active THEN a ELSE n.index
           m == [n EXCEPT !.cl = f, !.active = a, !.index = i]
           o == [n EXCEPT !.active = 0]
<1>1. DOMAIN n.cl = Pools(kind) /\ n \in Nets(Pools(kind))
  BY DEF InUse, Nets
<1>2. onLoginSuccess(n, k) = IF kind = "single" THEN o ELSE m
  BY <1>1 DEF onLoginSuccess, singleActive
<1>3. InUse(o, Pools(kind), asked, open)
  BY PoolIds DEF InUse, Nets
<1>4. a \in Pools(kind) /\ i \in Pools(kind)
  BY <1>1 DEF Nets
<1>5. \A j \in Pools(kind) : Live(f[j], asked, open)
  BY DisconnectLive DEF InUse
<1>6. f \in [Pools(kind) -> Clients]
  <2>1. \A j \in Pools(kind) : f[j] \in Clients
    BY <1>5 DEF Live
  <2> QED BY <2>1
<1> HIDE DEF a, f, i
<1>7. InUse(m, Pools(kind), asked, open)
  BY <1>1, <1>4, <1>5, <1>6 DEF InUse, Nets
<1> HIDE DEF m, o
<1> QED BY <1>2, <1>3, <1>7

(***************************************************************************)
(* The steps                                                               *)
(***************************************************************************)

LEMMA StepInUse ==
    ASSUME kind \in {"single", "failover"}, InUse(net, Pools(kind), Asked, Open),
           NEW k \in Pools(kind), NEW c, Live(c, Asked, Open), Step(k, c)
    PROVE  InUse(net', Pools(kind), Asked, Open) /\ kind' = kind /\ fate' = fate
BY PutInUse DEF Step

\* A callback of a client in use leaves every client in use, unless it answers a
\* share.
LEMMA CallbackInUse ==
    ASSUME kind \in {"single", "failover"}, InUse(net, Pools(kind), Asked, Open),
           NEW k \in Pools(kind), Callback(k)
    PROVE  \/ InUse(net', Pools(kind), Asked, Open) /\ kind' = kind /\ fate' = fate
           \/ \E w \in {"own", "old"}, s \in DOMAIN fate, e, b \in BOOLEAN :
                 SubmitAnswered(k, w, s, e, b)
<1>1. PICK c : c = net.cl[k]
  OBVIOUS
<1>2. Live(c, Asked, Open)
  BY <1>1 DEF InUse
<1>3. "login" \in Asked
  BY DEF Asked
<1> DEFINE Done == InUse(net', Pools(kind), Asked, Open) /\ kind' = kind /\ fate' = fate
<1>4. ASSUME NEW d, Live(d, Asked, Open), Step(k, d) PROVE Done
  BY <1>4, StepInUse
<1>5. ASSUME NEW n, InUse(n, Pools(kind), Asked, Open),
             net' = reconnect(n, k), UNCHANGED <<kind, fate>>
      PROVE  Done
  BY <1>5, ReconnectInUse
<1>6. ASSUME NEW b \in BOOLEAN, Resolved(k, b) PROVE Done
  <2> DEFINE d == [c EXCEPT !.dns = FALSE]
  <2>1. Live(d, Asked, Open) /\ c.listener = TRUE
    BY <1>2 DEF Live, Clients
  <2>2. /\ \/ net' = Put(net, k, connectTo(c))
           \/ net' = reconnect(Put(net, k, d), k)
        /\ kind' = kind /\ fate' = fate
    BY <1>1, <1>6 DEF Resolved
  <2> HIDE DEF d
  <2>3. InUse(Put(net, k, d), Pools(kind), Asked, Open)
        /\ InUse(Put(net, k, connectTo(c)), Pools(kind), Asked, Open)
    BY <1>2, <2>1, ConnectToLive, PutInUse
  <2> QED BY <2>2, <2>3, ReconnectInUse
<1>7. ASSUME NEW b \in BOOLEAN, ConnectOk(k, b) PROVE Done
  <2>1. Live(onConnected(c, b), Asked, Open)
    BY <1>2, <1>3, ConnectedLive
  <2> QED BY <1>1, <1>4, <1>7, <2>1 DEF ConnectOk
<1>8. ASSUME NEW b \in BOOLEAN, OldConnect(k, b) PROVE Done
  <2>1. Live(onOldConnected(c), Asked, Open)
    BY <1>2, <1>3, OldConnectedLive
  <2>2. Live(onConnectError(c, TRUE), Asked, Open)
    <3> DEFINE old == TRUE
    <3>1. old \in BOOLEAN /\ (old \/ c.sock.st = "connecting")
      OBVIOUS
    <3> HIDE DEF old
    <3>2. Live(onConnectError(c, old), Asked, Open)
      BY <1>2, <3>1, ConnectErrorLive
    <3> QED BY <3>2 DEF old
  <2>3. Step(k, IF b THEN onOldConnected(c) ELSE onConnectError(c, TRUE))
    BY <1>1, <1>8 DEF OldConnect
  <2> QED BY <1>4, <2>1, <2>2, <2>3
<1>9. ASSUME NEW b \in BOOLEAN, Ping(k, b) PROVE Done
  <2>1. Live(startTimeout(c), Asked, Open) /\ Live(close(c), Asked, Open)
    BY <1>2, TimeoutLive, CloseLive
  <2>2. Step(k, IF c.sock.st # "open" THEN c ELSE IF b THEN startTimeout(c) ELSE close(c))
    BY <1>1, <1>9 DEF Ping
  <2> QED BY <1>2, <1>4, <2>1, <2>2
<1>10. ASSUME ConnectError(k) PROVE Done
  <2> DEFINE old == FALSE
  <2>1. c.sock.st = "connecting" /\ Step(k, onConnectError(c, old))
    BY <1>1, <1>10 DEF ConnectError
  <2>2. old \in BOOLEAN
    OBVIOUS
  <2> HIDE DEF old
  <2>3. Live(onConnectError(c, old), Asked, Open)
    BY <1>2, <2>1, <2>2, ConnectErrorLive
  <2> QED BY <1>4, <2>1, <2>3
<1>11. ASSUME CloseCallback(k) PROVE Done
  <2> DEFINE o == [c EXCEPT !.sock = NoSocket]
             d == setState(o, "unconnected")
  <2>1. NoSocket \in Sockets /\ NoSocket.asked = {} /\ "unconnected" \in ClientStates
    BY DEF NoSocket, Sockets, SocketStates, ClientStates
  <2>2. /\ o \in Clients /\ o.listener = TRUE /\ o.released = FALSE
        /\ o.sock.asked \subseteq Asked /\ o.old.asked \subseteq Asked /\ o.results \subseteq Open
    BY <1>2, <2>1 DEF Live, Clients
  <2>3. net' = reconnect(Put(net, k, d), k) /\ kind' = kind /\ fate' = fate
    BY <1>1, <1>11 DEF CloseCallback
  <2> HIDE DEF o
  <2>4. Live(d, Asked, Open)
    BY <2>1, <2>2, StateKept DEF Live
  <2> HIDE DEF d
  <2>5. InUse(Put(net, k, d), Pools(kind), Asked, Open)
    BY <2>4, PutInUse
  <2> QED BY <2>3, <2>5, ReconnectInUse
<1>12. ASSUME Tick(k) PROVE Done
  <2>1. Live(connect(c), Asked, Open) /\ Live(close(c), Asked, Open)
    BY <1>2, ConnectLive, CloseLive
  <2>2. Live(expire(c), Asked, Open)
    BY <1>2, <2>1 DEF expire
  <2>3. Step(k, IF c.st = "reconnecting" THEN connect(c) ELSE expire(c))
    BY <1>1, <1>12 DEF Tick
  <2> QED BY <1>4, <2>1, <2>2, <2>3
<1>13. ASSUME NEW b \in BOOLEAN, NEW ok \in BOOLEAN, SocksRead(k, b, ok) PROVE Done
  <2>1. Live(socksRead(c, b, ok), Asked, Open)
    BY <1>2, <1>3, SocksLive
  <2> QED BY <1>1, <1>4, <1>13, <2>1 DEF SocksRead
<1>14. ASSUME NEW b \in BOOLEAN, NEW ok \in BOOLEAN, TlsRead(k, b, ok) PROVE Done
  <2>1. Live(tlsRead(c, b, ok), Asked, Open)
    BY <1>2, <1>3, TlsLive
  <2> QED BY <1>1, <1>4, <1>14, <2>1 DEF TlsRead
<1>15. ASSUME NEW w \in {"own", "old"}, ReadError(k, w) PROVE Done
  <2> DEFINE d == [c EXCEPT !.old = NoSocket]
  <2>1. NoSocket \in Sockets /\ NoSocket.asked = {}
    BY DEF NoSocket, Sockets, SocketStates
  <2>2. Live(d, Asked, Open)
    BY <1>2, <2>1 DEF Live, Clients
  <2>3. Step(k, close(IF w = "old" THEN d ELSE c))
    BY <1>1, <1>15 DEF ReadError
  <2> HIDE DEF d
  <2>4. Live(close(d), Asked, Open) /\ Live(close(c), Asked, Open)
    BY <1>2, <2>2, CloseLive
  <2> QED BY <1>4, <2>3, <2>4
<1>16. ASSUME NEW w \in {"own", "old"}, BadLine(k, w) PROVE Done
  <2>1. Live(close(c), Asked, Open)
    BY <1>2, CloseLive
  <2> QED BY <1>1, <1>4, <1>16, <2>1 DEF BadLine
<1>17. ASSUME NEW w \in {"own", "old"}, PoolReconnect(k, w) PROVE Done
  BY <1>5, <1>17 DEF PoolReconnect
<1>18. ASSUME NEW w \in {"own", "old"}, LoginAccepted(k, w) PROVE Done
  <2> DEFINE y == TRUE
             r == replied(c, w, y)
             d == [r EXCEPT !.failures = 0]
  <2>1. net' = onLoginSuccess(Put(net, k, d), k) /\ kind' = kind /\ fate' = fate
    BY <1>1, <1>18 DEF LoginAccepted
  <2>2. y \in BOOLEAN
    OBVIOUS
  <2> HIDE DEF y
  <2>3. Live(r, Asked, Open)
    BY <1>2, <2>2, RepliedLive
  <2> HIDE DEF r
  <2>4. Live(d, Asked, Open)
    BY <2>3, RetriesInt DEF Live, Clients
  <2> HIDE DEF d
  <2>5. InUse(Put(net, k, d), Pools(kind), Asked, Open)
    BY <2>4, PutInUse
  <2> QED BY <2>1, <2>5, LoggedInInUse
<1>19. ASSUME NEW w \in {"own", "old"}, NEW b \in BOOLEAN, LoginRefused(k, w, b) PROVE Done
  <2> DEFINE y == FALSE
             r == replied(c, w, y)
  <2>1. Step(k, r) \/ Step(k, close(r))
    BY <1>1, <1>19 DEF LoginRefused
  <2>2. y \in BOOLEAN
    OBVIOUS
  <2> HIDE DEF y
  <2>3. Live(r, Asked, Open)
    BY <1>2, <2>2, RepliedLive
  <2> HIDE DEF r
  <2>4. Live(close(r), Asked, Open)
    BY <2>3, CloseLive
  <2> QED BY <1>4, <2>1, <2>3, <2>4
<1> HIDE DEF Done
<1> SUFFICES ASSUME ~ (\E w \in {"own", "old"}, s \in DOMAIN fate, e, b \in BOOLEAN :
                         SubmitAnswered(k, w, s, e, b))
             PROVE  Done
  BY DEF Done
<1> QED BY <1>6, <1>7, <1>8, <1>9, <1>10, <1>11, <1>12, <1>13, <1>14, <1>15, <1>16, <1>17, <1>18,
           <1>19, Zenon DEF Callback

\* An answer to a share takes it from what is expected.
LEMMA AnswerInv ==
    ASSUME FailoverInv, InUse(net, Pools(kind), Asked, Open),
           NEW k \in Pools(kind), NEW w \in {"own", "old"}, NEW s \in DOMAIN fate,
           NEW e \in BOOLEAN, NEW b \in BOOLEAN, SubmitAnswered(k, w, s, e, b)
    PROVE  FailoverInv'
<1>0. kind \in {"single", "failover"}
  BY DEF FailoverInv, FailoverTypeOK
<1>1. PICK c : c = net.cl[k]
  OBVIOUS
<1>2. Live(c, Asked, Open)
  BY <1>1 DEF InUse
<1>3. PICK d : d = handleSubmitResponse(c, s)
  OBVIOUS
<1>4. Live(d, Asked, Open \ {s})
  BY <1>2, <1>3, AnsweredLive
<1>5. /\ net' = Put(net, k, d) \/ net' = Put(net, k, close(d))
      /\ fate' = IF s \in c.results
                 THEN [fate EXCEPT ![s].answers = IF @ < 2 THEN @ + 1 ELSE @] ELSE fate
      /\ kind' = kind
      /\ s \in Socket(c, w).asked
  BY <1>1, <1>3 DEF SubmitAnswered
<1>6. DOMAIN fate = IF kind = "single" THEN FShares ELSE {}
  BY DEF FailoverInv, FailoverTypeOK
<1>7. kind = "single" /\ s \in FShares /\ Pools(kind) = {0} /\ k = 0
  BY <1>0, <1>6 DEF Pools
<1>8. fate[s].st = "sent"
  <2>1. s \in Asked /\ s # "login"
    BY <1>2, <1>5, <1>7, FailoverAssumption DEF Live, Socket
  <2> QED BY <2>1 DEF Asked
<1>9. PICK m : m \in {d, close(d)} /\ net' = Put(net, k, m)
  BY <1>5
<1>10. Live(m, Asked, Open \ {s})
  BY <1>4, <1>9, CloseLive
<1>11. ASSUME s \in c.results
       PROVE  /\ fate' \in [FShares -> Fates]
              /\ \A t \in FShares : fate'[t].st = fate[t].st
              /\ \A t \in FShares \ {s} : fate'[t] = fate[t]
              /\ fate'[s].answers = 1
  <2>1. fate[s].answers = 0
    BY <1>2, <1>11 DEF Live, Open
  <2>2. fate \in [FShares -> Fates]
    BY <1>7 DEF FailoverInv, FailoverTypeOK
  <2>3. fate[s] \in Fates /\ [fate[s] EXCEPT !.answers = 1] \in Fates
    BY <1>7, <2>2 DEF Fates
  <2>4. fate' = [fate EXCEPT ![s] = [fate[s] EXCEPT !.answers = 1]]
    BY <1>5, <1>11, <2>1
  <2>5. [fate[s] EXCEPT !.answers = 1].st = fate[s].st /\ [fate[s] EXCEPT !.answers = 1].answers = 1
    BY <2>3 DEF Fates
  <2> QED BY <1>7, <2>2, <2>3, <2>4, <2>5
<1>12. /\ fate' \in [FShares -> Fates]
       /\ \A t \in FShares : fate'[t].st = fate[t].st
       /\ \A t \in FShares \ {s} : fate'[t] = fate[t]
  BY <1>5, <1>7, <1>11 DEF FailoverInv, FailoverTypeOK
<1>13. DOMAIN fate' = FShares /\ DOMAIN fate = FShares
  BY <1>6, <1>7, <1>12
<1>14. Asked' = Asked
  BY <1>12, <1>13 DEF Asked
<1>15. Open \ {s} \subseteq Open'
  BY <1>12, <1>13 DEF Open
<1>16. ResultOnce'
  <2> SUFFICES ASSUME NEW t \in FShares
               PROVE  fate'[t].answers <= (IF fate'[t].st = "sent" THEN 1 ELSE 0)
    BY <1>13 DEF ResultOnce
  <2>1. CASE t # s \/ s \notin c.results
    BY <1>5, <1>12, <1>13, <2>1 DEF FailoverInv, ResultOnce
  <2>2. CASE t = s /\ s \in c.results
    BY <1>8, <1>11, <2>2
  <2> QED BY <2>1, <2>2
<1>17. Live(m, Asked', Open')
  BY <1>10, <1>14, <1>15 DEF Live
<1>18. InUse(net', Pools(kind), Asked', Open')
  <2>2. m \in Clients /\ net \in Nets(Pools(kind))
    BY <1>10 DEF Live, InUse
  <2>3. net' = [net EXCEPT !.cl = [net.cl EXCEPT ![k] = m]]
    BY <1>9 DEF Put
  <2> DEFINE f == [net.cl EXCEPT ![k] = m]
  <2>4. f \in [Pools(kind) -> Clients] /\ f[0] = m
    BY <1>7, <2>2 DEF Nets
  <2> HIDE DEF f
  <2>5. net' \in Nets(Pools(kind)) /\ net'.cl = f
    BY <2>2, <2>3, <2>4 DEF Nets, f
  <2> QED BY <1>7, <1>17, <2>4, <2>5 DEF InUse
<1>19. Pools(kind') = Pools(kind)
  BY <1>5
<1> QED BY <1>0, <1>5, <1>7, <1>12, <1>16, <1>18, <1>19 DEF FailoverInv, FailoverTypeOK, InUse

\* A share is sent, or fails, in the client in use.
LEMMA SubmitInv ==
    ASSUME FailoverInv, InUse(net, Pools(kind), Asked, Open),
           NEW s \in DOMAIN fate, NEW ok \in BOOLEAN, StrategySubmit(s, ok)
    PROVE  FailoverInv'
<1>0. kind \in {"single", "failover"}
  BY DEF FailoverInv, FailoverTypeOK
<1>1. DOMAIN fate = IF kind = "single" THEN FShares ELSE {}
  BY DEF FailoverInv, FailoverTypeOK
<1>2. kind = "single" /\ s \in FShares /\ Pools(kind) = {0}
  BY <1>0, <1>1 DEF Pools
<1>3. PICK c : c = net.cl[0]
  OBVIOUS
<1>4. PICK d : d = submit(c, s, ok)
  OBVIOUS
<1>5. /\ net' = Put(net, 0, d) /\ kind' = kind /\ fate[s].st = "new"
      /\ fate' = [fate EXCEPT ![s].st = IF s \in d.sock.asked THEN "sent" ELSE "failed"]
  BY <1>2, <1>3, <1>4 DEF StrategySubmit
<1>6. fate \in [FShares -> Fates] /\ DOMAIN fate = FShares
  BY <1>2 DEF FailoverInv, FailoverTypeOK
<1>7. fate[s].answers = 0
  <2>1. fate[s].answers \in Nat /\ fate[s].answers <= 0
    BY <1>2, <1>5, <1>6 DEF FailoverInv, ResultOnce, Fates
  <2> QED BY <2>1
<1>8. Live(c, Asked, Open) /\ s \in Open
  BY <1>2, <1>3, <1>6, <1>7 DEF InUse, Open
<1>9. /\ Live(d, Asked \cup {s}, Open)
      /\ s \notin d.sock.asked => Live(d, Asked, Open)
  BY <1>2, <1>4, <1>8, SubmitLive
<1> DEFINE st == IF s \in d.sock.asked THEN "sent" ELSE "failed"
<1>10. /\ fate' \in [FShares -> Fates]
       /\ \A t \in FShares \ {s} : fate'[t] = fate[t]
       /\ fate'[s].st = st /\ fate'[s].answers = 0
  <2>1. fate[s] \in Fates /\ [fate[s] EXCEPT !.st = st] \in Fates
    BY <1>2, <1>6 DEF Fates
  <2>2. fate' = [fate EXCEPT ![s] = [fate[s] EXCEPT !.st = st]]
    BY <1>5
  <2>3. [fate[s] EXCEPT !.st = st].st = st /\ [fate[s] EXCEPT !.st = st].answers = 0
    BY <1>7, <2>1 DEF Fates
  <2> HIDE DEF st
  <2> QED BY <1>2, <1>6, <2>1, <2>2, <2>3
<1>11. DOMAIN fate' = FShares
  BY <1>10
<1>12. Open' = Open
  BY <1>2, <1>6, <1>7, <1>10, <1>11 DEF Open
<1>13. Asked' = IF s \in d.sock.asked THEN Asked \cup {s} ELSE Asked
  BY <1>2, <1>5, <1>6, <1>10, <1>11 DEF Asked
<1>14. Live(d, Asked', Open')
  BY <1>9, <1>12, <1>13
<1>15. Asked \subseteq Asked'
  BY <1>13
<1>16. ResultOnce'
  <2> SUFFICES ASSUME NEW t \in FShares
               PROVE  fate'[t].answers <= (IF fate'[t].st = "sent" THEN 1 ELSE 0)
    BY <1>11 DEF ResultOnce
  <2>1. CASE t # s
    BY <1>6, <1>10, <2>1 DEF FailoverInv, ResultOnce
  <2>2. CASE t = s
    BY <1>10, <2>2
  <2> QED BY <2>1, <2>2
<1>17. InUse(net', Pools(kind), Asked', Open')
  <2>1. d \in Clients /\ net \in Nets(Pools(kind))
    BY <1>14 DEF Live, InUse
  <2>2. net' = [net EXCEPT !.cl = [net.cl EXCEPT ![0] = d]]
    BY <1>5 DEF Put
  <2> DEFINE f == [net.cl EXCEPT ![0] = d]
  <2>3. f \in [Pools(kind) -> Clients] /\ f[0] = d
    BY <1>2, <2>1 DEF Nets
  <2> HIDE DEF f
  <2>4. net' \in Nets(Pools(kind)) /\ net'.cl = f
    BY <2>1, <2>2, <2>3 DEF Nets, f
  <2> QED BY <1>2, <1>14, <2>3, <2>4 DEF InUse
<1>18. Pools(kind') = Pools(kind)
  BY <1>5
<1> QED BY <1>0, <1>2, <1>5, <1>10, <1>16, <1>17, <1>18 DEF FailoverInv, FailoverTypeOK, InUse

\* What keeps the shares keeps what is known of them.
LEMMA SharesKept ==
    ASSUME FailoverInv, kind' = kind, fate' = fate,
           InUse(net', Pools(kind), Asked, Open)
    PROVE  FailoverInv'
<1>1. Asked' = Asked /\ Open' = Open /\ (ResultOnce => ResultOnce')
  BY DEF Asked, Open, ResultOnce
<1>2. Pools(kind') = Pools(kind)
  OBVIOUS
<1> QED BY <1>1, <1>2 DEF FailoverInv, FailoverTypeOK, InUse

LEMMA NewInUse ==
    ASSUME kind \in {"single", "failover"},
           NEW p \in [Pools(kind) -> SUBSET {"socks", "tls", "keepalive"}], NEW asked, NEW open
    PROVE  InUse(NewStrategy(p), Pools(kind), asked, open)
<1> DEFINE f == [k \in Pools(kind) |-> NewClient(p[k])]
<1>1. \A k \in Pools(kind) : Live(f[k], asked, open)
  BY NewLive
<1>2. f \in [Pools(kind) -> Clients]
  <2>1. \A k \in Pools(kind) : f[k] \in Clients
    BY <1>1 DEF Live
  <2> QED BY <2>1
<1>3. NewStrategy(p) = [cl |-> f, active |-> -1, index |-> 0, on |-> FALSE, late |-> FALSE]
  BY DEF NewStrategy
<1> HIDE DEF f
<1> QED BY <1>1, <1>2, <1>3, PoolIds DEF InUse, Nets

\* The calls of the mapper.
LEMMA MapperInv ==
    ASSUME FailoverInv,
           StrategyConnect \/ StrategyStop \/ StrategyDelete \/ StrategyCreate
    PROVE  FailoverInv'
<1>0. /\ kind \in {"single", "failover"} /\ 0 \in Pools(kind)
      /\ net \in Nets(Pools(kind)) /\ DOMAIN net.cl = Pools(kind)
      /\ kind' = kind /\ fate' = fate
  BY PoolIds DEF FailoverInv, FailoverTypeOK, Nets, StrategyConnect, StrategyStop,
                 StrategyDelete, StrategyCreate
<1>1. ASSUME Alive PROVE InUse(net, Pools(kind), Asked, Open)
  BY <1>0, <1>1 DEF Alive, FailoverInv, Gone
<1>2. CASE StrategyConnect
  <2>1. InUse(net, Pools(kind), Asked, Open)
    BY <1>1, <1>2 DEF StrategyConnect
  <2>2. net.index \in Pools(kind)
    BY <1>0 DEF Nets
  <2>3. PICK n : n = Put(net, net.index, connect(net.cl[net.index]))
    OBVIOUS
  <2>4. Live(connect(net.cl[net.index]), Asked, Open)
    BY <2>1, <2>2, ConnectLive DEF InUse
  <2>5. InUse(n, Pools(kind), Asked, Open)
    BY <2>1, <2>2, <2>3, <2>4, PutInUse
  <2>6. net' = [n EXCEPT !.on = TRUE]
    BY <1>2, <2>3 DEF StrategyConnect
  <2>7. InUse(net', Pools(kind), Asked, Open)
    BY <2>5, <2>6 DEF InUse, Nets
  <2> QED BY <1>0, <2>7, SharesKept
<1>3. CASE StrategyStop
  <2>1. InUse(net, Pools(kind), Asked, Open)
    BY <1>1, <1>3 DEF StrategyStop
  <2> DEFINE left == net.late \/ \E k \in DOMAIN net.cl : net.cl[k].dns \/ net.cl[k].old.st # "none"
             f == [k \in Pools(kind) |-> disconnect(net.cl[k])]
             g == [net.cl EXCEPT ![0] = disconnect(net.cl[0])]
             one == [net EXCEPT !.cl = g, !.on = FALSE]
             off == [net EXCEPT !.cl = f, !.on = FALSE, !.index = 0, !.active = -1]
  <2>2. net' = [(IF kind = "single" THEN one ELSE off) EXCEPT !.late = left]
    BY <1>0, <1>3 DEF StrategyStop, singleStopped
  <2>3. left \in BOOLEAN
    OBVIOUS
  <2>4. /\ \A k \in Pools(kind) : Live(f[k], Asked, Open)
        /\ \A k \in Pools(kind) : Live(g[k], Asked, Open)
    BY <1>0, <2>1, DisconnectLive DEF InUse, Nets
  <2>5. DOMAIN g = Pools(kind)
    BY <1>0
  <2>6. f \in [Pools(kind) -> Clients] /\ g \in [Pools(kind) -> Clients]
    <3>1. /\ \A k \in Pools(kind) : f[k] \in Clients
          /\ \A k \in Pools(kind) : g[k] \in Clients
      BY <2>4 DEF Live
    <3>2. g = [k \in Pools(kind) |-> g[k]]
      BY <1>0 DEF Nets
    <3> HIDE DEF g
    <3> QED BY <3>1, <3>2
  <2> HIDE DEF left, f, g
  <2>7. InUse(one, Pools(kind), Asked, Open) /\ InUse(off, Pools(kind), Asked, Open)
    BY <1>0, <2>4, <2>6 DEF InUse, Nets
  <2> HIDE DEF one, off
  <2>8. InUse(net', Pools(kind), Asked, Open)
    BY <2>2, <2>3, <2>7 DEF InUse, Nets
  <2> QED BY <1>0, <2>8, SharesKept
<1>4. CASE StrategyDelete
  <2>1. InUse(net, Pools(kind), Asked, Open)
    BY <1>1, <1>4 DEF StrategyDelete
  <2> DEFINE f == [k \in Pools(kind) |-> deleteLater(net.cl[k])]
  <2>2. net' = [net EXCEPT !.cl = f, !.on = FALSE, !.active = -1]
    BY <1>0, <1>4 DEF StrategyDelete
  <2>3. \A k \in Pools(kind) : Gone(f[k])
    BY <2>1, DeletedGone DEF InUse
  <2>4. f \in [Pools(kind) -> Clients]
    <3>1. \A k \in Pools(kind) : f[k] \in Clients
      BY <2>3 DEF Gone
    <3> QED BY <3>1
  <2> HIDE DEF f
  <2>5. net' \in Nets(Pools(kind)) /\ net'.cl = f /\ net'.on = FALSE
    BY <1>0, <2>2, <2>4 DEF Nets
  <2>6. ResultOnce' /\ Pools(kind') = Pools(kind)
    BY <1>0 DEF FailoverInv, ResultOnce
  <2> QED BY <1>0, <2>3, <2>5, <2>6 DEF FailoverInv, FailoverTypeOK
<1>5. CASE StrategyCreate
  <2> DEFINE p == [k \in Pools(kind) |-> net.cl[k].pool]
  <2>1. net' = NewStrategy(p)
    BY <1>0, <1>5 DEF StrategyCreate
  <2>2. p \in [Pools(kind) -> SUBSET {"socks", "tls", "keepalive"}]
    BY <1>0 DEF Nets, Clients
  <2> HIDE DEF p
  <2>3. InUse(net', Pools(kind), Asked, Open)
    BY <1>0, <2>1, <2>2, NewInUse
  <2> QED BY <1>0, <2>3, SharesKept
<1> QED BY <1>2, <1>3, <1>4, <1>5

\* All that a deleted client still does is to close.
LEMMA GoneCallback ==
    ASSUME FailoverInv, net.on = FALSE, \A k \in Pools(kind) : Gone(net.cl[k]),
           NEW k \in Pools(kind), Callback(k)
    PROVE  FailoverInv'
<1>1. PICK c : c = net.cl[k]
  OBVIOUS
<1>2. Gone(c) /\ c.listener = FALSE /\ c.sock.st \in {"none", "closing"}
      /\ (c.dns = TRUE => c.sock.st = "closing") /\ c \in Clients
  BY <1>1 DEF Gone, Clients
<1>3. CloseCallback(k)
  <2>1. \A b \in BOOLEAN : ~ Resolved(k, b) /\ ~ ConnectOk(k, b) /\ ~ OldConnect(k, b) /\ ~ Ping(k, b)
    BY <1>1, <1>2 DEF Resolved, ConnectOk, OldConnect, Ping, Clients
  <2>2. ~ ConnectError(k) /\ ~ Tick(k)
    BY <1>1, <1>2 DEF ConnectError, Tick
  <2>3. \A b, ok \in BOOLEAN : ~ SocksRead(k, b, ok) /\ ~ TlsRead(k, b, ok)
    BY <1>1, <1>2 DEF SocksRead, TlsRead
  <2>4. \A w \in {"own", "old"} : ~ Reads(c, w)
    BY <1>2 DEF Reads
  <2>5. \A w \in {"own", "old"} :
          /\ ~ ReadError(k, w) /\ ~ BadLine(k, w) /\ ~ PoolReconnect(k, w) /\ ~ LoginAccepted(k, w)
          /\ \A b \in BOOLEAN : ~ LoginRefused(k, w, b)
          /\ \A s \in DOMAIN fate, e, b \in BOOLEAN : ~ SubmitAnswered(k, w, s, e, b)
    BY <1>1, <1>2, <2>4 DEF ReadError, BadLine, PoolReconnect, LoginAccepted, LoginRefused, SubmitAnswered
  <2> QED BY <2>1, <2>2, <2>3, <2>5, Zenon DEF Callback
<1> DEFINE o == [c EXCEPT !.sock = NoSocket]
           d == setState(o, "unconnected")
<1>4. NoSocket \in Sockets /\ "unconnected" \in ClientStates
  BY DEF NoSocket, Sockets, SocketStates, ClientStates
<1>5. o \in Clients /\ o.listener = FALSE
  BY <1>2, <1>4 DEF Clients
<1>6. net' = reconnect(Put(net, k, d), k) /\ kind' = kind /\ fate' = fate
  BY <1>1, <1>3 DEF CloseCallback
<1> HIDE DEF o
<1>7. d \in Clients /\ d.listener = FALSE
  BY <1>4, <1>5, StateKept
<1> HIDE DEF d
<1>8. net \in Nets(Pools(kind))
  BY DEF FailoverInv, FailoverTypeOK
<1>9. net' = Put(Put(net, k, d), k, Released(d))
  <2>1. Put(net, k, d).cl[k] = d
    BY <1>8 DEF Put, Nets
  <2> QED BY <1>6, <1>7, <2>1 DEF reconnect
<1>10. Gone(Released(d))
  BY <1>7, ReleasedGone
<1>11. PICK r : r = Released(d)
  OBVIOUS
<1> DEFINE f == [[net.cl EXCEPT ![k] = d] EXCEPT ![k] = r]
<1>12. net' = [net EXCEPT !.cl = f]
  BY <1>8, <1>9, <1>11 DEF Put, Nets
<1>13. /\ f \in [Pools(kind) -> Clients]
       /\ \A j \in Pools(kind) : f[j] = IF j = k THEN r ELSE net.cl[j]
  <2>1. r \in Clients
    BY <1>10, <1>11 DEF Gone
  <2> QED BY <1>7, <1>8, <2>1 DEF Nets
<1> HIDE DEF f
<1>14. net' \in Nets(Pools(kind)) /\ net'.cl = f /\ net'.on = FALSE
  BY <1>8, <1>12, <1>13 DEF Nets
<1>15. \A j \in Pools(kind) : Gone(net'.cl[j])
  BY <1>10, <1>11, <1>13, <1>14
<1>16. ResultOnce' /\ Pools(kind') = Pools(kind)
  BY <1>6 DEF FailoverInv, ResultOnce
<1> QED BY <1>6, <1>14, <1>15, <1>16 DEF FailoverInv, FailoverTypeOK

(***************************************************************************)
(* The invariant and what follows                                          *)
(***************************************************************************)

LEMMA FailoverStart == FailoverInit => FailoverInv
<1> SUFFICES ASSUME FailoverInit PROVE FailoverInv
  OBVIOUS
<1>0. kind \in {"single", "failover"}
  BY DEF FailoverInit
<1>1. PICK o \in PoolOptions(kind) : net = NewStrategy([k \in Pools(kind) |-> o])
  BY DEF FailoverInit
<1>2. PoolOptions(kind) \subseteq SUBSET {"socks", "tls", "keepalive"}
  BY <1>0, FailoverAssumption
<1>3. PICK p : p = [k \in Pools(kind) |-> o]
  OBVIOUS
<1>4. p \in [Pools(kind) -> SUBSET {"socks", "tls", "keepalive"}]
  BY <1>2, <1>3
<1>5. InUse(net, Pools(kind), Asked, Open)
  BY <1>0, <1>1, <1>3, <1>4, NewInUse
<1>6. fate = [s \in (IF kind = "single" THEN FShares ELSE {}) |-> [st |-> "new", answers |-> 0]]
  BY DEF FailoverInit
<1>7. [st |-> "new", answers |-> 0] \in Fates
  BY DEF Fates
<1>8. fate \in [(IF kind = "single" THEN FShares ELSE {}) -> Fates]
  BY <1>6, <1>7
<1>9. ResultOnce
  BY <1>6 DEF ResultOnce
<1> QED BY <1>0, <1>5, <1>8, <1>9 DEF FailoverInv, FailoverTypeOK, InUse

LEMMA FailoverStep == FailoverInv /\ [FailoverNext]_failoverVars => FailoverInv'
<1> SUFFICES ASSUME FailoverInv, [FailoverNext]_failoverVars PROVE FailoverInv'
  OBVIOUS
<1>0. /\ kind \in {"single", "failover"} /\ 0 \in Pools(kind)
      /\ net \in Nets(Pools(kind)) /\ DOMAIN net.cl = Pools(kind)
  BY PoolIds DEF FailoverInv, FailoverTypeOK, Nets
<1>1. CASE StrategyConnect \/ StrategyStop \/ StrategyDelete \/ StrategyCreate
  BY <1>1, MapperInv
<1>2. ASSUME NEW s \in DOMAIN fate, NEW ok \in BOOLEAN, StrategySubmit(s, ok)
      PROVE  FailoverInv'
  <2>1. net.on = TRUE
    BY <1>0, <1>2 DEF StrategySubmit, Nets
  <2>2. InUse(net, Pools(kind), Asked, Open)
    BY <2>1 DEF FailoverInv
  <2> QED BY <1>2, <2>2, SubmitInv
<1>3. ASSUME NEW k \in DOMAIN net.cl, Callback(k)
      PROVE  FailoverInv'
  <2>1. k \in Pools(kind)
    BY <1>0
  <2>2. CASE InUse(net, Pools(kind), Asked, Open)
    BY <1>0, <1>3, <2>1, <2>2, CallbackInUse, SharesKept, AnswerInv
  <2>3. CASE net.on = FALSE /\ \A j \in Pools(kind) : Gone(net.cl[j])
    BY <1>3, <2>1, <2>3, GoneCallback
  <2> QED BY <2>2, <2>3 DEF FailoverInv
<1>4. CASE UNCHANGED failoverVars
  <2>1. kind' = kind /\ net' = net /\ fate' = fate
    BY <1>4 DEF failoverVars
  <2>2. Asked' = Asked /\ Open' = Open /\ ResultOnce' /\ Pools(kind') = Pools(kind)
    BY <2>1 DEF FailoverInv, Asked, Open, ResultOnce
  <2> QED BY <2>1, <2>2 DEF FailoverInv, FailoverTypeOK
<1> QED BY <1>1, <1>2, <1>3, <1>4 DEF FailoverNext

\* FailoverInv is an invariant of the strategies, so every client keeps its type.
THEOREM FailoverInvariance == FailoverSpec => []FailoverInv
<1> QED BY FailoverStart, FailoverStep, PTL DEF FailoverSpec

\* A share is answered at most once, and never after submit() returned -1, for any
\* number of shares and answers, however often pools repeat an answer, connections
\* are replaced and strategies deleted (BaseClient::handleSubmitResponse,
\* Client::login, Client::send).
THEOREM ResultOnceTheorem == FailoverSpec => []ResultOnce
<1>1. FailoverInv => ResultOnce
  BY DEF FailoverInv
<1> QED BY <1>1, FailoverInvariance, PTL

\* Whatever each of any number of clients was doing when the strategy was deleted,
\* it is released or its socket is being closed (Client::deleteLater, reconnect,
\* FailoverStrategy::~FailoverStrategy).
THEOREM DeletedReleasedTheorem == FailoverSpec => []DeletedReleased
<1>1. FailoverInv => DeletedReleased
  <2> SUFFICES ASSUME FailoverInv, NEW k \in DOMAIN net.cl, ~ net.cl[k].listener
               PROVE  net.cl[k].released \/ net.cl[k].sock.st = "closing"
    BY DEF DeletedReleased
  <2>1. k \in Pools(kind)
    BY DEF FailoverInv, FailoverTypeOK, Nets
  <2>2. ~ Live(net.cl[k], Asked, Open)
    BY DEF Live
  <2>3. Gone(net.cl[k])
    BY <2>1, <2>2 DEF FailoverInv, InUse
  <2> QED BY <2>3 DEF Gone
<1> QED BY <1>1, FailoverInvariance, PTL

\* Only a strategy that is not deleted is connected, and its clients are then all
\* in use (FailoverStrategy::connect, stop, ~FailoverStrategy; SinglePoolStrategy's).
THEOREM ConnectedInUse == FailoverSpec => [](net.on => Alive)
<1>1. FailoverInv => (net.on => Alive)
  <2> SUFFICES ASSUME FailoverInv, net.on PROVE Alive
    OBVIOUS
  <2>1. InUse(net, Pools(kind), Asked, Open) /\ DOMAIN net.cl = Pools(kind)
    BY DEF FailoverInv, FailoverTypeOK, Nets
  <2> QED BY <2>1 DEF Alive, InUse, Live
<1> QED BY <1>1, FailoverInvariance, PTL
=============================================================================
