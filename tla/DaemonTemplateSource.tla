------------------------ MODULE DaemonTemplateSource ------------------------
(***************************************************************************)
(* One DaemonTemplateSource (base/net/stratum/DaemonTemplateSource.cpp):   *)
(* the block template cache shared by the clients of a daemon.  It fetches *)
(* templates over HTTP when it starts and periodically, and earlier when a *)
(* ZMQ notification followed by a /getheight check shows a new tip.        *)
(* A chain tip is the number of tip changes so far: the code compares tip  *)
(* hashes only for equality.  The RPC side of the daemon may learn of a    *)
(* tip after the ZMQ side has published it.  Times are abstracted to which *)
(* timers are armed.                                                       *)
(***************************************************************************)
EXTENDS Integers, Sequences

CONSTANTS
    UseZmq,                 \* the pool has a zmq_port
    kMaxZmqHeightRetries,
    MaxTips,                \* bound: tips the daemon reaches
    MaxFailures             \* bound: failed requests and ZMQ failures

ASSUME SourceAssumption ==
    /\ UseZmq \in BOOLEAN
    /\ kMaxZmqHeightRetries \in Nat
    /\ MaxTips \in Nat \ {0} /\ MaxFailures \in Nat

VARIABLES
    src,                    \* the source's request, retry and timer state
    zmq,                    \* m_zmqState, and whether DNS is being asked
    unread,                 \* notifications published and not yet read
    tip, rpcTip,            \* the daemon's chain tip and what its RPC reports
    rpcLags,                \* this daemon's RPC may trail the published tip
    failures,
    announced,              \* history: newest tip a read notification was for
    excused                 \* history: newest announced tip the source gave up

vars == <<src, zmq, unread, tip, rpcTip, rpcLags, failures, announced, excused>>

Tips == 0..MaxTips
Reasons == {"initial", "timer", "zmq"}

SourceState ==
    [shutdown : BOOLEAN, latest : Tips,
     timer : BOOLEAN, zmqTimer : BOOLEAN,
     templateInFlight : BOOLEAN, templateFrom : Tips,
     templatePending : BOOLEAN, pendingReason : Reasons,
     heightInFlight : BOOLEAN, heightFrom : Tips, heightFollowup : BOOLEAN,
     heightPending : BOOLEAN, heightRetryFollowup : BOOLEAN,
     zmqHeightRetries : 0..kMaxZmqHeightRetries]

\* The stages of the ZMQ connection, in order.
Stages == <<"resolving", "connecting", "greeting1", "greeting2", "handshake", "connected">>

-----------------------------------------------------------------------------
(* Requests                                                                *)

reasonPriority(reason) ==
    CASE reason = "zmq" -> 3 [] reason = "initial" -> 2 [] reason = "timer" -> 1

\* One template request at a time: the next one waits with its best reason.
requestTemplate(s, reason) ==
    IF s.templateInFlight
    THEN [s EXCEPT !.templatePending = TRUE,
                   !.pendingReason =
                       IF ~ s.templatePending
                          \/ reasonPriority(reason) > reasonPriority(s.pendingReason)
                       THEN reason ELSE s.pendingReason]
    ELSE [s EXCEPT !.templateInFlight = TRUE, !.templateFrom = rpcTip]

\* A height check waits for the template being fetched: it is compared with it.
requestHeight(s, followup) ==
    IF s.heightInFlight \/ s.templateInFlight
    THEN [s EXCEPT !.heightPending = TRUE]
    ELSE [s EXCEPT !.heightInFlight = TRUE, !.heightFrom = rpcTip,
                   !.heightFollowup = followup]

drainHeightQueue(s, coveredByTemplate) ==
    IF ~ s.heightPending \/ s.heightInFlight \/ s.templateInFlight
    THEN s
    ELSE requestHeight([s EXCEPT !.heightPending = FALSE], coveredByTemplate)

\* A waiting periodic refresh is dropped while the last success is recent.
drainTemplateQueue(s, recent) ==
    IF ~ s.templatePending \/ s.templateInFlight
    THEN s
    ELSE LET idle == [s EXCEPT !.templatePending = FALSE, !.pendingReason = "timer"]
         IN  IF s.pendingReason = "timer" /\ s.latest # 0 /\ recent
             THEN idle
             ELSE requestTemplate(idle, s.pendingReason)

-----------------------------------------------------------------------------
(* Answers                                                                 *)

\* onHttpData, a valid getblocktemplate result built on tip t.
installTemplate(s, t) ==
    LET installed == [s EXCEPT !.templateInFlight = FALSE, !.latest = t, !.timer = TRUE]
    IN  drainHeightQueue(drainTemplateQueue(installed, TRUE), s.latest # t)

\* Mutation: a failed request leaves the next one to the old timer.
failTemplate_NoTimer(s, recent) ==
    drainHeightQueue(drainTemplateQueue([s EXCEPT !.templateInFlight = FALSE], recent), FALSE)

failTemplate(s, recent) ==
    LET drained == drainHeightQueue(
                       drainTemplateQueue([s EXCEPT !.templateInFlight = FALSE], recent), FALSE)
    IN  IF drained.templateInFlight \/ drained.templatePending
        THEN drained
        ELSE [drained EXCEPT !.timer = TRUE]

\* The retry timer is stopped and the retry count starts again.
resetRetries(s) == [s EXCEPT !.zmqTimer = FALSE, !.zmqHeightRetries = 0,
                             !.heightRetryFollowup = FALSE]

\* One more retry: as a follow-up check or not.
retry(s, followup) == [s EXCEPT !.zmqTimer = TRUE,
                                !.zmqHeightRetries = s.zmqHeightRetries + 1,
                                !.heightRetryFollowup = followup]

outOfRetries(s) == s.zmqHeightRetries + 1 > kMaxZmqHeightRetries

giveUp(s) == [s EXCEPT !.zmqHeightRetries = 0, !.heightRetryFollowup = FALSE]

\* The answered or failed height request is no longer in flight.
heightDone(s) == [s EXCEPT !.heightInFlight = FALSE, !.heightFollowup = FALSE,
                           !.heightPending = FALSE]

\* Mutation: a notification read during the last check is forgotten.
checkHeight_ForgetsPending(s, t) ==
    LET done == heightDone(s)
    IN  IF s.latest # 0 /\ t = s.latest
        THEN CASE s.heightFollowup -> resetRetries(done)
               [] ~ s.heightFollowup /\ ~ outOfRetries(s) -> retry(done, FALSE)
               [] ~ s.heightFollowup /\ outOfRetries(s) -> giveUp(done)
        ELSE requestTemplate(resetRetries(done), "zmq")

\* onHttpData, a valid /getheight result naming tip t.
checkHeight(s, t) ==
    LET done == heightDone(s)
    IN  IF s.latest # 0 /\ t = s.latest
        THEN CASE s.heightFollowup ->
                      [resetRetries(done) EXCEPT !.zmqTimer = s.heightPending,
                                                 !.heightRetryFollowup = s.heightPending]
               [] ~ s.heightFollowup /\ ~ outOfRetries(s) -> retry(done, FALSE)
               [] ~ s.heightFollowup /\ outOfRetries(s) -> giveUp(done)
        ELSE requestTemplate([resetRetries(done) EXCEPT !.heightPending = s.heightPending], "zmq")

failHeight(s) ==
    IF outOfRetries(s) THEN giveUp(heightDone(s)) ELSE retry(heightDone(s), s.heightFollowup)

-----------------------------------------------------------------------------
(* The source                                                              *)

\* What startZmq leaves: the name may be in the DNS cache.  A cached failure
\* is a resolution that fails at once.
startZmq(z) == IF UseZmq /\ z = "disconnected" THEN {"resolving", "connecting"} ELSE {z}

\* A source as constructed.
Constructed ==
    [shutdown |-> FALSE, latest |-> 0, timer |-> FALSE, zmqTimer |-> FALSE,
     templateInFlight |-> FALSE, templateFrom |-> 0,
     templatePending |-> FALSE, pendingReason |-> "timer",
     heightInFlight |-> FALSE, heightFrom |-> 0, heightFollowup |-> FALSE,
     heightPending |-> FALSE, heightRetryFollowup |-> FALSE, zmqHeightRetries |-> 0]

start(s) == requestTemplate([s EXCEPT !.timer = TRUE], "initial")

\* acquire starts the source it constructs before anyone else sees it.
Init ==
    /\ tip = 1 /\ rpcTip = 1 /\ rpcLags \in BOOLEAN
    /\ src = start(Constructed)
    /\ zmq \in startZmq("disconnected") /\ unread = <<>>
    /\ failures = 0 /\ announced = 0 /\ excused = 0

\* The reply shows the RPC's tip at some moment since the request was sent.
TemplateReply ==
    /\ src.templateInFlight /\ ~ src.shutdown
    /\ \E t \in src.templateFrom..rpcTip : src' = installTemplate(src, t)
    /\ UNCHANGED <<zmq, unread, tip, rpcTip, rpcLags, failures, announced, excused>>

\* An HTTP error, a timeout, or a reply that is not a usable template.
TemplateFails ==
    /\ src.templateInFlight /\ ~ src.shutdown
    /\ failures < MaxFailures /\ failures' = failures + 1
    /\ \E recent \in BOOLEAN : src' = failTemplate(src, recent)
    /\ excused' = announced
    /\ UNCHANGED <<zmq, unread, tip, rpcTip, rpcLags, announced>>

HeightReply ==
    /\ src.heightInFlight /\ ~ src.shutdown
    /\ \E t \in src.heightFrom..rpcTip :
         /\ src' = checkHeight(src, t)
         /\ excused' = IF t = src.latest /\ ~ src.heightFollowup /\ outOfRetries(src)
                       THEN announced ELSE excused
    /\ UNCHANGED <<zmq, unread, tip, rpcTip, rpcLags, failures, announced>>

HeightFails ==
    /\ src.heightInFlight /\ ~ src.shutdown
    /\ failures < MaxFailures /\ failures' = failures + 1
    /\ src' = failHeight(src)
    /\ excused' = IF outOfRetries(src) THEN announced ELSE excused
    /\ UNCHANGED <<zmq, unread, tip, rpcTip, rpcLags, announced>>

\* Mutation: the periodic timer only refreshes the template.
PeriodicTimer_NoZmq ==
    /\ src.timer
    /\ src' = requestTemplate([src EXCEPT !.timer = FALSE], "timer")
    /\ UNCHANGED <<zmq, unread, tip, rpcTip, rpcLags, failures, announced, excused>>

\* onTimer for m_timer: also the only place a lost ZMQ connection is replaced.
PeriodicTimer ==
    /\ src.timer
    /\ zmq' \in startZmq(zmq)
    /\ src' = requestTemplate([src EXCEPT !.timer = FALSE], "timer")
    /\ UNCHANGED <<unread, tip, rpcTip, rpcLags, failures, announced, excused>>

\* onTimer for m_zmqTimer.
ZmqRetryTimer ==
    /\ src.zmqTimer
    /\ src' = requestHeight([src EXCEPT !.zmqTimer = FALSE], src.heightRetryFollowup)
    /\ UNCHANGED <<zmq, unread, tip, rpcTip, rpcLags, failures, announced, excused>>

notifyZmq ==
    /\ unread # <<>>
    /\ unread' = Tail(unread)
    /\ announced' = Head(unread)
    /\ src' = requestHeight(resetRetries(src), FALSE)
    /\ UNCHANGED <<zmq, tip, rpcTip, rpcLags, failures, excused>>

\* onResolved, onZmqConnect and readZmq: one stage of the connection succeeds.
ZmqProgress ==
    /\ \E n \in 1..(Len(Stages) - 1) : zmq = Stages[n] /\ zmq' = Stages[n + 1]
    /\ UNCHANGED <<src, unread, tip, rpcTip, rpcLags, failures, announced, excused>>

\* A failed lookup, connect, write, read or handshake ends in closeZmq; what
\* was received and not yet parsed goes with the connection.
closeZmq ==
    /\ zmq # "disconnected"
    /\ failures < MaxFailures /\ failures' = failures + 1
    /\ zmq' = "disconnected" /\ unread' = <<>>
    /\ UNCHANGED <<src, tip, rpcTip, rpcLags, announced, excused>>

\* Handles, timers, listeners and the cached template are dropped.
shutdown ==
    /\ ~ src.shutdown
    /\ src' = [src EXCEPT !.shutdown = TRUE, !.latest = 0,
                          !.timer = FALSE, !.zmqTimer = FALSE, !.templatePending = FALSE,
                          !.heightFollowup = FALSE, !.heightPending = FALSE,
                          !.heightRetryFollowup = FALSE]
    /\ zmq' = "disconnected" /\ unread' = <<>>
    /\ UNCHANGED <<tip, rpcTip, rpcLags, failures, announced, excused>>

\* The daemon adopts a new tip and publishes it to a subscribed socket.
NewTip ==
    /\ tip < MaxTips
    /\ tip' = tip + 1
    /\ rpcTip' = IF rpcLags THEN rpcTip ELSE tip + 1
    /\ unread' = IF zmq = "connected" THEN Append(unread, tip + 1) ELSE unread
    /\ UNCHANGED <<src, zmq, rpcLags, failures, announced, excused>>

RpcCatchesUp ==
    /\ rpcTip < tip
    /\ rpcTip' = rpcTip + 1
    /\ UNCHANGED <<src, zmq, unread, tip, rpcLags, failures, announced, excused>>

Next ==
    \/ TemplateReply \/ TemplateFails \/ HeightReply \/ HeightFails
    \/ PeriodicTimer \/ ZmqRetryTimer \/ notifyZmq \/ ZmqProgress \/ closeZmq
    \/ shutdown \/ NewTip \/ RpcCatchesUp

Spec == Init /\ [][Next]_vars

\* Every request ends in a reply or a failure, armed timers fire, and the
\* RPC side catches up.  Nothing is assumed of ZMQ.
Fairness ==
    /\ WF_vars(TemplateReply \/ TemplateFails)
    /\ WF_vars(HeightReply \/ HeightFails)
    /\ WF_vars(PeriodicTimer) /\ WF_vars(ZmqRetryTimer)
    /\ WF_vars(RpcCatchesUp)

LiveSpec == Spec /\ Fairness

-----------------------------------------------------------------------------
(* Properties                                                              *)

\* The types of the state, with the retry count within its limit.
TypeOK ==
    /\ src \in SourceState
    /\ zmq \in {Stages[n] : n \in 1..Len(Stages)} \cup {"disconnected"}
    /\ unread \in Seq(Tips)
    /\ tip \in Tips /\ rpcTip \in Tips /\ rpcTip <= tip /\ rpcLags \in BOOLEAN
    /\ failures \in 0..MaxFailures
    /\ announced \in Tips /\ excused \in Tips

\* The timer chain never breaks: whatever fails or waits, a running source has
\* its single-shot periodic timer armed or a template request whose end arms it.
NeverStalls == ~ src.shutdown => src.timer \/ src.templateInFlight

\* No queued request is forgotten: a waiting template waits for a template in
\* flight, a waiting height check for a request whose end starts it.
QueuesDrain ==
    /\ src.templatePending => src.templateInFlight
    /\ src.heightPending => src.heightInFlight \/ src.templateInFlight

\* A notification leads to a template if the daemon's RPC knows every published
\* tip: until the announced tip is cached, or the retries ran out or the refresh
\* failed, a check or a refresh is under way, however the notification
\* interleaves with the requests in flight.
NotificationPursued ==
    ~ rpcLags /\ ~ src.shutdown /\ announced > src.latest /\ announced > excused
        => src.heightInFlight \/ src.zmqTimer \/ src.templateInFlight

\* Every tip is eventually mined on, with or without ZMQ: failed requests are
\* repeated until one succeeds.
CatchesUp ==
    \A t \in 1..MaxTips : (tip >= t) ~> (src.latest >= t \/ src.shutdown)

\* A lost or failed ZMQ connection is replaced while the source runs, if each
\* stage of a connection attempt ends: onTimer calls startZmq until it holds.
ZmqReconnects ==
    WF_vars(ZmqProgress \/ closeZmq) => (UseZmq ~> (zmq = "connected" \/ src.shutdown))
=============================================================================
