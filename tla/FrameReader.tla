---------------------------- MODULE FrameReader ----------------------------
(***************************************************************************)
(* The two readers of length-prefixed frames: RandomXVerifier::parseFrames *)
(* (a length, then a JSON document) and DaemonTemplateSource::readZmq (the *)
(* greeting and READY of ZMTP, then messages of one or more frames).  A    *)
(* stream is what the peer sends on a connection, and may arrive in any    *)
(* chunks.  A buffer is the part of the stream between two positions.      *)
(***************************************************************************)
EXTENDS Integers, SequencesExt

CONSTANTS
    FrameStreams,       \* what a peer may send on a connection
    kMaxFrameSize,
    kMaxZmqMessage,
    kZmqGreetingSize1,  \* bytes until the greeting shows its version
    kZmqGreeting,       \* bytes of the whole greeting
    kZmqReady           \* bytes of READY that are compared

ASSUME FrameReaderAssumption ==
    /\ \A n \in {kMaxFrameSize, kMaxZmqMessage, kZmqReady} : n \in Nat \ {0}
    /\ kZmqGreetingSize1 \in Nat /\ kZmqGreeting \in Nat /\ 0 < kZmqGreetingSize1 /\ kZmqGreetingSize1 < kZmqGreeting

VARIABLES
    stream,     \* to: the reader; frames; for ZMQ also whether version, mechanism,
                \* the flags of READY (command) and its text are accepted, and its size
    framer      \* used and taken: positions of the first and after the last byte
                \* of the buffer; phase: m_zmqState, or m_connected; told: frames
                \* given to handleFrame, or calls of notifyZmq; failed: a write did

frameVars == <<stream, framer>>

Closed == "disconnected"

\* The bytes before the length of a frame's body.
FrameHeader(f) == IF stream.to = "verifier" THEN 4 ELSE IF f.long THEN 9 ELSE 2

\* The bytes of a stream before its i-th frame.
Before(i) ==
    LET size(n, f) == n + FrameHeader(f) + f.size
        hello == IF stream.to = "verifier" THEN 0 ELSE kZmqGreeting + 2 + stream.readySize
    IN  FoldLeft(size, hello, SubSeq(stream.frames, 1, i - 1))

\* What is read as a frame at a position between two frames of the stream is
\* no frame of the peer: it is shown as one that no reader accepts.
NoFrame == [size |-> kMaxFrameSize + kMaxZmqMessage, closes |-> FALSE, more |-> FALSE, long |-> FALSE, command |-> FALSE]
FrameAt(p) ==
    IF \E i \in DOMAIN stream.frames : Before(i) = p
    THEN stream.frames[CHOOSE i \in DOMAIN stream.frames : Before(i) = p] ELSE NoFrame

\* Mutant: the rest of the last connection stays in the buffer.
closeFramesKeeps(s) == [s EXCEPT !.phase = Closed]

\* disconnect and closeZmq.
closeFrames(s) == [s EXCEPT !.phase = Closed, !.used = s.taken]

Framers ==
    [used : Int, taken : Int, told : Nat, failed : BOOLEAN,
     phase : {"greeting1", "greeting2", "handshake", "connected", Closed}]

\* parseFrames: a loop whose handleFrame may disconnect.
parseFrames(framing) ==
    LET parsed[s \in Framers] ==
            LET size == s.taken - s.used
                f == FrameAt(s.used)
                handled == [s EXCEPT !.told = s.told + 1, !.used = s.used + 4 + f.size]
            IN  IF size < 4 THEN s
                ELSE IF f.size = 0 \/ f.size > kMaxFrameSize THEN closeFrames(s)
                ELSE IF size < 4 + f.size THEN s
                ELSE IF f.closes THEN closeFrames(handled)
                ELSE parsed[handled]
    IN  parsed[framing]

Outcome(is, offset, data) == [is |-> is, offset |-> offset, data |-> data]

\* Mutant: every frame is a message.
parseZmqMessageAlone(s) ==
    LET left == s.taken - s.used
        f == FrameAt(s.used)
    IN  IF left < 2 \/ left < FrameHeader(f) THEN Outcome("wait", 0, 0)
        ELSE IF f.size > kMaxZmqMessage THEN Outcome("close", 0, 0)
        ELSE IF f.size > left - FrameHeader(f) THEN Outcome("wait", 0, 0)
        ELSE Outcome("done", FrameHeader(f) + f.size, IF f.command THEN 0 ELSE f.size)

\* parseZmqMessage: a loop over the frames, with offset and dataSize.  Nothing
\* is taken from the buffer before the last frame of a message is there.
parseZmqMessage(s) ==
    LET parsed[offset \in Nat, data \in Nat] ==
            LET left == s.taken - s.used - offset
                f == FrameAt(s.used + offset)
                next == offset + FrameHeader(f) + f.size
                sum == IF f.command THEN data ELSE data + f.size
            IN  IF left < 2 \/ left < FrameHeader(f) THEN Outcome("wait", 0, 0)
                ELSE IF f.size > kMaxZmqMessage \/ data > kMaxZmqMessage - f.size THEN Outcome("close", 0, 0)
                ELSE IF f.size > left - FrameHeader(f) THEN Outcome("wait", 0, 0)
                ELSE IF f.more THEN parsed[next, sum]
                ELSE Outcome("done", next, sum)
    IN  parsed[0, 0]

\* writeZmq, and then the next state.
writeZmq(s, fails, phase) ==
    IF phase = fails THEN [closeFrames(s) EXCEPT !.failed = TRUE] ELSE [s EXCEPT !.phase = phase]

\* The loop of readZmq; a write that is to lead to the state in fails is not
\* complete.  The greeting leaves the buffer as a whole.
readZmq(framing, fails) ==
    LET readOn[s \in Framers] ==
            LET size == s.taken - s.used
            IN  CASE s.phase = "greeting1" ->
                       IF size < kZmqGreetingSize1 THEN s
                       ELSE IF ~stream.version THEN closeFrames(s)
                       ELSE readOn[writeZmq(s, fails, "greeting2")]
                  [] s.phase = "greeting2" ->
                       IF size < kZmqGreeting THEN s
                       ELSE IF ~stream.mechanism THEN closeFrames(s)
                       ELSE readOn[writeZmq([s EXCEPT !.used = s.used + kZmqGreeting], fails, "handshake")]
                  [] s.phase = "handshake" ->
                       IF size < 2 THEN s
                       ELSE IF ~stream.command \/ stream.readySize < kZmqReady THEN closeFrames(s)
                       ELSE IF size < 2 + stream.readySize THEN s
                       ELSE IF ~stream.ready THEN closeFrames(s)
                       ELSE readOn[writeZmq([s EXCEPT !.used = s.used + 2 + stream.readySize], fails, "connected")]
                  [] s.phase = "connected" ->
                       LET m == parseZmqMessage(s)
                           rest == [s EXCEPT !.used = s.used + m.offset]
                       IN  IF m.is = "wait" THEN s
                           ELSE IF m.is = "close" THEN closeFrames(s)
                           ELSE readOn[IF m.data > 0 THEN [rest EXCEPT !.told = s.told + 1] ELSE rest]
                  [] s.phase = Closed -> s
    IN  readOn[framing]

\* onRead of either, with n bytes.
Receive(n, fails) ==
    LET s == [framer EXCEPT !.taken = framer.taken + n]
    IN  /\ framer.phase # Closed
        /\ framer' = IF stream.to = "verifier" THEN parseFrames(s) ELSE readZmq(s, fails)
        /\ UNCHANGED stream

\* onRead with the end of the stream, or an error.
EndOfStream ==
    /\ framer.phase # Closed
    /\ framer' = closeFrames(framer)
    /\ UNCHANGED stream

\* RandomXVerifier::onConnect and DaemonTemplateSource::onZmqConnect: the same
\* buffer, whose bytes count from the start of the new stream.
NewStream(s, leftover) ==
    /\ stream' = s
    /\ framer' = [used |-> 0 - leftover, taken |-> 0, told |-> 0, failed |-> FALSE,
                  phase |-> IF s.to = "verifier" THEN "connected" ELSE "greeting1"]

Reconnect ==
    /\ framer.phase = Closed
    /\ \E s \in FrameStreams : s.to = stream.to /\ NewStream(s, framer.taken - framer.used)

StreamEnd == Before(Len(stream.frames) + 1)

FrameIdle ==
    /\ stream = [to |-> "verifier", frames |-> <<>>]
    /\ framer = [used |-> 0, taken |-> 0, told |-> 0, failed |-> FALSE, phase |-> Closed]

FrameInit ==
    /\ stream \in FrameStreams
    /\ framer = [used |-> 0, taken |-> 0, told |-> 0, failed |-> FALSE,
                 phase |-> IF stream.to = "verifier" THEN "connected" ELSE "greeting1"]

FrameNext ==
    \/ EndOfStream \/ Reconnect
    \/ \E n \in 1..(StreamEnd - framer.taken), fails \in {"none", "greeting2", "handshake", "connected"} :
          Receive(n, fails)

(***************************************************************************)
(* Properties                                                              *)
(***************************************************************************)

\* The first frame of the message that frame i is part of, and the data of the
\* message up to frame j.
FirstOf(i) == CHOOSE k \in 1..i : (k = 1 \/ ~stream.frames[k - 1].more) /\ \A m \in k..(i - 1) : stream.frames[m].more
DataOf(i, j) ==
    LET add(n, f) == IF f.command THEN n ELSE n + f.size
    IN  FoldLeft(add, 0, SubSeq(stream.frames, i, j))

HelloGood == stream.version /\ stream.mechanism /\ stream.command /\ stream.ready /\ stream.readySize >= kZmqReady

\* Frames that must not be read on from, at their length or when they are whole.
Refused(i) ==
    LET f == stream.frames[i]
    IN  IF stream.to = "verifier" THEN f.size = 0 \/ f.size > kMaxFrameSize
        ELSE f.size + DataOf(FirstOf(i), i - 1) > kMaxZmqMessage
Whole(i) == Before(i + 1) <= framer.taken
Ends(i) == stream.to = "verifier" /\ stream.frames[i].closes

\* The messages that the bytes received so far hold, until one that ends it.
Due ==
    {i \in DOMAIN stream.frames :
        /\ Whole(i) /\ \A k \in 1..i : ~Refused(k) /\ (k < i => ~Ends(k))
        /\ stream.to = "zmq" => HelloGood /\ ~stream.frames[i].more /\ DataOf(FirstOf(i), i) > 0}

\* The bytes received so far hold something that ends the connection.
Ended ==
    \/ \E i \in DOMAIN stream.frames :
          /\ \A k \in 1..(i - 1) : ~Refused(k)
          /\ \/ Refused(i) /\ framer.taken >= Before(i) + FrameHeader(stream.frames[i])
             \/ Ends(i) /\ Whole(i)
    \/ /\ stream.to = "zmq"
       /\ \/ ~stream.version /\ framer.taken >= kZmqGreetingSize1
          \/ ~stream.mechanism /\ framer.taken >= kZmqGreeting
          \/ (~stream.command \/ stream.readySize < kZmqReady) /\ framer.taken >= kZmqGreeting + 2
          \/ ~stream.ready /\ framer.taken >= kZmqGreeting + 2 + stream.readySize

\* However a stream is cut into chunks, and whatever an earlier connection
\* left, each frame for the verifier's client and each announcement of a block
\* counts once, when its last byte is there and not before, and a connection
\* that broke the protocol is closed as soon as that shows
\* (RandomXVerifier::parseFrames, DaemonTemplateSource::readZmq).
FramesExact ==
    /\ ~framer.failed => framer.told = Cardinality(Due)
    /\ framer.phase # Closed => ~Ended
=============================================================================
