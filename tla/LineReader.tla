----------------------------- MODULE LineReader -----------------------------
(***************************************************************************)
(* LineReader: the bytes of a connection, in whatever chunks they arrive,  *)
(* are given to the listener as lines.  Bytes are their positions in the   *)
(* stream, so a line that is delivered says exactly which bytes it holds.  *)
(***************************************************************************)
EXTENDS Integers, SequencesExt

CONSTANTS
    StreamLength,   \* bytes that the peer sends
    MaxPayload      \* XMRIG_NET_BUFFER_CHUNK_SIZE - 1

ASSUME LineReaderAssumption == StreamLength \in Nat /\ MaxPayload \in Nat \ {0}

VARIABLES
    newlines,   \* the positions of '\n' in the bytes taken
    taken,      \* bytes given to parse()
    reader      \* buf is m_buf up to m_pos; overflow; lines given to onLine();
                \* open: the caller closes when parse() returns false

lineVars == <<newlines, taken, reader>>

Bytes(a, b) == [i \in 1..(b - a + 1) |-> a + i - 1]

\* Mutant: the terminator of a full buffer is counted.
addStrict(r, data) ==
    IF r.overflow \/ Len(r.buf) + Len(data) >= MaxPayload
    THEN [r EXCEPT !.buf = <<>>, !.overflow = TRUE, !.valid = FALSE]
    ELSE [r EXCEPT !.buf = r.buf \o data]

\* add: false when the bytes do not fit with what is buffered.
add(r, data) ==
    IF r.overflow \/ Len(r.buf) + Len(data) > MaxPayload
    THEN [r EXCEPT !.buf = <<>>, !.overflow = TRUE, !.valid = FALSE]
    ELSE [r EXCEPT !.buf = r.buf \o data]

\* One turn of the loop of getline, for the line that ends at p.  Nothing that
\* follows a line which is too long is looked at.
lineEnd(r, p) ==
    LET data == Bytes(r.start, p - 1)
        kept == add(r, data)
        next == [r EXCEPT !.start = p + 1]
    IN  IF ~r.valid THEN r
        ELSE IF r.overflow THEN [r EXCEPT !.overflow = FALSE, !.valid = FALSE]
        ELSE IF r.buf # <<>>
             THEN IF kept.valid THEN [next EXCEPT !.lines = Append(r.lines, kept.buf), !.buf = <<>>]
                  ELSE [kept EXCEPT !.overflow = FALSE]
        ELSE IF data = <<>> THEN next
        ELSE IF Len(data) > MaxPayload THEN [r EXCEPT !.valid = FALSE]
        ELSE [next EXCEPT !.lines = Append(r.lines, data)]

\* getline: the chunk holds the bytes from a to b, with '\n' at nl.  What is left
\* after the last line is buffered; the buffer is reset when nothing is left.
getline(r, a, b, nl) ==
    LET ends == SetToSortSeq(nl, <)
        done == FoldLeft(lineEnd, [start |-> a, valid |-> TRUE] @@ r, ends)
    IN  IF ~done.valid THEN done
        ELSE IF done.start > b THEN [done EXCEPT !.buf = <<>>, !.overflow = FALSE]
        ELSE add(done, Bytes(done.start, b))

NewReader == [buf |-> <<>>, overflow |-> FALSE, lines |-> <<>>, open |-> TRUE]

\* parse, by a caller that closes the connection when it returns false
\* (Client::read, Miner::onRead, Tls::read).
Parse(n, nl) ==
    LET r == getline(reader, taken + 1, taken + n, nl)
    IN  /\ reader.open
        /\ taken' = taken + n
        /\ newlines' = newlines \cup nl
        /\ reader' = [buf |-> r.buf, overflow |-> r.overflow, lines |-> r.lines, open |-> r.valid]

\* Mutant: what was left of the last connection is still in the buffer.
resetNothing(r) == r

\* reset: nothing is kept of the last connection.
reset(r) == [r EXCEPT !.buf = <<>>, !.overflow = FALSE]

\* Client::resolve: the same reader serves the next connection, whose bytes
\* count from 1 again.
NextConnection ==
    /\ ~reader.open \/ taken = StreamLength
    /\ newlines' = {} /\ taken' = 0
    /\ reader' = [reset(reader) EXCEPT !.lines = <<>>, !.open = TRUE]

LineInit == newlines = {} /\ taken = 0 /\ reader = NewReader

LineNext ==
    \/ NextConnection
    \/ \E n \in 1..(StreamLength - taken) : \E nl \in SUBSET ((taken + 1)..(taken + n)) : Parse(n, nl)

(***************************************************************************)
(* Properties                                                              *)
(***************************************************************************)

\* The lines of the stream whose end was read, without the empty ones.
CompleteLines ==
    LET prev(p) == IF \E q \in newlines : q < p
                   THEN CHOOSE q \in newlines : q < p /\ \A o \in newlines : o < p => o <= q
                   ELSE 0
        ends == SetToSortSeq({p \in newlines : p <= taken /\ prev(p) + 1 < p}, <)
    IN  [i \in 1..Len(ends) |-> Bytes(prev(ends[i]) + 1, ends[i] - 1)]

Fits(line) == Len(line) <= MaxPayload

\* However the stream is cut into chunks, what the listener gets are the lines
\* of the stream, whole and in order, up to the first that does not fit; and
\* the connection is open only if every line so far fits (LineReader::getline,
\* add, with the state that a chunk leaves for the next).
FramingExact ==
    LET good == SelectInSeq(CompleteLines, LAMBDA l : ~Fits(l))
        last == IF \E p \in newlines : p <= taken
                THEN CHOOSE p \in newlines : p <= taken /\ \A o \in newlines : o <= taken => o <= p
                ELSE 0
    IN  /\ reader.lines = IF good = 0 THEN CompleteLines ELSE SubSeq(CompleteLines, 1, good - 1)
        /\ reader.open <=> good = 0 /\ taken - last <= MaxPayload
=============================================================================
