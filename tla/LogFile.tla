------------------------------- MODULE LogFile -------------------------------
(***************************************************************************)
(* The log files: FileLogWriter, which keeps lines until the loop runs and *)
(* writes each at a place of its own, with the log of messages             *)
(* (Log::print, FileLog) and the log of miners (AccessLog) that use it.    *)
(* Writes are carried out by threads of libuv, in any order.               *)
(***************************************************************************)
EXTENDS Integers, SequencesExt

CONSTANTS
    AMiners,        \* miners that connect
    LineSizes,      \* sizes of lines
    MaxLines        \* bound: lines that the file is given

ASSUME LogFileAssumption == LineSizes \subseteq Nat \ {0} /\ MaxLines \in Nat

VARIABLES
    logger,     \* kind: the log of messages or of miners; m_file, m_pos, m_buffers,
                \* and wake: m_flushAsync was sent and on_flush not called yet
    written,    \* the writes of all processes: the line, its place and size, and st
    said,       \* what the file was given so far, in order
    visitors    \* a miner: "new", "mapped" (mapperId() is not -1), "gone"

logVars == <<logger, written, said, visitors>>

NewLogger(kind) == [kind |-> kind, file |-> FALSE, pos |-> 0, buffers |-> <<>>, wake |-> FALSE]

\* st_size of the file: to the end of what was written to it.
FileSize ==
    LET ends == {w.at + w.size : w \in {v \in written : v.st \in {"done", "short"}}} \cup {0}
    IN  CHOOSE e \in ends : \A o \in ends : o <= e

\* open: new lines go behind what is there.
openFile(kind) == [NewLogger(kind) EXCEPT !.file = TRUE, !.pos = FileSize]

\* The start of a proxy, with no miner and nothing left to be written.
Open(opens) ==
    /\ ~logger.file
    /\ \A w \in written : w.st # "going"
    /\ \A m \in AMiners : visitors[m] # "mapped"
    /\ logger' = IF opens THEN openFile(logger.kind) ELSE logger
    /\ UNCHANGED <<written, said, visitors>>

\* write and writeLine: the line is kept, and on_flush asked for.
keepLine(l, line, size) ==
    IF l.file THEN [l EXCEPT !.buffers = Append(l.buffers, [line |-> line, size |-> size]), !.wake = TRUE] ELSE l

\* Mutant: lines with colours are written too.
printFileBoth(l, line, size, colors) == keepLine(l, line, size)

\* FileLog::print
printFile(l, line, size, colors) == IF ~l.file \/ colors THEN l ELSE keepLine(l, line, size)

\* Log::print: every backend gets the text with colours and without.
LogMessage(size) ==
    /\ logger.kind = "messages" /\ logger.file /\ Len(said) < MaxLines
    /\ LET line == <<"message", Len(said) + 1>>
       IN  /\ logger' = printFile(printFile(logger, line, size, TRUE), line, size, FALSE)
           /\ said' = Append(said, line)
    /\ UNCHANGED <<written, visitors>>

\* AccessLog::onEvent; visitors that no splitter took are not logged.
Say(what, m, size) ==
    /\ logger' = keepLine(logger, <<what, m>>, size)
    /\ said' = IF logger.file THEN Append(said, <<what, m>>) ELSE said

LoggedIn(m, rejected, size) ==
    /\ logger.kind = "miners" /\ visitors[m] = "new" /\ Len(said) < MaxLines
    /\ visitors' = [visitors EXCEPT ![m] = IF rejected THEN "new" ELSE "mapped"]
    /\ IF rejected THEN UNCHANGED <<logger, said>> ELSE Say("login", m, size)
    /\ UNCHANGED written

Left(m, size) ==
    /\ logger.kind = "miners" /\ visitors[m] # "gone" /\ Len(said) < MaxLines
    /\ visitors' = [visitors EXCEPT ![m] = "gone"]
    /\ IF visitors[m] = "new" THEN UNCHANGED <<logger, said>> ELSE Say("close", m, size)
    /\ UNCHANGED written

\* Mutant: lines of one flush get one place.
PlaceOfFirst(l, i) == l.pos

\* The places of the kept lines, and at last the one behind them.
PlaceOf(l, i) ==
    LET place[n \in 1..(Len(l.buffers) + 1)] ==
            IF n = 1 THEN l.pos ELSE place[n - 1] + l.buffers[n - 1].size
    IN  place[i]

\* flush: a write for each line that is kept.
Flush ==
    /\ logger.wake
    /\ written' = written \cup
         {[line |-> logger.buffers[i].line, size |-> logger.buffers[i].size, at |-> PlaceOf(logger, i), st |-> "going"] :
             i \in DOMAIN logger.buffers}
    /\ logger' = [logger EXCEPT !.wake = FALSE, !.buffers = <<>>,
                                !.pos = PlaceOf(logger, Len(logger.buffers) + 1)]
    /\ UNCHANGED <<said, visitors>>

\* fsWriteCallback, which looks at no result: the line was written, or only the
\* first bytes of it, or nothing.
WriteEnds(w, st, bytes) ==
    /\ w.st = "going" /\ (IF st = "short" THEN bytes < w.size ELSE bytes = w.size)
    /\ written' = (written \ {w}) \cup {[w EXCEPT !.st = st, !.size = bytes]}
    /\ UNCHANGED <<logger, said, visitors>>

\* ~FileLogWriter (Log::destroy, ~Proxy): what is kept is not written.  Or the
\* process is killed, with what it was writing.
LoggerEnds(killed) ==
    /\ logger.file
    /\ logger' = NewLogger(logger.kind)
    /\ written' = IF killed THEN {w \in written : w.st # "going"} ELSE written
    /\ visitors' = [m \in AMiners |-> IF visitors[m] = "mapped" THEN "gone" ELSE visitors[m]]
    /\ UNCHANGED said

LogInit ==
    /\ logger \in {NewLogger("messages"), NewLogger("miners")}
    /\ written = {} /\ said = <<>> /\ visitors = [m \in AMiners |-> "new"]

LogIdle ==
    /\ logger = NewLogger("messages")
    /\ written = {} /\ said = <<>> /\ visitors = [m \in AMiners |-> "new"]

LogNext ==
    \/ \E opens \in BOOLEAN : Open(opens)
    \/ \E size \in LineSizes :
          \/ LogMessage(size)
          \/ \E m \in AMiners : Left(m, size) \/ \E rejected \in BOOLEAN : LoggedIn(m, rejected, size)
    \/ Flush
    \/ \E w \in written, st \in {"done", "short", "lost"} : \E bytes \in 1..w.size : WriteEnds(w, st, bytes)
    \/ \E killed \in BOOLEAN : LoggerEnds(killed)

(***************************************************************************)
(* Properties                                                              *)
(***************************************************************************)

Kept == written \ {w \in written : w.st = "lost"}
Ordinal(line) == SelectInSeq(said, LAMBDA l : l = line)

\* The file holds each line once, in the order of the events, and none over
\* another or over the part that a short write left of another, whatever order
\* writes end in and however often the proxy was started or killed; a line that
\* is kept is going to be written
\* (FileLogWriter::open, write, flush; FileLog::print, AccessLog::onEvent).
LogsIntact ==
    /\ \A v, w \in Kept : v # w => Ordinal(v.line) < Ordinal(w.line) \/ Ordinal(w.line) < Ordinal(v.line)
    /\ \A v, w \in Kept : Ordinal(v.line) < Ordinal(w.line) => v.at + v.size <= w.at
    /\ logger.buffers # <<>> => logger.wake
    /\ \A i, j \in DOMAIN logger.buffers : i < j => Ordinal(logger.buffers[i].line) < Ordinal(logger.buffers[j].line)
    /\ \A i \in DOMAIN said : said[i][1] = "close" => \E j \in 1..(i - 1) : said[j] = <<"login", said[i][2]>>
=============================================================================
