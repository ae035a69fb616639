----------------------------- MODULE LiveSocket -----------------------------
(***************************************************************************)
(* The socket file of LiveEventStream, which proxies that are configured   *)
(* with the same path compete for.  A file is known by its inode, and an   *)
(* inode that nothing refers to may be used again by the file system.      *)
(***************************************************************************)
EXTENDS Integers

CONSTANTS
    Proxies,        \* processes with the same path
    Inodes,
    StartsOverlap   \* bound: two of them may start at the same time

\* No inode is the mark of a path where there is no socket.
ASSUME SocketAssumption == StartsOverlap \in BOOLEAN /\ Inodes \cap {"none", "other"} = {}

VARIABLES
    file,       \* what is at the path: an inode, "none" or "other", no socket
    proxy       \* st: how far start() is, "off" or "running"; sock: inode of the
                \* socket it listens on; seen: st_ino before the probe; owned:
                \* m_socketInode

socketVars == <<file, proxy>>

Off == [st |-> "off", sock |-> "none", seen |-> "none", owned |-> "none"]

Starting(p) == proxy[p].st \notin {"off", "running"}
Set(p, v) == proxy' = [proxy EXCEPT ![p] = v]

\* Mutant: whether the socket is in use is not looked at.
answersNever(i) == FALSE

\* connect() of prepareSocketPath: somebody listens on the socket.
answers(i) == \E q \in Proxies : proxy[q].st = "running" /\ proxy[q].sock = i

\* start, prepareSocketPath: nothing there, something that is no socket, a
\* socket that is in use, or a stale one.
Probe(p) ==
    /\ proxy[p].st = "off"
    /\ StartsOverlap \/ \A q \in Proxies : ~Starting(q)
    /\ CASE file = "none" -> Set(p, [Off EXCEPT !.st = "prepared"])
         [] file = "other" \/ answers(file) -> Set(p, Off)
         [] OTHER -> Set(p, [Off EXCEPT !.st = "probed", !.seen = file])
    /\ UNCHANGED file

\* prepareSocketPath: the stale socket is removed if it is still the same.
RemoveStale(p) ==
    /\ proxy[p].st = "probed"
    /\ IF file \in {"none", proxy[p].seen}
       THEN file' = "none" /\ Set(p, [Off EXCEPT !.st = "prepared"])
       ELSE UNCHANGED file /\ Set(p, Off)

InUse(i) == file = i \/ \E q \in Proxies : proxy[q].sock = i

\* uv_pipe_bind.
Bind(p, i) ==
    /\ proxy[p].st = "prepared" /\ ~InUse(i)
    /\ IF file = "none"
       THEN file' = i /\ Set(p, [Off EXCEPT !.st = "bound", !.sock = i])
       ELSE UNCHANGED file /\ Set(p, Off)

\* uv_close of a pipe that was bound removes its path, whatever is there.
closePipe(p) == "none"

\* unlinkOwnedSocket: the file that was bound, if it is still there.
unlinkOwned(p, f) == IF f = proxy[p].owned THEN "none" ELSE f

\* rememberOwnedSocket and uv_listen; failing is as stop().
Listen(p, ok) ==
    /\ proxy[p].st = "bound"
    /\ IF ok /\ file \in Inodes
       THEN Set(p, [proxy[p] EXCEPT !.st = "running", !.owned = file]) /\ UNCHANGED file
       ELSE Set(p, Off) /\ file' = closePipe(p)

\* stop.
StopProxy(p) ==
    /\ proxy[p].st = "running"
    /\ file' = unlinkOwned(p, closePipe(p))
    /\ Set(p, Off)

\* The process dies; the file stays.
Crash(p) ==
    /\ proxy[p].st # "off"
    /\ Set(p, Off)
    /\ UNCHANGED file

SocketInit == file \in {"none", "other"} /\ proxy = [p \in Proxies |-> Off]

SocketNext ==
    \E p \in Proxies :
        \/ Probe(p) \/ RemoveStale(p) \/ StopProxy(p) \/ Crash(p)
        \/ \E i \in Inodes : Bind(p, i)
        \/ \E ok \in BOOLEAN : Listen(p, ok)

(***************************************************************************)
(* Properties                                                              *)
(***************************************************************************)

\* Consumers reach a stream that runs: the path is its socket, although others
\* were started with the same path, stopped or crashed and left a socket
\* behind (LiveEventStream::prepareSocketPath, start, stop).
PathKept == \A p \in Proxies : proxy[p].st = "running" => file = proxy[p].sock
=============================================================================
