-------------------------- MODULE DaemonSubmission --------------------------
(***************************************************************************)
(* What submitting a block candidate promises, without requests, retries   *)
(* and timers: a candidate handed to a DaemonClient gets one final result, *)
(* "accepted" is said of blocks the daemon took, "rejected" only of blocks *)
(* it has not taken and will not take, and everything the proxy cannot     *)
(* know is "ambiguous".                                                    *)
(***************************************************************************)

CONSTANT Subs       \* block candidates

VARIABLES
    status,         \* Subs -> what the proxy has said of the candidate
    onchain         \* candidates the daemon took

vars == <<status, onchain>>

Init ==
    /\ status = [s \in Subs |-> "new"]
    /\ onchain = {}

\* The client takes the candidate, or refuses it at once.
Begin(s) ==
    /\ status[s] = "new"
    /\ \E v \in {"pending", "refused"} : status' = [status EXCEPT ![s] = v]
    /\ UNCHANGED onchain

\* The daemon takes a block; of a rejected one it no longer has any copy.
Take(s) ==
    /\ status[s] \notin {"new", "refused", "rejected"}
    /\ onchain' = onchain \cup {s}
    /\ UNCHANGED status

Finish(s) ==
    /\ status[s] = "pending"
    /\ \E v \in {"accepted", "rejected", "ambiguous"} :
          /\ v = "accepted" => s \in onchain
          /\ v = "rejected" => s \notin onchain
          /\ status' = [status EXCEPT ![s] = v]
    /\ UNCHANGED onchain

\* The client goes away: live it answers "ambiguous", destroyed it only
\* leaves a telemetry row.
Abandon(v) ==
    /\ status' = [s \in Subs |-> IF status[s] = "pending" THEN v ELSE status[s]]
    /\ UNCHANGED onchain

Next ==
    \/ \E s \in Subs : Begin(s) \/ Take(s) \/ Finish(s)
    \/ \E v \in {"ambiguous", "lost"} : Abandon(v)

Spec == Init /\ [][Next]_vars
=============================================================================
