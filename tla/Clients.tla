------------------------------ MODULE Clients ------------------------------
(***************************************************************************)
(* The clients of the proxy that ask with ids and deadlines of their own:  *)
(* a DaemonClient, which carries block candidates to a daemon, and the     *)
(* client of the verifier.  They share no state; one of them runs here.    *)
(***************************************************************************)
EXTENDS DaemonClient, RandomXVerifier

VARIABLE asking     \* which of the two runs

clientsVars == <<asking, vars, verifierVars>>

\* DaemonClient's constructor, or RandomXVerifier's start(); the other as after
\* its end.
ClientsInit ==
    \/ /\ asking = "daemon" /\ Init
       /\ NoRequest("stopped")
    \/ /\ asking = "verifier" /\ VerifierInit
       /\ NoCandidate("destroyed")

ClientsNext ==
    \/ asking = "daemon" /\ Next /\ UNCHANGED <<asking, verifierVars>>
    \/ asking = "verifier" /\ VerifierNext /\ UNCHANGED <<asking, vars>>

\* Nothing of the part that does not run is enabled.
ClientsSpec == ClientsInit /\ [][ClientsNext]_clientsVars /\ Fairness /\ VerifierFairness
=============================================================================
