---------------------------- MODULE MCClients -----------------------------
(***************************************************************************)
(* Small instances of the two clients.                                     *)
(***************************************************************************)
EXTENDS Clients

TwoSubs == {"s1", "s2"}
SecondBad == {1}
TwoOwners == {"m1", "m2"}
OneSeed == {1}
=============================================================================
