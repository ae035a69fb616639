------------------------------ MODULE MCMiner ------------------------------
(***************************************************************************)
(* Small instances of the downstream connections: an ordinary share        *)
(* and a network candidate.                                                *)
(***************************************************************************)
EXTENDS Miner

OneOwner == {1}
TwoOwners == 1..2
FirstOwners == 0..1

OneSource == {1}
TwoSources == 1..2
OneClient == {1}
MCHeights == 1..2

MCResults == {"r1", "r2"}
MCQuality == [r \in MCResults |-> IF r = "r1" THEN "share" ELSE "block"]
=============================================================================
