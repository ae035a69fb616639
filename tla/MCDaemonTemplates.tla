------------------------- MODULE MCDaemonTemplates -------------------------
(***************************************************************************)
(* DaemonTemplates for TLC.  Every constant is given in the cfg.           *)
(***************************************************************************)
EXTENDS DaemonTemplates
=============================================================================
