------------------------- MODULE MCFailoverStrategy -------------------------
(***************************************************************************)
(* One pool, plain or behind a proxy with TLS, or two plain pools of which *)
(* the second is the backup.  One retry: the first pool fails once         *)
(* quietly, then the backup is connected.                                  *)
(***************************************************************************)
EXTENDS FailoverStrategy

OptionsOf(kd) == IF kd = "single" THEN {{}, {"socks", "tls", "keepalive"}} ELSE {{}}
=============================================================================
