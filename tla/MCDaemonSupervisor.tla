-------------------------- MODULE MCDaemonSupervisor --------------------------
(* Small instances of DaemonSupervisor for TLC.                            *)
EXTENDS DaemonSupervisor, TLC
CONSTANTS d1, d2, p1, p2
OneEach == (d1 :> p1) @@ (d2 :> p2)
=============================================================================
