------------------------------ MODULE MCTurnLease ------------------------------
(* Small instances of TurnLease for TLC.                                   *)
EXTENDS TurnLease, TLC
CONSTANTS t1, t2, t3, c1, c2
Tasks == Permutations({t1, t2, t3})
=============================================================================
