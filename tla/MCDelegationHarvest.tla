-------------------------- MODULE MCDelegationHarvest --------------------------
(* Small instances of DelegationHarvest for TLC.  Delegations d1 and d2    *)
(* are to be started, o1 was delivered long ago.                           *)
EXTENDS DelegationHarvest

CONSTANTS d1, d2, o1
=============================================================================
