--------------------------- MODULE MCReplication ---------------------------
(* The links that TLC checks: the constants are in the configurations.     *)
EXTENDS Replication
=============================================================================
