-------------------------- MODULE MCStorageManager --------------------------
(***************************************************************************)
(* Instances of StorageManager for TLC.                                    *)
(***************************************************************************)
EXTENDS StorageManager, TLC

CONSTANTS p, q

NoLegacy == {}
\* An even and an odd V1 generation, for the two parities of a migration.
SomeLegacy == [profile : {p}, generation : {2, 3}]
=============================================================================
