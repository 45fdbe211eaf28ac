------------------------------ MODULE MCKeeper ------------------------------
(* Small instances of Keeper for TLC. *)
EXTENDS Keeper

CONSTANTS k1, k2, s1

MCOutcomes == {0, 1, 2}
MCSchedules == {<<1, 2>>}
=============================================================================
