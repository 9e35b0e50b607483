------------------------------ MODULE MCShield ------------------------------
(***************************************************************************)
(* Small instances of Shield for TLC.                                      *)
(***************************************************************************)
EXTENDS Shield

CONSTANT LastTime
MCTimes == 0..LastTime
=============================================================================
