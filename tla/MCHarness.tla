------------------------------ MODULE MCHarness ------------------------------
(***************************************************************************)
(* Small instances of Harness for TLC.                                     *)
(***************************************************************************)
EXTENDS Harness

CONSTANTS c1, c2, c3, f1

OneFunction  == [c \in Claims |-> f1]
ThreeRivals  == {{c1, c2}, {c1, c3}}
=============================================================================
