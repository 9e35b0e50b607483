---------------------------- MODULE MCProofSearch ----------------------------
(***************************************************************************)
(* Small instances of ProofSearch for TLC.                                 *)
(***************************************************************************)
EXTENDS ProofSearch

CONSTANTS lean, doc, head, edited, gone
=============================================================================
