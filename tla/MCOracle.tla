------------------------------- MODULE MCOracle -------------------------------
(* f1 calls g1, g1 calls h1; f1 and h1 have cases, and h1's brings Lean down.  *)
(* The module body m1 calls k1, which nothing else names.                      *)
EXTENDS Oracle

CONSTANTS f1, g1, h1, k1, m1
MCCalls == [x \in Funcs |-> CASE x = f1 -> {g1} [] x = g1 -> {h1} [] x = m1 -> {k1} [] x \in {h1, k1} -> {}]
MCMentions == MCCalls
MCOf(c) == IF c = 1 THEN h1 ELSE f1
===============================================================================
