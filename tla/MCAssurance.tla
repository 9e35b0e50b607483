----------------------------- MODULE MCAssurance -----------------------------
(* Two mutants of one definition, one theorem of each kind about it.        *)
EXTENDS Assurance
MCDecl(m) == "f"
MCSubject(t) == "f"
=============================================================================
