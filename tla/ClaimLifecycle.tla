---------------------------- MODULE ClaimLifecycle ----------------------------
(***************************************************************************)
(* What the harness promises about one claim, whatever the generators, the *)
(* judge and the prover agent do (docs/harness.md, pipeline.py): a claim   *)
(* is registered once, is decided once by deterministic machinery, and     *)
(* after that only loses strength - except that a re-checked proof may     *)
(* settle a claim left open or known only on a finite domain.              *)
(***************************************************************************)
CONSTANT Claims
VARIABLE life

Stages == {"absent", "skipped", "unsupported", "pending", "refuted", "open",
           "bounded", "proved", "conditional", "model"}

Decided == {"refuted", "open", "bounded", "proved", "model"}

Moves == ({"absent"} \X {"skipped", "unsupported", "pending"})
           \cup ({"pending"} \X Decided)
           \cup {<<"refuted", "model">>,                             \* read as a model gap
                 <<"open", "proved">>, <<"bounded", "proved">>,      \* universal proof found
                 <<"proved", "conditional">>, <<"bounded", "conditional">>}

Init == life = [c \in Claims |-> "absent"]

\* One step of the harness may move several claims, each along one edge.
Advance == /\ life' \in [Claims -> Stages]
           /\ \A c \in Claims : life'[c] = life[c] \/ <<life[c], life'[c]>> \in Moves

\* A new run starts from no claims.
Restart == life' = [c \in Claims |-> "absent"]

Spec == Init /\ [][Advance \/ Restart]_life
=============================================================================
