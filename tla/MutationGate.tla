----------------------------- MODULE MutationGate -----------------------------
(***************************************************************************)
(* The mutation gate (scripts/mutate.py): it writes mutants into the file  *)
(* of a translated module, one after the other, builds the theorems about  *)
(* it, and puts the file back.  Several gates may be started on one file;  *)
(* a backup file beside it is their only lock.                             *)
(*                                                                         *)
(* A text is what was rendered or edited, and the mutation it carries.     *)
(***************************************************************************)
EXTENDS Naturals, FiniteSets

CONSTANTS
    Gates,        \* runs of the gate
    Bases,        \* texts without a mutation
    Foreign,      \* those somebody else wrote
    Mutations,    \* mutants that can be generated
    Theorems,
    Decl(_),      \* the definition a mutation is in
    Subject(_),   \* the definition a theorem is about
    Retries,      \* builds repeated when a failure names no position
    None

Text == [base : Bases, mut : Mutations \cup {None}]
IsMutant(t) == t.mut # None
Mutated(t, m) == [t EXCEPT !.mut = m]

ASSUME GateAssumption ==
    /\ Foreign \subseteq Bases
    /\ Retries \in Nat /\ None \notin Mutations \cup Text
    /\ \A m \in Mutations : Decl(m) \in {Subject(t) : t \in Theorems}

VARIABLES
    model,      \* the text of Autoform/Generated/<M>.lean
    backup,     \* the text of <M>.lean.mutate-backup
    pc,         \* where each gate is
    orig,       \* the text it read first
    targets,    \* the theorems it gates
    todo, cur,  \* the mutants left, the one at hand
    tries,      \* repetitions of its build
    rec,        \* the verdict on each mutant
    report,     \* mutation.json, if its status is OK
    leaving,    \* why it restores: "done", "baseline" or "interrupted"
    passed,     \* it exited with 0
    effect      \* what each mutation does, if anything builds: never changes

gateVars == <<pc, orig, targets, todo, cur, tries, rec, report, leaving, passed>>
vars == <<model, backup, gateVars, effect>>

\* A text does not typecheck, or some theorems fail over it; a mutant breaks theorems about its
\* definition only.
Outcome == [ill : {TRUE}, broken : {{}}] \cup [ill : {FALSE}, broken : SUBSET Theorems]
Effects(m) == {e \in Outcome : \A t \in e.broken : Subject(t) = Decl(m)}

\* What a build of text t may find: a text nobody mutated proves what it did, unless somebody
\* else wrote it (Foreign).
Found(t) == IF IsMutant(t) THEN {effect[t.mut]}
            ELSE IF t.base \in Foreign THEN [ill : {FALSE}, broken : SUBSET Theorems]
            ELSE {[ill |-> FALSE, broken |-> {}]}

\* lake build of the theorems ts can succeed; it may always fail for a reason of its own.
CanBuild(ts) == \E e \in Found(model) : ~e.ill /\ e.broken \cap ts = {}

NoVerdict == [kind |-> "none", hit |-> {}]
NoReport == [judged |-> {}, teeth |-> {}, targets |-> {}]

Unjudged == [m \in Mutations |-> NoVerdict]

Init ==
    /\ pc = [g \in Gates |-> "off"] /\ orig = [g \in Gates |-> None]
    /\ targets = [g \in Gates |-> {}]
    /\ todo = [g \in Gates |-> {}] /\ cur = [g \in Gates |-> None] /\ tries = [g \in Gates |-> 0]
    /\ rec = [g \in Gates |-> Unjudged]
    /\ report = [g \in Gates |-> NoReport]
    /\ leaving = [g \in Gates |-> "done"] /\ passed = [g \in Gates |-> FALSE]
    /\ effect \in {e \in [Mutations -> Outcome] : \A m \in Mutations : e[m] \in Effects(m)}

At(g, here) == pc[g] = here
files == <<model, backup>>
Goto(g, there) == pc' = [pc EXCEPT ![g] = there]
\* The process is gone, and with it what only it knew.
End(g, ok) ==
    /\ Goto(g, "off") /\ passed' = [passed EXCEPT ![g] = ok]
    /\ orig' = [orig EXCEPT ![g] = None] /\ targets' = [targets EXCEPT ![g] = {}]
    /\ todo' = [todo EXCEPT ![g] = {}] /\ cur' = [cur EXCEPT ![g] = None]
    /\ tries' = [tries EXCEPT ![g] = 0] /\ rec' = [rec EXCEPT ![g] = Unjudged]
    /\ leaving' = [leaving EXCEPT ![g] = "done"]
memory == <<orig, targets, todo, cur, tries, rec, leaving>>
Stay(g, there) == Goto(g, there) /\ UNCHANGED <<memory, passed>>

-----------------------------------------------------------------------------
(* Entering: read the file, then take the backup                           *)

GateRead(g, ts) ==
    /\ At(g, "off") /\ Goto(g, "read")
    /\ orig' = [orig EXCEPT ![g] = model] /\ targets' = [targets EXCEPT ![g] = ts]
    /\ UNCHANGED <<files, todo, cur, tries, rec, report, leaving, passed, effect>>

\* --spec-report: the proofs must have been generated for the model that is there now.
GateCheck(g, matches) ==
    /\ At(g, "read") /\ UNCHANGED <<files, report, effect>>
    /\ IF matches THEN Stay(g, "checked") ELSE End(g, FALSE)

\* Mutant: an existing backup is overwritten.
MarkAlways(g) ==
    /\ At(g, "checked") /\ UNCHANGED <<model, report, effect>>
    /\ backup' = orig[g] /\ Stay(g, "marked")
GateMark(g) ==
    /\ At(g, "checked") /\ UNCHANGED <<model, report, effect>>
    /\ IF backup = None THEN backup' = orig[g] /\ Stay(g, "marked")
                        ELSE End(g, FALSE) /\ UNCHANGED backup

Applicable(g) == {m \in Mutations : Decl(m) \in {Subject(t) : t \in targets[g]}}

\* Operators may yield no mutant for a definition, --max-mutants cuts the rest.
GateGenerate(g) ==
    /\ At(g, "marked") /\ Goto(g, "baseline")
    /\ \E ms \in SUBSET Applicable(g) : todo' = [todo EXCEPT ![g] = ms]
    /\ UNCHANGED <<files, orig, targets, cur, tries, rec, report, leaving, passed, effect>>

Leaving(g, why) == Goto(g, "rewrite") /\ leaving' = [leaving EXCEPT ![g] = why]

GateBaseline(g, builds) ==
    /\ At(g, "baseline") /\ (builds => CanBuild(targets[g]))
    /\ IF builds THEN Goto(g, "loop") /\ UNCHANGED leaving ELSE Leaving(g, "baseline")
    /\ UNCHANGED <<files, orig, targets, todo, cur, tries, rec, report, passed, effect>>

-----------------------------------------------------------------------------
(* The loop over mutants                                                   *)

GateWrite(g) ==
    /\ At(g, "loop") /\ Goto(g, "build")
    /\ \E m \in todo[g] :
         /\ cur' = [cur EXCEPT ![g] = m] /\ todo' = [todo EXCEPT ![g] = @ \ {m}]
         /\ model' = Mutated(orig[g], m)
    /\ UNCHANGED <<backup, orig, targets, tries, rec, report, leaving, passed, effect>>

\* What run_build can come back with: what was found, or a failure that says nothing about it
\* (no error line at all, an error on no theorem, an error in another file, a timeout).
Answers == {"found", "silent", "unattributed", "foreign", "timeout"}

\* Mutant: a failed build is a kill, whoever failed.
AnyFailureKills(g, answer, e) ==
    IF answer = "found" /\ e.ill THEN [kind |-> "invalid", hit |-> {}]
    ELSE [kind |-> "typed", hit |-> IF answer = "found" THEN e.broken \cap targets[g] ELSE targets[g]]
Verdict(g, answer, e) ==
    IF answer # "found" THEN [kind |-> "inconclusive", hit |-> {}]
    ELSE IF e.ill THEN [kind |-> "invalid", hit |-> {}]
    ELSE [kind |-> "typed", hit |-> e.broken \cap targets[g]]

GateBuild(g, answer) ==
    /\ At(g, "build") /\ UNCHANGED <<files, orig, targets, todo, cur, report, leaving, passed, effect>>
    /\ IF answer = "silent" /\ tries[g] < Retries
       THEN tries' = [tries EXCEPT ![g] = @ + 1] /\ UNCHANGED <<pc, rec>>
       ELSE /\ \E e \in Found(model) : rec' = [rec EXCEPT ![g][cur[g]] = Verdict(g, answer, e)]
            /\ Goto(g, "putback") /\ tries' = [tries EXCEPT ![g] = 0]

GatePutBack(g) ==
    /\ At(g, "putback") /\ Goto(g, "loop")
    /\ model' = orig[g] /\ cur' = [cur EXCEPT ![g] = None]
    /\ UNCHANGED <<backup, orig, targets, todo, tries, rec, report, leaving, passed, effect>>

GateLoopDone(g) ==
    /\ At(g, "loop") /\ todo[g] = {} /\ Leaving(g, "done")
    /\ UNCHANGED <<files, orig, targets, todo, cur, tries, rec, report, passed, effect>>

-----------------------------------------------------------------------------
(* restore_source, the build after it, the report                          *)

GateRewrite(g) ==
    /\ At(g, "rewrite") /\ model' = orig[g] /\ Stay(g, "unlink")
    /\ UNCHANGED <<backup, report, effect>>

GateUnlink(g) ==
    /\ At(g, "unlink") /\ backup' = None /\ UNCHANGED <<model, report, effect>>
    /\ CASE leaving[g] = "done" -> Stay(g, "rebuild")
         [] leaving[g] = "baseline" -> End(g, FALSE)
         [] leaving[g] = "interrupted" -> End(g, FALSE)

Judged(g) == {m \in Mutations : rec[g][m].kind = "typed"}
\* HAS TEETH: some typed mutant of the theorem's subject was built, and every one hit the theorem.
Teeth(g) == {t \in targets[g] :
               LET on == {m \in Judged(g) : Decl(m) = Subject(t)}
               IN on # {} /\ \A m \in on : t \in rec[g][m].hit}
Inconclusive(g) == \E m \in Mutations : rec[g][m].kind = "inconclusive"

\* RESTORE_FAILED, INCONCLUSIVE and BASELINE_FAILED are reports that count for nothing.
GateReport(g, builds) ==
    /\ At(g, "rebuild") /\ (builds => CanBuild(targets[g])) /\ UNCHANGED <<files, effect>>
    /\ LET ok == builds /\ ~Inconclusive(g) IN
       /\ IF ok THEN report' = [report EXCEPT ![g] =
                        [judged |-> Judged(g), teeth |-> Teeth(g), targets |-> targets[g]]]
                ELSE UNCHANGED report
       /\ End(g, ok /\ Teeth(g) = targets[g])

-----------------------------------------------------------------------------
(* Interruption                                                            *)

\* KeyboardInterrupt: before the backup nothing is left, after it restore_source runs; between
\* the two statements, and after the restoration, nothing runs.
GateInterrupt(g) ==
    /\ ~At(g, "off") /\ leaving[g] # "interrupted" /\ UNCHANGED <<files, report, effect>>
    /\ IF pc[g] \in {"read", "checked", "marked", "rebuild"}
       THEN End(g, FALSE)
       ELSE Leaving(g, "interrupted") /\ UNCHANGED <<orig, targets, todo, cur, tries, rec, passed>>

\* SIGKILL.
GateKill(g) == ~At(g, "off") /\ End(g, FALSE) /\ UNCHANGED <<files, report, effect>>

GateStep(g) ==
    \/ GateMark(g) \/ GateGenerate(g) \/ GateWrite(g) \/ GatePutBack(g) \/ GateLoopDone(g)
    \/ GateRewrite(g) \/ GateUnlink(g)
    \/ \E builds \in BOOLEAN : GateBaseline(g, builds) \/ GateReport(g, builds)
    \/ \E answer \in Answers : GateBuild(g, answer)
=============================================================================
