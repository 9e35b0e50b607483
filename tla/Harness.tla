------------------------------- MODULE Harness -------------------------------
(***************************************************************************)
(* The claim lifecycle of the formalization harness                        *)
(* (src/autoform/harness/pipeline.py, cegis.py, ledger.py).  Untrusted     *)
(* generators and a judge propose claims and read counterexamples; a       *)
(* verifier decides them; refuted claims are repaired for a bounded number *)
(* of rounds; verdicts are kept in a cache that outlives a run.            *)
(*                                                                         *)
(* A claim's text, its prior and the judge's probabilities are data: every *)
(* judgment is a nondeterministic choice among the options the code's      *)
(* gates leave open.  What a claim says matters only through its function, *)
(* its prose assumptions, the backends able to express it, the externals   *)
(* it reaches and the claims it contradicts: these are CONSTANTS.          *)
(***************************************************************************)
EXTENDS Integers, FiniteSets

CONSTANTS
    Claims,          \* claim ids: a claim's text determines its id
    Functions,       \* the target functions of the module
    FnOf,            \* the function each claim is about
    Assumes,         \* claims that carry prose assumptions
    Reaches,         \* functions that reach an unsupported external
    LeanOK,          \* claims the lean-kernel backend can express
    StructuralOK,    \* claims the cpir-structural backend can express
    Rivals,          \* pairs {c, d} of claims no function can satisfy together
    TopK,            \* Options.top_k
    MaxRefinements,  \* Options.max_refinements
    UseProver,       \* Options.prover # 'none'
    UseCache,        \* a cache directory was given
    Versions,        \* contents the generated module can have
    Interpreters,    \* builds of the interpreter and its toolchain
    MaxRuns,         \* bound of the model: runs of the command
    None             \* Python's None

ASSUME HarnessAssumption ==
    /\ FnOf \in [Claims -> Functions]
    /\ Assumes \subseteq Claims /\ Reaches \subseteq Functions
    /\ LeanOK \subseteq Claims /\ StructuralOK \subseteq Claims
    /\ MaxRefinements \in Nat /\ TopK \in Nat /\ MaxRuns \in Nat
    /\ UseProver \in BOOLEAN /\ UseCache \in BOOLEAN
    /\ None \notin Claims

VARIABLES
    phase,    \* where Harness.run is
    targets,  \* functions not proposed yet
    batch,    \* verify: the ids passed to it;  adjudicate: the fresh repairs
    todo,     \* ids the current loop has not reached
    round,    \* round_no of refine
    status,   \* rec['result']['status'], "ABSENT" before register
    kind,     \* rec['result']['witness']['outcome_kind'], "none" without witness
    backend,  \* claim['backend']
    depth,    \* rec['depth']
    marked,   \* claims with intent.contradicts_intent
    class,    \* rec['counterexample']['classification']
    native,   \* rec['counterexample']['native_agrees']
    disp,     \* rec['disposition']
    repairedBy, \* rec['repaired_by']
    defect,   \* claims that have a rec['model_defect']
    basis,    \* history: the <<generated module, interpreter>> the verdict was computed on
    index,    \* ProofCache.index
    disk,     \* index.json of the cache directory
    build,    \* the <<generated module, interpreter>> of the current build
    run       \* number of runs started

resultVars == <<status, kind, basis>>
claimVars  == <<backend, depth, marked>>
ceVars     == <<class, native, disp, repairedBy>>
loopVars   == <<phase, targets, batch, todo, round>>
cacheVars  == <<index, disk>>
vars == <<loopVars, resultVars, claimVars, ceVars, defect, cacheVars, build, run>>

Held           == {"PROVED", "BOUNDED_PROVED", "ASSUMPTION_DEPENDENT"}
ModelStatuses  == {"MODEL_INCOMPLETE", "INCONSISTENT_MODEL"}
KernelStatuses == {"PROVED", "BOUNDED_PROVED", "REFUTED", "ASSUMPTION_DEPENDENT"}
Statuses == Held \cup ModelStatuses \cup
            {"ABSENT", "NOT_SELECTED", "PENDING", "REFUTED", "UNKNOWN", "TIMEOUT", "UNSUPPORTED"}
Kinds    == {"none", "value", "undefined_behavior", "hole", "out_of_fuel"}
Classes  == {"none", "REAL_BUG", "INCOMPLETE_MODEL", "REPAIRABLE"}
\* REPAIRABLE stands for BAD_SPEC, MISSING_PRECONDITION, ENVIRONMENT_MISMATCH and
\* ABSTRACTION_ARTIFACT: adjudicate treats the four alike.
Dispositions == {"none", "finding", "suspected_bug", "model_gap", "refinement_limit",
                 "rejected_by_repair", "repair_refused", "repair_rejected_by_critic",
                 "repair_duplicates_existing", "repaired"}
Phases == {"idle", "propose", "verify", "adjudicate", "prove", "diagnose",
           "save", "label", "report", "done", "failed"}
Running == Phases \ {"idle", "done", "failed"}

Keys    == Claims \X Versions
Builds  == Versions \X Interpreters
NoEntry == [status |-> "none", kind |-> "none", basis |-> None]
Entries == [status : KernelStatuses, kind : Kinds, basis : Builds] \cup {NoEntry}

Registered == {c \in Claims : status[c] # "ABSENT"}
Selected   == {c \in Registered : status[c] # "NOT_SELECTED"}

-----------------------------------------------------------------------------
(* A run                                                                   *)

Blank(v) == [c \in Claims |-> v]

Init ==
    /\ phase = "idle" /\ targets = {} /\ batch = {} /\ todo = {} /\ round = 0
    /\ status = Blank("ABSENT") /\ kind = Blank("none") /\ basis = Blank(None)
    /\ backend = Blank("none") /\ depth = Blank(0) /\ marked = {}
    /\ class = Blank("none") /\ native = Blank("none")
    /\ disp = Blank("none") /\ repairedBy = Blank(None) /\ defect = {}
    /\ index = [k \in Keys |-> NoEntry] /\ disk = [k \in Keys |-> NoEntry]
    /\ build \in Builds /\ run = 0

\* Harness(opts).run(): a stale build is refused, so the build verified against is the
\* current source's, whatever was edited since the last run.  The cache is read from
\* index.json; an entry whose artifact files are gone is never returned by get.
StartRun ==
    /\ phase \in {"idle", "done", "failed"} /\ run < MaxRuns
    /\ run' = run + 1
    /\ build' \in Builds
    /\ phase' = "propose" /\ targets' = Functions
    /\ batch' = {} /\ todo' = {} /\ round' = 0
    /\ status' = Blank("ABSENT") /\ kind' = Blank("none") /\ basis' = Blank(None)
    /\ backend' = Blank("none") /\ depth' = Blank(0) /\ marked' = {}
    /\ class' = Blank("none") /\ native' = Blank("none")
    /\ disp' = Blank("none") /\ repairedBy' = Blank(None) /\ defect' = {}
    /\ \E kept \in SUBSET {k \in Keys : disk[k] # NoEntry} :
          index' = [k \in Keys |-> IF k \in kept THEN disk[k] ELSE NoEntry]
    /\ UNCHANGED disk

-----------------------------------------------------------------------------
(* Proposing                                                               *)

Rival(c, d) == {c, d} \in Rivals /\ c # d

\* A connected component of the rivalry relation on the accepted claims (rival_groups).
Component(acc, c) ==
    {d \in acc : \A S \in SUBSET acc :
        (c \in S /\ \A x \in S, y \in acc : Rival(x, y) => y \in S) => d \in S}

RivalGroups(acc) == {g \in {Component(acc, c) : c \in acc} : Cardinality(g) > 1}

Feasible(c) == {b \in {"lean-kernel", "cpir-structural"} :
                  c \in IF b = "lean-kernel" THEN LeanOK ELSE StructuralOK}

\* route: what registering a chosen claim leaves in its record.
Routed(c, b) == IF Feasible(c) = {} THEN b = "none" ELSE b \in Feasible(c)
RouteStatus(b) == IF b = "none" THEN "UNSUPPORTED" ELSE "PENDING"

\* The accepted claims enter the books: the chosen ones with their backend, to be verified.
Register(acc, chosen, route) ==
    /\ status' = [c \in Claims |->
                    IF c \in chosen THEN RouteStatus(route[c])
                    ELSE IF c \in acc THEN "NOT_SELECTED" ELSE status[c]]
    /\ backend' = [c \in Claims |-> IF c \in chosen THEN route[c] ELSE backend[c]]
    /\ batch' = batch \cup chosen

Propose(f) ==
    /\ phase = "propose" /\ f \in targets
    /\ targets' = targets \ {f}
    /\ \E acc \in SUBSET {c \in Claims : FnOf[c] = f} :
       \E intended \in SUBSET acc, chosen \in SUBSET acc :
       \E route \in [chosen -> {"lean-kernel", "cpir-structural", "none"}] :
          /\ \A g \in RivalGroups(acc) : Cardinality(g \cap intended) = 1
          /\ intended \subseteq UNION RivalGroups(acc)
          /\ intended \subseteq chosen
          /\ LET quota == IF Cardinality(intended) > TopK THEN Cardinality(intended) ELSE TopK
             IN  Cardinality(chosen) = IF Cardinality(acc) < quota THEN Cardinality(acc) ELSE quota
          /\ \A c \in chosen : Routed(c, route[c])
          /\ Register(acc, chosen, route)
          /\ marked' = marked \cup {c \in acc \ intended : \E w \in intended : Rival(c, w)}
    /\ UNCHANGED <<phase, todo, round, kind, basis, depth, ceVars, defect, cacheVars, build, run>>

EndPropose ==
    /\ phase = "propose" /\ targets = {}
    /\ phase' = "verify" /\ todo' = batch
    /\ UNCHANGED <<targets, batch, round, resultVars, claimVars, ceVars, defect,
                   cacheVars, build, run>>

-----------------------------------------------------------------------------
(* Verifying                                                               *)

\* The rewriting at the end of verify: a witness that runs into an unmodelled construct
\* or out of fuel says nothing about the code.
Settle(s, k) == IF s = "REFUTED" /\ k \in {"hole", "out_of_fuel"} THEN "MODEL_INCOMPLETE" ELSE s

SetResult(c, s, k, b) ==
    /\ status' = [status EXCEPT ![c] = Settle(s, k)]
    /\ kind' = [kind EXCEPT ![c] = k]
    /\ basis' = [basis EXCEPT ![c] = b]

\* The verdicts of the Lean backend: a witness comes with a refutation, with a deadline hit
\* while certifying it, or with a kernel that does not confirm it.
LeanVerdict(s, k) ==
    \/ s \in {"PROVED", "BOUNDED_PROVED", "UNKNOWN"} /\ k = "none"
    \/ s = "REFUTED" /\ k # "none"
    \/ s \in {"TIMEOUT", "INCONSISTENT_MODEL"}

\* Mutant: a key that leaves the model out.
KeyByClaim(c) == <<c, CHOOSE v \in Versions : TRUE>>
Key(c) == <<c, build[1]>>

VerifyStructural(c) ==
    /\ backend[c] = "cpir-structural"
    /\ \E s \in {"PROVED", "MODEL_INCOMPLETE", "REFUTED"} : SetResult(c, s, "none", build)
    /\ UNCHANGED index

CacheHit(c) ==
    /\ backend[c] = "lean-kernel" /\ index[Key(c)] # NoEntry
    /\ LET e == index[Key(c)] IN SetResult(c, e.status, e.kind, e.basis)
    /\ UNCHANGED index

\* Mutant: whatever the backend answered is kept.
AnyAnswer(s) == s # "PENDING"
Cacheable(s) == s \in KernelStatuses

\* put keeps the kernel's verdict, before Settle rewrites the record.
VerifyLean(c) ==
    /\ backend[c] = "lean-kernel" /\ index[Key(c)] = NoEntry
    /\ \E s \in Statuses, k \in Kinds :
          /\ LeanVerdict(s, k)
          /\ SetResult(c, s, k, build)
          /\ index' = IF UseCache /\ Cacheable(s)
                      THEN [index EXCEPT ![Key(c)] = [status |-> s, kind |-> k, basis |-> build]]
                      ELSE index

\* Mutant: the loop waits on a claim that is not for the Lean backend.
NextOfLean(c) == c \in todo /\ backend[c] = "lean-kernel"
NextUnverified(c) == c \in todo

Verify(c) ==
    /\ phase = "verify" /\ NextUnverified(c)
    /\ todo' = todo \ {c}
    /\ IF status[c] # "PENDING" THEN UNCHANGED <<resultVars, index>>
       ELSE VerifyStructural(c) \/ CacheHit(c) \/ VerifyLean(c)
    /\ UNCHANGED <<phase, targets, batch, round, claimVars, ceVars, defect, disk, build, run>>

\* Jobs of prove_open: established on a finite domain only, or undecided without witness.
\* Mutant: the status of the claim is not looked at.
AnyLeanClaim == {c \in Selected : backend[c] = "lean-kernel"}
ProverJobs == {c \in Selected : /\ backend[c] = "lean-kernel"
                                /\ status[c] \in {"BOUNDED_PROVED", "UNKNOWN"} /\ kind[c] = "none"}

EnterProve == /\ phase' = "prove" /\ batch' = {}
              /\ todo' = IF UseProver THEN ProverJobs ELSE {}

\* Mutant: structural refutations, whose witness has no outcome, are passed over.
RefutedWithOutcome == {c \in batch : status[c] = "REFUTED" /\ kind[c] # "none"}
Refuted == {c \in batch : status[c] = "REFUTED"}

RoundLeft == round + 1 <= MaxRefinements

\* After verify, refine takes the refuted claims of the batch if a round is left.
EndVerify ==
    /\ phase = "verify" /\ todo = {}
    /\ round' = round + 1
    /\ IF RoundLeft THEN phase' = "adjudicate" /\ batch' = {} /\ todo' = Refuted
       ELSE EnterProve
    /\ UNCHANGED <<targets, resultVars, claimVars, ceVars, defect, cacheVars, build, run>>

-----------------------------------------------------------------------------
(* Reading a counterexample and repairing the claim                        *)

\* native_replay and native_agrees: only a witness that ends in a value or an exception can
\* be compared with a real run, and the run may not happen.
NativeAnswers(c) == IF kind[c] = "value" THEN {"agree", "disagree", "none"} ELSE {"none"}

\* allowed_classes; otherSort: the claim assumed a result of another sort.
FactClasses(c, nat, otherSort) ==
    IF kind[c] = "value" /\ otherSort      THEN {"REPAIRABLE"}
    ELSE IF kind[c] = "undefined_behavior"  THEN {"REAL_BUG", "REPAIRABLE"}
    ELSE IF kind[c] \in {"hole", "out_of_fuel"} \/ nat = "disagree"
                                            THEN {"INCOMPLETE_MODEL"}
    ELSE {"REAL_BUG", "REPAIRABLE"}

\* A claim marked as contradicting the chosen intent cannot be a real bug.
\* Mutant: the judge's intent does not narrow the classes.
IgnoresIntent(c, nat, otherSort) == FactClasses(c, nat, otherSort)
AllowedClasses(c, nat, otherSort) ==
    LET facts == FactClasses(c, nat, otherSort)
    IN  IF c \in marked /\ Cardinality(facts) > 1 THEN facts \ {"REAL_BUG"} ELSE facts

\* The judge classifies c; the rest of adjudicate depends on the class.
Classified(c, cl) ==
    /\ phase = "adjudicate" /\ c \in todo
    /\ \E nat \in NativeAnswers(c), otherSort \in BOOLEAN :
          /\ cl \in AllowedClasses(c, nat, otherSort)
          /\ native' = [native EXCEPT ![c] = nat]
    /\ class' = [class EXCEPT ![c] = cl]
    /\ todo' = todo \ {c}
    /\ UNCHANGED <<phase, targets, round, kind, basis, marked, defect, cacheVars, build, run>>

Dispose(c, d) == disp' = [disp EXCEPT ![c] = d]

\* A real bug is reported, as a finding when its intent has independent support.
ReportBug(c) ==
    /\ Classified(c, "REAL_BUG")
    /\ \E d \in {"finding", "suspected_bug"} : Dispose(c, d)
    /\ UNCHANGED <<batch, status, backend, depth, repairedBy>>

BlameModel(c) ==
    /\ Classified(c, "INCOMPLETE_MODEL")
    /\ status' = [status EXCEPT ![c] = "MODEL_INCOMPLETE"]
    /\ Dispose(c, "model_gap")
    /\ UNCHANGED <<batch, backend, depth, repairedBy>>

\* No claim comes out of the repair: rejected, refused assumption, or screened out.
DropClaim(c) ==
    /\ Classified(c, "REPAIRABLE")
    /\ IF depth[c] >= MaxRefinements THEN Dispose(c, "refinement_limit")
       ELSE \E d \in {"rejected_by_repair", "repair_rejected_by_critic"}
                      \cup (IF FnOf[c] \in Reaches THEN {"repair_refused"} ELSE {}) : Dispose(c, d)
    /\ UNCHANGED <<batch, status, backend, depth, repairedBy>>

\* n restates c after a repair: the same function, and every prose assumption of c; a new
\* assumption is offered only about an unsupported external.
RepairOf(c, n) ==
    /\ n # c /\ FnOf[n] = FnOf[c]
    /\ c \in Assumes => n \in Assumes
    /\ n \in Assumes => c \in Assumes \/ FnOf[c] \in Reaches

RepairKnown(c) ==
    /\ Classified(c, "REPAIRABLE") /\ depth[c] < MaxRefinements
    /\ \E n \in Registered : RepairOf(c, n)
    /\ Dispose(c, "repair_duplicates_existing")
    /\ UNCHANGED <<batch, status, backend, depth, repairedBy>>

\* Mutant: only the claims in flight are compared with.
NotInFlight(n) == n \notin batch \cup todo
IsNew(n) == n \notin Registered

RepairWith(c, n) ==
    /\ Classified(c, "REPAIRABLE") /\ depth[c] < MaxRefinements
    /\ IsNew(n) /\ RepairOf(c, n)
    /\ \E b \in {"lean-kernel", "cpir-structural", "none"} :
          /\ Routed(n, b)
          /\ backend' = [backend EXCEPT ![n] = b]
          /\ status' = [status EXCEPT ![n] = RouteStatus(b)]
          /\ batch' = IF b = "none" THEN batch ELSE batch \cup {n}
    /\ depth' = [depth EXCEPT ![n] = depth[c] + 1]
    /\ repairedBy' = [repairedBy EXCEPT ![c] = n]
    /\ Dispose(c, "repaired")

Adjudicate(c) == \/ ReportBug(c) \/ BlameModel(c) \/ DropClaim(c) \/ RepairKnown(c)
                 \/ \E n \in Claims : RepairWith(c, n)

\* The fresh repairs are verified in the same round; without any, refine stops.
EndRound ==
    /\ phase = "adjudicate" /\ todo = {}
    /\ IF batch = {} THEN EnterProve
       ELSE phase' = "verify" /\ todo' = batch /\ UNCHANGED batch
    /\ UNCHANGED <<targets, round, resultVars, claimVars, ceVars, defect, cacheVars, build, run>>

-----------------------------------------------------------------------------
(* Prover agent, diagnosis, report                                         *)

\* The agent's proof was re-checked against the original statement, or nothing changes.
ProveOpen(c) ==
    /\ phase = "prove" /\ c \in todo
    /\ todo' = todo \ {c}
    /\ \/ /\ status' = [status EXCEPT ![c] = "PROVED"]
          /\ basis' = [basis EXCEPT ![c] = build]
       \/ UNCHANGED <<status, basis>>
    /\ UNCHANGED <<phase, targets, batch, round, kind, claimVars, ceVars, defect,
                   cacheVars, build, run>>

\* Mutant: a disagreement of kernel and evaluator is not diagnosed.
OnlyIncomplete == {c \in Selected : status[c] = "MODEL_INCOMPLETE"}
Undiagnosed == {c \in Selected : status[c] \in ModelStatuses}

EndProve ==
    /\ phase = "prove" /\ todo = {}
    /\ phase' = "diagnose"
    /\ todo' = Undiagnosed
    /\ UNCHANGED <<targets, batch, round, resultVars, claimVars, ceVars, defect,
                   cacheVars, build, run>>

Diagnose(c) ==
    /\ phase = "diagnose" /\ c \in todo
    /\ todo' = todo \ {c} /\ defect' = defect \cup {c}
    /\ UNCHANGED <<phase, targets, batch, round, resultVars, claimVars, ceVars, cacheVars, build, run>>

EndDiagnose ==
    /\ phase = "diagnose" /\ todo = {} /\ phase' = "save"
    /\ UNCHANGED <<targets, batch, todo, round, resultVars, claimVars, ceVars, defect,
                   cacheVars, build, run>>

\* Mutant: a proof over a finite domain keeps its status.
OnlyProved == {"PROVED"}
Unconditional == {"PROVED", "BOUNDED_PROVED"}

\* finish: the cache is written first ...
SaveCache ==
    /\ phase = "save" /\ phase' = "label"
    /\ disk' = IF UseCache THEN index ELSE disk
    /\ UNCHANGED <<targets, batch, todo, round, resultVars, claimVars, ceVars, defect,
                   index, build, run>>

\* ... then a proof that rests on prose assumptions loses its unconditional status ...
LabelAssumptions ==
    /\ phase = "label" /\ phase' = "report"
    /\ status' = [c \in Claims |-> IF c \in Assumes /\ status[c] \in Unconditional
                                   THEN "ASSUMPTION_DEPENDENT" ELSE status[c]]
    /\ UNCHANGED <<targets, batch, todo, round, kind, basis, claimVars, ceVars, defect,
                   cacheVars, build, run>>

\* ... and the proof values are judged and the report written.
Report ==
    /\ phase = "report" /\ phase' = "done"
    /\ UNCHANGED <<targets, batch, todo, round, resultVars, claimVars, ceVars, defect,
                   cacheVars, build, run>>

\* A judge that stops answering, a missing sandbox or a killed process ends the run; while
\* index.json is being written it leaves a file that loads as an empty cache.
Fail ==
    /\ phase \in Running /\ phase' = "failed"
    /\ \/ UNCHANGED disk
       \/ phase = "save" /\ UseCache /\ disk' = [k \in Keys |-> NoEntry]
    /\ UNCHANGED <<targets, batch, todo, round, resultVars, claimVars, ceVars, defect,
                   index, build, run>>

-----------------------------------------------------------------------------
Step == \/ \E f \in Functions : Propose(f)
        \/ EndPropose
        \/ \E c \in Claims : Verify(c)
        \/ EndVerify
        \/ \E c \in Claims : Adjudicate(c)
        \/ EndRound
        \/ \E c \in Claims : ProveOpen(c)
        \/ EndProve
        \/ \E c \in Claims : Diagnose(c)
        \/ EndDiagnose
        \/ SaveCache \/ LabelAssumptions \/ Report

Next == StartRun \/ Step \/ Fail

Spec == Init /\ [][Next]_vars
\* The run is one process that goes on as long as it is not killed.
FairSpec == Spec /\ WF_vars(Step)
-----------------------------------------------------------------------------
(* Correctness                                                             *)

TypeOK ==
    /\ phase \in Phases /\ targets \subseteq Functions
    /\ batch \subseteq Claims /\ todo \subseteq Claims
    /\ round \in 0..(MaxRefinements + 1)
    /\ status \in [Claims -> Statuses] /\ kind \in [Claims -> Kinds]
    /\ basis \in [Claims -> Builds \cup {None}]
    /\ backend \in [Claims -> {"none", "lean-kernel", "cpir-structural"}]
    /\ depth \in [Claims -> 0..MaxRefinements] /\ marked \subseteq Claims
    /\ class \in [Claims -> Classes] /\ native \in [Claims -> {"none", "agree", "disagree"}]
    /\ disp \in [Claims -> Dispositions] /\ repairedBy \in [Claims -> Claims \cup {None}]
    /\ defect \subseteq Claims
    /\ index \in [Keys -> Entries] /\ disk \in [Keys -> Entries]
    /\ build \in Builds /\ run \in 0..MaxRuns

\* "a counterexample classified REAL_BUG is never repaired away - the claim stays REFUTED"
\* (cegis.py): no later round, prover or report rewrites it.
RealBugStands ==
    \A c \in Claims : class[c] = "REAL_BUG" => status[c] = "REFUTED" /\ repairedBy[c] = None

\* Repairs form chains no longer than the number of rounds: a repair is one round deeper
\* than the claim it repairs and repairs no other claim, so the refinement cannot circle
\* back to a claim it already refuted.
RepairsAreChains ==
    \A c \in Claims : repairedBy[c] # None =>
        /\ depth[repairedBy[c]] = depth[c] + 1
        /\ depth[repairedBy[c]] <= MaxRefinements
        /\ class[c] = "REPAIRABLE" /\ status[c] = "REFUTED"
        /\ \A d \in Claims \ {c} : repairedBy[d] # repairedBy[c]

\* When a run reports, every selected claim has a verdict, and every refuted claim but those
\* refuted in the last round was read by the judge and given a disposition.
NothingLeftOpen ==
    phase \in {"save", "label", "report", "done"} =>
        \A c \in Selected :
            /\ status[c] # "PENDING"
            /\ status[c] = "REFUTED" /\ disp[c] = "none" => depth[c] = MaxRefinements

\* "statuses come only from the verifier" (pipeline.py): a claim becomes established only by
\* the verification of a pending claim or by the re-checked proof of an undecided one; once
\* refuted it is never established in that run.
VerdictsFromVerifier ==
    [][run' = run => \A c \in Claims :
          /\ status'[c] \in Held /\ status[c] \notin Held =>
                \/ phase = "verify" /\ status[c] = "PENDING"
                \/ phase = "prove" /\ status[c] = "UNKNOWN"
          /\ status'[c] = "REFUTED" /\ status[c] # "REFUTED" => status[c] = "PENDING"]_vars

\* A reported proof of a claim with prose assumptions is never unconditional, whether the
\* kernel, the cache or the agent established it, and however often the claim was repaired.
AssumptionsSurface ==
    phase \in {"report", "done"} =>
        \A c \in Assumes : status[c] \notin {"PROVED", "BOUNDED_PROVED"}

\* "a rival of the chosen intent cannot be REAL_BUG" (harness.md), for the claims proposed.
MarkedIsNoFinding == \A c \in marked : disp[c] \notin {"finding", "suspected_bug"}

\* A verdict - computed now or taken from the cache - is about the generated module the run
\* verifies, through crashes, torn saves and edits between the runs.
VerdictsOfThisModule ==
    \A c \in Claims : basis[c] # None => basis[c][1] = build[1]

\* Every result the gates attribute to the model is diagnosed before it is reported.
ModelDefectsDiagnosed ==
    phase \in {"save", "label", "report", "done"} =>
        \A c \in Selected : status[c] \in ModelStatuses => c \in defect

\* The stage of the promised life that a status stands for.
Stage(s) == CASE s = "ABSENT"               -> "absent"
              [] s = "NOT_SELECTED"         -> "skipped"
              [] s = "UNSUPPORTED"          -> "unsupported"
              [] s = "PENDING"              -> "pending"
              [] s = "REFUTED"              -> "refuted"
              [] s \in {"UNKNOWN", "TIMEOUT"} -> "open"
              [] s = "BOUNDED_PROVED"       -> "bounded"
              [] s = "PROVED"               -> "proved"
              [] s = "ASSUMPTION_DEPENDENT" -> "conditional"
              [] s \in ModelStatuses        -> "model"
Life == [c \in Claims |-> Stage(status[c])]

\* The harness implements the life of a claim it promises: statuses move only along the
\* edges of ClaimLifecycle, in every interleaving of repairs, cache hits and failures.
Promise == INSTANCE ClaimLifecycle WITH life <- Life
FollowsLifecycle == Promise!Spec

\* A started run reports or fails: neither the repair loop nor the verifier goes on forever.
RunEnds == phase \in Running ~> phase \in {"done", "failed"}

-----------------------------------------------------------------------------
(* What the documents say and the code does not do                         *)

\* "Proof(c) => Semantics_M(P) |= c for the Core interpreter M at this build" (harness.md).
VerdictsOfThisBuild ==
    phase = "done" => \A c \in Claims : status[c] \in Held => basis[c] = build
=============================================================================
