-------------------------------- MODULE Oracle --------------------------------
(***************************************************************************)
(* The differential oracle (scripts/differential.py) and its cache         *)
(* (scripts/oracle_cache.py): runs of the oracle, one after the other,     *)
(* while somebody edits the rendered module or the semantics, builds, or   *)
(* starts a mutation gate.                                                 *)
(*                                                                         *)
(* A verdict stands for what it is about: the definitions a case's         *)
(* evaluation can reach, and the semantics, as they were compiled.         *)
(***************************************************************************)
EXTENDS Naturals, FiniteSets, SequencesExt

CONSTANTS
    Funcs,
    Calls,         \* the functions a function's evaluation enters
    Mentions,      \* the functions its record, or its cases, name
    Inits,         \* the module bodies, which every evaluation runs first
    Cases,         \* numbered
    Of(_),         \* the function a case calls
    Bad,           \* cases that bring the interpreter down
    Changing,      \* the functions somebody edits, and the gate mutates
    Versions,      \* of a rendered definition, and of the semantics
    CHUNK, ATTEMPTS,
    MaxRuns, MaxChanges, MaxBuilds,   \* bounds on the environment
    None

ASSUME OracleAssumption ==
    /\ Cases \subseteq Nat /\ IsFiniteSet(Cases) /\ Bad \subseteq Cases
    /\ Calls \in [Funcs -> SUBSET Funcs] /\ Mentions \in [Funcs -> SUBSET Funcs]
    /\ Changing \subseteq Funcs /\ Inits \subseteq Funcs
    /\ \A c \in Cases : Of(c) \in Funcs
    /\ CHUNK \in Nat \ {0} /\ ATTEMPTS \in Nat \ {0}
    /\ Versions # {}
    /\ \A S \in SUBSET Funcs : None \notin [defs : [S -> [v : Versions, mut : BOOLEAN]], sem : Versions]

VARIABLES
    text, sem,                 \* the rendered definitions and the semantics
    records,                   \* the AST records of the module bodies
    marked, mutant,            \* the gate's backup exists; the definition it has mutated
    live,                      \* what .lake/build was compiled from, or None
    cache,                     \* an entry or None for each function
    run,                       \* the run of the oracle that is going on
    changes, builds, runs      \* counters of the bounds

tree == <<text, sem, records, marked, mutant>>
counts == <<changes, builds, runs>>
vars == <<tree, live, cache, run, counts>>

Reach(next, f) ==
    {g \in Funcs : \A S \in SUBSET Funcs :
        next[f] \subseteq S /\ (\A s \in S : next[s] \subseteq S) => g \in S}

\* The tree as it is now, mutant and all.
Current == [defs |-> [f \in Funcs |-> [v |-> text[f], mut |-> mutant = f]], sem |-> sem]

\* The functions an evaluation of f enters, those of the initializers included.
Entered == [f \in Funcs |-> LET first == {f} \cup Inits
                            IN first \cup UNION {Reach(Calls, g) : g \in first}]

\* What the evaluation of a case of f, compiled from tree t, is about.
About(f, t) == [defs |-> [g \in Entered[f] |-> t.defs[g]], sem |-> t.sem]

\* The cache key of f.  Of the module bodies it has the records alone: neither their rendered text
\* nor what they call.
\* Mutant: the dependencies are not closed.
DirectOnly == [f \in Funcs |-> Mentions[f] \ {f}]
Dependencies == [f \in Funcs |-> Reach(Mentions, f) \ {f}]
Key(f, t, bodies) == [rendering |-> t.defs[f], environment |-> t.sem, module_bodies |-> bodies,
                      dependencies |-> [g \in Dependencies[f] |-> t.defs[g]]]

CasesOf(f) == {c \in Cases : Of(c) = f}
Hit(f) == cache[f] # None /\ cache[f].key = Key(f, Current, records)
Fresh == {c \in Cases : Of(c) \notin run.hits}

\* What lean_eval is called with: the cases in their order, in chunks.
InOrder(S) == CHOOSE s \in [1 .. Cardinality(S) -> S] : \A i, j \in DOMAIN s : i < j => s[i] < s[j]
Whole(s) == [idxs |-> s, retried |-> FALSE]
Chunks(s) == [k \in 1 .. (Len(s) + CHUNK - 1) \div CHUNK |->
                Whole(SubSeq(s, (k - 1) * CHUNK + 1, IF k * CHUNK < Len(s) THEN k * CHUNK ELSE Len(s)))]

\* olean_fingerprint, and what lean_eval runs over.
Artifacts == IF run.isolated THEN run.snap ELSE live

\* No run is going on.  In a run: what its plan read (planned, bodies) and found in the cache (hits),
\* whether a gate owned the module (mutating), the private copy of the artifacts (snap) and whether
\* it is used (isolated), the artifacts an attempt began with (before), the chunks still to be
\* evaluated (work), the answers (got) and the functions whose verdicts are still to be written
\* (store).  The last three are history: see Unseen and GiveUp.
NoRun == [pc |-> "idle", planned |-> None, bodies |-> None, hits |-> {},
          mutating |-> FALSE, isolated |-> FALSE, snap |-> None, attempt |-> 0, before |-> None, work |-> <<>>,
          got |-> [c \in Cases |-> None], store |-> {},
          dirty |-> FALSE, touched |-> FALSE, lost |-> FALSE]

Init ==
    /\ text \in [Funcs -> {CHOOSE v \in Versions : TRUE}] /\ sem = CHOOSE v \in Versions : TRUE
    /\ records = [m \in Inits |-> CHOOSE v \in Versions : TRUE]
    /\ marked = FALSE /\ mutant = None
    /\ live = Current
    /\ cache = [f \in Funcs |-> None]
    /\ run = NoRun
    /\ changes = 0 /\ builds = 0 /\ runs = 0

-------------------------------------------------------------------------------
(* A run of the oracle.                                                    *)

\* Read the records and the rendered text, plan the keys, look the entries up.
Plan ==
    /\ run.pc = "idle" /\ runs < MaxRuns
    /\ runs' = runs + 1
    /\ LET hits == {f \in Funcs : CasesOf(f) # {} /\ Hit(f)}
       IN run' = [NoRun EXCEPT !.planned = Current, !.bodies = records, !.hits = hits,
                               !.pc = IF \A c \in Cases : Of(c) \in hits THEN "check" ELSE "build"]
    /\ UNCHANGED <<tree, live, cache, changes, builds>>

\* lake build before anything is trusted; a failed one ends the run.
Build ==
    /\ run.pc = "build"
    /\ \/ live' = Current /\ run' = [run EXCEPT !.pc = "check"]
       \/ run' = NoRun /\ UNCHANGED live
    /\ UNCHANGED <<tree, cache, counts>>

\* Does a mutation gate own the module right now?
Check ==
    /\ run.pc = "check"
    /\ run' = [run EXCEPT !.mutating = marked, !.pc = IF Fresh = {} THEN "attempt" ELSE "copy"]
    /\ UNCHANGED <<tree, live, cache, counts>>

\* Copy the compiled artifacts aside, or give up and evaluate against the live tree.
Copied == [run EXCEPT !.isolated = TRUE, !.snap = live, !.touched = @ \/ run.dirty]
Copy ==
    /\ run.pc = "copy"
    /\ \E r \in {Copied, run} : run' = [r EXCEPT !.pc = "attempt"]
    /\ UNCHANGED <<tree, live, cache, counts>>

\* Mutant: the attempts are not counted.
NotCounted == run.attempt
Tried == run.attempt + 1

Attempt ==
    /\ run.pc = "attempt"
    /\ run' = [run EXCEPT !.attempt = Tried, !.before = Artifacts, !.got = NoRun.got, !.lost = FALSE,
                          !.work = Chunks(InOrder(Fresh)), !.pc = "eval"]
    /\ UNCHANGED <<tree, live, cache, counts>>

\* What one lean process answers: everything, or what it printed before a case brought it down.
Answered(idxs) ==
    LET down == {i \in DOMAIN idxs : idxs[i] \in Bad}
    IN IF down = {} THEN {ToSet(idxs)}
       ELSE {{idxs[j] : j \in 1 .. k} : k \in {n \in 0 .. Len(idxs) : \A i \in down : n < i}}

\* Mutant: the second half is forgotten.
FirstHalf(s) == <<Whole(SubSeq(s, 1, Len(s) \div 2))>>
Halves(s) == LET mid == Len(s) \div 2
             IN <<Whole(SubSeq(s, 1, mid)), Whole(SubSeq(s, mid + 1, Len(s)))>>

Evaluate ==
    /\ run.pc = "eval" /\ run.work # <<>> /\ Artifacts # None
    /\ LET s == Head(run.work).idxs
       IN \E answered \in Answered(s) :
            run' = [run EXCEPT
                !.got = [c \in Cases |-> IF c \in answered THEN About(Of(c), Artifacts) ELSE @[c]],
                !.work = (IF ToSet(s) # answered /\ Len(s) > 1 THEN Halves(s) ELSE <<>>) \o Tail(@)]
    /\ UNCHANGED <<tree, live, cache, counts>>

\* The file never reached its first case: rebuild, copy again, and try once more.
Again == [Head(run.work) EXCEPT !.retried = TRUE]
Retry ==
    /\ run.pc = "eval" /\ run.work # <<>> /\ Artifacts = None /\ ~Head(run.work).retried
    /\ live' \in {Current, live}
    /\ run' = [run EXCEPT !.snap = IF run.isolated THEN live' ELSE @, !.touched = @ \/ run.dirty,
                          !.work = <<Again>> \o Tail(@)]
    /\ UNCHANGED <<tree, cache, counts>>

\* An environment failure is not bisected.
GiveUp ==
    /\ run.pc = "eval" /\ run.work # <<>> /\ Artifacts = None /\ Head(run.work).retried
    /\ run' = [run EXCEPT !.lost = TRUE, !.work = Tail(@)]
    /\ UNCHANGED <<tree, live, cache, counts>>

\* Functions with an interpreter failure leave no entry.
Uncacheable == {f \in Funcs : \E c \in CasesOf(f) : run.got[c] = None}
Moved == sem # run.planned.sem \/ records # run.bodies
\* The functions whose verdicts are kept for the next run: none, unless the artifacts held still.
Kept(stable) == IF stable /\ ~run.mutating /\ ~Moved
                THEN {f \in Funcs : CasesOf(f) # {}} \ (run.hits \cup Uncacheable) ELSE {}

Evaluated ==
    /\ run.pc = "eval" /\ run.work = <<>>
    /\ LET stable == Artifacts = run.before
       IN run' = IF ~stable /\ run.attempt < ATTEMPTS
                 THEN [run EXCEPT !.pc = "attempt"]
                 ELSE [run EXCEPT !.pc = "store", !.store = Kept(stable),
                                  !.touched = @ \/ (run.dirty /\ ~run.isolated)]
    /\ UNCHANGED <<tree, live, cache, counts>>

\* One entry at a time, each replaced as a whole.
Entry(f) == [key |-> Key(f, run.planned, run.bodies),
             verdicts |-> [c \in CasesOf(f) |-> run.got[c]], touched |-> run.touched]
Store ==
    /\ run.pc = "store"
    /\ \/ run.store = {} /\ run' = NoRun /\ UNCHANGED cache
       \/ \E f \in run.store :
            /\ cache' = [cache EXCEPT ![f] = Entry(f)]
            /\ run' = [run EXCEPT !.store = @ \ {f}]
    /\ UNCHANGED <<tree, live, counts>>

\* A lake or a lean that never returns: none of the calls has a timeout.
Hang ==
    /\ run.pc \in {"build", "copy"} \/ (run.pc = "eval" /\ run.work # <<>>)
    /\ run' = [NoRun EXCEPT !.pc = "hung"]
    /\ UNCHANGED <<tree, live, cache, counts>>

\* The oracle is killed: only the entries written so far are left.
Killed ==
    /\ run.pc # "idle" /\ run' = NoRun
    /\ UNCHANGED <<tree, live, cache, counts>>

OracleStep == Build \/ Check \/ Copy \/ Attempt \/ Evaluate \/ Retry \/ GiveUp \/ Evaluated \/ Store

-------------------------------------------------------------------------------
(* Everybody else.                                                         *)

\* History.  dirty: since the plan was made, the tree changed in a way no test of the run can
\* see.  touched: it had, when the artifacts were last copied, or the semantics were put back.
Unseen(change) == run' = [run EXCEPT !.dirty = @ \/ (run.pc # "idle" /\ change)]

\* Somebody edits a definition, or renders the module anew.
Edit ==
    /\ changes < MaxChanges /\ changes' = changes + 1
    /\ \E f \in Changing : \E v \in Versions \ {text[f]} : text' = [text EXCEPT ![f] = v]
    /\ Unseen(TRUE)
    /\ UNCHANGED <<sem, records, marked, mutant, live, cache, builds, runs>>

\* Somebody exports the AST anew, and a module body has changed.
Export ==
    /\ changes < MaxChanges /\ changes' = changes + 1
    /\ \E m \in Inits : \E v \in Versions \ {records[m]} : records' = [records EXCEPT ![m] = v]
    /\ UNCHANGED <<text, sem, marked, mutant, live, cache, run, builds, runs>>

\* Somebody edits the semantics; a run sees that, unless the edit is taken back.
EditSemantics ==
    /\ changes < MaxChanges /\ changes' = changes + 1
    /\ sem' \in Versions \ {sem}
    /\ run' = [run EXCEPT !.touched = @ \/ (run.planned # None /\ sem' = run.planned.sem)]
    /\ UNCHANGED <<text, records, marked, mutant, live, cache, builds, runs>>

\* A mutation gate starts; mutates a definition, or puts it back; ends.  A run sees the gate that is there
\* when it checks.
GateStarts ==
    /\ ~marked /\ marked' = TRUE /\ changes < MaxChanges /\ changes' = changes + 1
    /\ Unseen(run.pc \notin {"build", "check"})
    /\ UNCHANGED <<text, sem, records, mutant, live, cache, builds, runs>>
GateMutates ==
    /\ marked /\ mutant' \in (Changing \cup {None}) \ {mutant}
    /\ UNCHANGED <<text, sem, records, marked, live, cache, run, counts>>
GateEnds ==
    /\ marked /\ mutant = None /\ marked' = FALSE
    /\ Unseen(run.pc \in {"build", "check"})
    /\ UNCHANGED <<text, sem, records, mutant, live, cache, counts>>

\* Somebody builds: the artifacts are replaced, or disappear and come back.
OtherBuild ==
    /\ \/ live # None /\ live' = None /\ builds < MaxBuilds /\ builds' = builds + 1
       \/ live # Current /\ live' = Current /\ UNCHANGED builds
    /\ UNCHANGED <<tree, cache, run, changes, runs>>

Next ==
    \/ Plan \/ OracleStep \/ Hang \/ Killed
    \/ Edit \/ Export \/ EditSemantics \/ GateStarts \/ GateMutates \/ GateEnds \/ OtherBuild
Spec == Init /\ [][Next]_vars
\* The oracle goes on by itself, once it was started, until a call hangs.
FairSpec == Spec /\ WF_vars(OracleStep)

-------------------------------------------------------------------------------
(* Properties.                                                             *)

Verdicts(f) == {cache[f].verdicts[c] : c \in CasesOf(f)}
Named == [f \in Funcs |-> {f} \cup Reach(Mentions, f)]

\* A verdict replayed from the cache is one the interpreter gave, in an earlier run, for each of
\* its function's cases, under the semantics this run's plan has read and on exactly the
\* definitions it has read of the function and of all that it names, directly or through others:
\* oracle_cache.plan and lookup, and what differential.py refuses to store.  What is entered without
\* being named may have changed (ReplayedWhole); entries computed while the tree changed unseen are
\* set aside (NoDoubtInherited).
ReplayIsTrue ==
    run.pc \notin {"idle", "store"} =>
        \A f \in run.hits : ~cache[f].touched => \A v \in Verdicts(f) :
            /\ DOMAIN v.defs = Entered[f] /\ v.sem = run.planned.sem
            /\ \A g \in Entered[f] \cap Named[f] : v.defs[g] = run.planned.defs[g]

\* Once a run has evaluated its cases, each one Lean can answer by itself has its answer, however
\* many others in its chunk brought the interpreter down, unless the environment failed:
\* lean_eval's bisection.
Bisected ==
    run.pc = "store" /\ ~run.lost => \A c \in Fresh \ Bad : run.got[c] # None

\* A run ends, or one of its calls of lake or lean never returns, whatever others build, edit or
\* mutate in the meantime: the attempts are counted and a chunk is retried once.
RunEnds == (run.pc # "idle") ~> (run.pc \in {"idle", "hung"})

-------------------------------------------------------------------------------
(* What comments say and the code does not do                              *)

\* "A cached verdict is reused only when EVERYTHING the verdict depends on is byte-identical": the
\* module bodies included, "which every function's evaluation starts from".  The key has their
\* records, and neither what they call nor how they were rendered.
ReplayedWhole ==
    run.pc \notin {"idle", "store"} =>
        \A f \in run.hits : ~cache[f].touched => Verdicts(f) = {About(f, run.planned)}

\* "A mutant module, a tree that moved mid-run, or a case Lean never answered leaves no entry":
\* each entry holds answers, about the definitions its key names and none of them a mutant.  The
\* code looks for a gate once, before the artifacts are copied, and never again at the rendered text.
NoDoubtInherited ==
    \A f \in Funcs : cache[f] # None => \A c \in CasesOf(f) :
        LET v == cache[f].verdicts[c]
        IN /\ v # None
           /\ \A g \in DOMAIN v.defs : ~v.defs[g].mut
           /\ v.defs[f] = cache[f].key.rendering
           /\ \A g \in DOMAIN v.defs \cap Dependencies[f] : v.defs[g] = cache[f].key.dependencies[g]
===============================================================================
