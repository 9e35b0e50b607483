----------------------------- MODULE Oracle_proofs -----------------------------
(***************************************************************************)
(* What a verdict replayed from the cache is worth, for every call graph,  *)
(* every set of cases and any interference.                                *)
(***************************************************************************)
EXTENDS Oracle, FiniteSetTheorems, FunctionTheorems, SequenceTheorems, TLAPS

-----------------------------------------------------------------------------
(* What can be reached                                                     *)

\* Reach contains what is entered directly, and is closed.
LEMMA ReachClosed ==
    ASSUME NEW next \in [Funcs -> SUBSET Funcs], NEW f \in Funcs
    PROVE  /\ Reach(next, f) \subseteq Funcs /\ next[f] \subseteq Reach(next, f)
           /\ \A g \in Reach(next, f) : next[g] \subseteq Reach(next, f)
<1>1. Reach(next, f) \subseteq Funcs
  BY DEF Reach
<1>2. next[f] \subseteq Reach(next, f)
  BY DEF Reach
<1>3. ASSUME NEW g \in Reach(next, f), NEW h \in next[g] PROVE h \in Reach(next, f)
  <2>1. h \in Funcs
    BY <1>1
  <2>2. ASSUME NEW S \in SUBSET Funcs, next[f] \subseteq S, \A s \in S : next[s] \subseteq S PROVE h \in S
    BY <2>2 DEF Reach
  <2>3. QED
    BY <2>1, <2>2 DEF Reach
<1>4. QED
  BY <1>1, <1>2, <1>3

\* A verdict is about what its key says, as far as the key speaks of what was entered.
Determined(f, key, v) ==
    /\ DOMAIN v.defs = Entered[f] /\ v.sem = key.environment
    /\ \A g \in Entered[f] \cap Named[f] : v.defs[g] = IF g = f THEN key.rendering ELSE key.dependencies[g]

\* What a key of the tree t determines is what tree t says.
LEMMA KeySays ==
    ASSUME NEW f \in Funcs, NEW t, NEW bodies, NEW v
    PROVE  Determined(f, Key(f, t, bodies), v) <=>
               /\ DOMAIN v.defs = Entered[f] /\ v.sem = t.sem
               /\ \A g \in Entered[f] \cap Named[f] : v.defs[g] = t.defs[g]
<1> DEFINE key == Key(f, t, bodies)
<1>1. \A g \in Named[f] : g # f => g \in Dependencies[f]
  BY DEF Named, Dependencies
<1>2. key.rendering = t.defs[f] /\ key.environment = t.sem
      /\ \A g \in Dependencies[f] : key.dependencies[g] = t.defs[g]
  BY DEF Key
<1> HIDE DEF key
<1>3. \A g \in Named[f] : (IF g = f THEN key.rendering ELSE key.dependencies[g]) = t.defs[g]
  BY <1>1, <1>2
<1>4. Determined(f, key, v) <=>
          /\ DOMAIN v.defs = Entered[f] /\ v.sem = t.sem
          /\ \A g \in Entered[f] \cap Named[f] : v.defs[g] = t.defs[g]
  BY <1>2, <1>3 DEF Determined
<1>5. QED
  BY <1>4 DEF key

LEMMA KeyDetermines ==
    ASSUME NEW f \in Funcs, NEW t, NEW bodies
    PROVE  Determined(f, Key(f, t, bodies), About(f, t))
<1>1. /\ DOMAIN About(f, t).defs = Entered[f] /\ About(f, t).sem = t.sem
      /\ \A g \in Entered[f] : About(f, t).defs[g] = t.defs[g]
  BY DEF About
<1>2. QED
  BY <1>1, KeySays
-----------------------------------------------------------------------------
(* The inductive invariant                                                 *)

Trees == [defs : [Funcs -> [v : Versions, mut : BOOLEAN]], sem : Versions]
Early == {"build", "check"}
Later == {"copy", "attempt", "eval"}

RunTyped ==
    /\ DOMAIN run = DOMAIN NoRun
    /\ run.pc \in {"idle", "hung", "store"} \cup Early \cup Later
    /\ run.hits \subseteq Funcs
    /\ run.mutating \in BOOLEAN /\ run.isolated \in BOOLEAN
    /\ run.dirty \in BOOLEAN /\ run.touched \in BOOLEAN
    /\ run.pc \notin {"idle", "hung"} => run.planned \in Trees
    /\ run.pc \in Early \cup {"copy"} => ~run.isolated

Typed ==
    /\ text \in [Funcs -> Versions] /\ sem \in Versions
    /\ marked \in BOOLEAN /\ (mutant # None => marked)
    /\ DOMAIN cache = Funcs
    /\ RunTyped

\* Nobody has put the semantics back: if they are the planned ones, they never were others.
Undoubted == ~run.touched /\ sem = run.planned.sem
\* As far as this run looks for a gate, there is none.
NoGate == \/ run.pc \in Early /\ ~marked
          \/ run.pc \in Later /\ ~run.mutating

\* While nothing changed unseen, the definitions are the planned ones;
Held == ~run.dirty /\ NoGate => ~marked /\ run.planned.defs = Current.defs
\* once the run has built, the artifacts are gone or those of the plan;
Built == ~run.dirty /\ NoGate /\ Undoubted /\ run.pc # "build" /\ Fresh # {} =>
            live \in {None, run.planned}
\* a private copy stays so, whatever happens to the tree;
CopyHeld == run.pc \in Later /\ run.isolated /\ ~run.mutating /\ Undoubted /\ Fresh # {} =>
            run.snap \in {None, run.planned}
\* and what was answered is about the plan.
Answers ==
    run.pc = "eval" /\ ~run.mutating /\ Undoubted /\ (run.isolated \/ ~run.dirty) /\ Fresh # {} =>
        \A c \in Cases : run.got[c] \in {None, About(Of(c), run.planned)}
ToStore ==
    run.pc = "store" /\ ~run.touched =>
        \A f \in run.store : \A c \in CasesOf(f) : run.got[c] = About(f, run.planned)

\* What an entry without a doubt holds.
Entries ==
    \A f \in Funcs : cache[f] # None /\ ~cache[f].touched =>
        \A c \in CasesOf(f) : Determined(f, cache[f].key, cache[f].verdicts[c])

OracleInv == /\ Typed /\ Held /\ Built /\ CopyHeld /\ Answers /\ ToStore
             /\ Entries /\ ReplayIsTrue

\* What a step keeps that leaves the cache and the run's plan alone.
LEMMA SamePlan ==
    ASSUME OracleInv, cache' = cache, run'.hits = run.hits, run'.planned = run.planned,
           run'.pc \in {"idle", "store"} \/ run.pc \notin {"idle", "store"}
    PROVE  Entries' /\ ReplayIsTrue' /\ Fresh' = Fresh
<1>1. Entries'
  BY DEF OracleInv, Entries
<1>2. ReplayIsTrue'
  BY DEF OracleInv, ReplayIsTrue, Verdicts
<1>3. Fresh' = Fresh
  BY DEF Fresh
<1>4. QED
  BY <1>1, <1>2, <1>3

\* And one after which no run goes on.
LEMMA RunOver ==
    ASSUME OracleInv, run' \in {NoRun, [NoRun EXCEPT !.pc = "hung"]}, UNCHANGED <<tree, cache>>
    PROVE  OracleInv'
<1>1. run'.pc \in {"idle", "hung"} /\ run'.hits = {} /\ DOMAIN run' = DOMAIN NoRun
      /\ run'.mutating = FALSE /\ run'.isolated = FALSE /\ run'.dirty = FALSE /\ run'.touched = FALSE
  BY DEF NoRun
<1>2. Typed'
  BY <1>1 DEF OracleInv, Typed, RunTyped, tree, Early, Later
<1>3. Held' /\ Built' /\ CopyHeld' /\ Answers' /\ ToStore' /\ ReplayIsTrue'
  BY <1>1 DEF Held, Built, CopyHeld, Answers, ToStore, ReplayIsTrue, NoGate, Early, Later
<1>4. Entries'
  BY DEF OracleInv, Entries
<1>5. QED
  BY <1>2, <1>3, <1>4 DEF OracleInv

\* The tree, as somebody reads it, is never None.
LEMMA CurrentTree ==
    ASSUME Typed
    PROVE  Current \in Trees
<1>1. [f \in Funcs |-> [v |-> text[f], mut |-> mutant = f]] \in [Funcs -> [v : Versions, mut : BOOLEAN]]
  <2>1. \A f \in Funcs : text[f] \in Versions /\ (mutant = f) \in BOOLEAN
    BY DEF Typed
  <2>2. QED
    BY <2>1
<1>2. QED
  BY <1>1 DEF Current, Trees, Typed

LEMMA AtInit == Init => OracleInv
<1> SUFFICES ASSUME Init PROVE OracleInv
  OBVIOUS
<1>1. run.pc = "idle" /\ run.hits = {} /\ DOMAIN run = DOMAIN NoRun
      /\ run.mutating = FALSE /\ run.isolated = FALSE /\ run.dirty = FALSE /\ run.touched = FALSE
  BY DEF Init, NoRun
<1>2. (CHOOSE v \in Versions : TRUE) \in Versions
  BY OracleAssumption
<1>3. Typed
  BY <1>1, <1>2 DEF Init, Typed, RunTyped, Early, Later
<1>4. Held /\ Built /\ CopyHeld /\ Answers /\ ToStore /\ ReplayIsTrue
  BY <1>1 DEF Held, Built, CopyHeld, Answers, ToStore, ReplayIsTrue, NoGate, Early, Later
<1>5. Entries
  BY DEF Init, Entries
<1>6. QED
  BY <1>3, <1>4, <1>5 DEF OracleInv

\* A plan reads the tree, and takes an entry for what its key says.
LEMMA ByPlan == OracleInv /\ Plan => OracleInv'
<1> SUFFICES ASSUME OracleInv, Plan PROVE OracleInv'
  OBVIOUS
<1> DEFINE hits == {f \in Funcs : CasesOf(f) # {} /\ Hit(f)}
<1>1. /\ run'.pc \in {"check", "build"} /\ run'.planned = Current /\ run'.hits = hits
      /\ DOMAIN run' = DOMAIN NoRun /\ run'.mutating = FALSE /\ run'.isolated = FALSE
      /\ run'.dirty = FALSE /\ run'.touched = FALSE
      /\ (\A c \in Cases : Of(c) \in hits) \/ run'.pc = "build"
      /\ UNCHANGED <<text, sem, marked, mutant, live, cache>>
  BY DEF Plan, NoRun, tree
<1>2. Typed'
  <2>1. Current \in Trees
    BY CurrentTree DEF OracleInv
  <2>2. QED
    BY <1>1, <2>1 DEF OracleInv, Typed, RunTyped, Early, Later
<1>3. Held'
  BY <1>1 DEF OracleInv, Held, NoGate, Early, Later, Typed, Current
<1>4. Built'
  BY <1>1 DEF Built, Fresh
<1>5. CopyHeld' /\ Answers' /\ ToStore'
  BY <1>1 DEF CopyHeld, Answers, ToStore, Later
<1>6. Entries'
  BY <1>1 DEF OracleInv, Entries
<1>7. ReplayIsTrue'
  <2> SUFFICES ASSUME NEW f \in hits, ~cache[f].touched,
                      NEW c \in CasesOf(f), NEW v, v = cache[f].verdicts[c]
               PROVE  /\ DOMAIN v.defs = Entered[f] /\ v.sem = Current.sem
                      /\ \A g \in Entered[f] \cap Named[f] : v.defs[g] = Current.defs[g]
    BY <1>1 DEF ReplayIsTrue, Verdicts
  <2>1. f \in Funcs /\ CasesOf(f) # {} /\ cache[f] # None /\ cache[f].key = Key(f, Current, records)
    BY DEF Hit
  <2>2. Determined(f, Key(f, Current, records), v)
    BY <2>1 DEF OracleInv, Entries
  <2>3. QED
    BY <2>1, <2>2, KeySays
<1>8. QED
  BY <1>2, <1>3, <1>4, <1>5, <1>6, <1>7 DEF OracleInv

\* The artifacts are built of the tree as it is.
LEMMA ByBuild == OracleInv /\ Build => OracleInv'
<1> SUFFICES ASSUME OracleInv, Build PROVE OracleInv'
  OBVIOUS
<1>1. CASE run' = NoRun
  BY <1>1, RunOver DEF Build
<1>2. CASE live' = Current /\ run' = [run EXCEPT !.pc = "check"]
  <2>1. /\ run.pc = "build" /\ run'.pc = "check" /\ DOMAIN run' = DOMAIN NoRun
        /\ run'.planned = run.planned /\ run'.hits = run.hits /\ run'.mutating = run.mutating
        /\ run'.isolated = run.isolated /\ run'.dirty = run.dirty /\ run'.touched = run.touched
        /\ UNCHANGED <<text, sem, marked, mutant, cache>>
    BY <1>2 DEF Build, OracleInv, Typed, RunTyped, NoRun, tree
  <2>2. Typed'
    BY <2>1 DEF OracleInv, Typed, RunTyped, Early, Later
  <2>3. Held'
    BY <2>1 DEF OracleInv, Held, NoGate, Early, Later, Current
  <2>4. Built'
    <3> SUFFICES ASSUME ~run.dirty, ~marked, Undoubted PROVE live' = run.planned
      BY <2>1 DEF Built, NoGate, Early, Later, Undoubted
    <3>1. run.planned.defs = Current.defs /\ run.planned \in Trees
      BY <2>1 DEF OracleInv, Held, NoGate, Early, Typed, RunTyped
    <3>2. run.planned.sem = Current.sem
      BY DEF Undoubted, Current
    <3>3. run.planned = Current
      BY <3>1, <3>2, CurrentTree DEF OracleInv, Trees
    <3>4. QED
      BY <3>3, <1>2
  <2>5. CopyHeld' /\ Answers' /\ ToStore'
    BY <2>1 DEF CopyHeld, Answers, ToStore, Later
  <2>6. Entries' /\ ReplayIsTrue'
    BY <2>1, SamePlan
  <2>7. QED
    BY <2>2, <2>3, <2>4, <2>5, <2>6 DEF OracleInv
<1>3. QED
  BY <1>1, <1>2 DEF Build

\* The gate that is there is seen, and spoils the run.
LEMMA ByCheck == OracleInv /\ Check => OracleInv'
<1> SUFFICES ASSUME OracleInv, Check PROVE OracleInv'
  OBVIOUS
<1>1. /\ run.pc = "check" /\ run'.pc \in {"attempt", "copy"} /\ DOMAIN run' = DOMAIN NoRun
      /\ run'.planned = run.planned /\ run'.hits = run.hits /\ run'.mutating = marked
      /\ run'.isolated = run.isolated /\ run'.dirty = run.dirty /\ run'.touched = run.touched
      /\ UNCHANGED <<text, sem, marked, mutant, live, cache>>
  BY DEF Check, OracleInv, Typed, RunTyped, NoRun, tree
<1>2. Typed'
  BY <1>1 DEF OracleInv, Typed, RunTyped, Early, Later
<1>3. Held'
  BY <1>1 DEF OracleInv, Held, NoGate, Early, Later, Current
<1>4. Entries' /\ ReplayIsTrue' /\ Fresh' = Fresh
  BY <1>1, SamePlan
<1>5. Built'
  BY <1>1, <1>4 DEF OracleInv, Built, NoGate, Undoubted, Early, Later
<1>6. CopyHeld' /\ Answers' /\ ToStore'
  BY <1>1 DEF OracleInv, Typed, RunTyped, CopyHeld, Answers, ToStore, Early, Later
<1>7. QED
  BY <1>2, <1>3, <1>4, <1>5, <1>6 DEF OracleInv

\* A copy is of what was built, or the run is in doubt.
LEMMA ByCopy == OracleInv /\ Copy => OracleInv'
<1> SUFFICES ASSUME OracleInv, Copy PROVE OracleInv'
  OBVIOUS
<1> PICK r \in {Copied, run} : run' = [r EXCEPT !.pc = "attempt"]
  BY DEF Copy
<1>0. /\ run.pc = "copy" /\ run.isolated = FALSE /\ DOMAIN run = DOMAIN NoRun
      /\ UNCHANGED <<text, sem, marked, mutant, live, cache>>
  BY DEF Copy, OracleInv, Typed, RunTyped, tree
<1>a. /\ DOMAIN r = DOMAIN NoRun /\ r.planned = run.planned /\ r.hits = run.hits
      /\ r.mutating = run.mutating /\ r.dirty = run.dirty
      /\ \/ r.isolated = TRUE /\ r.snap = live /\ r.touched = (run.touched \/ run.dirty)
         \/ r.isolated = FALSE /\ r.touched = run.touched
  <2>1. CASE r = run
    BY <2>1, <1>0
  <2>2. CASE r = Copied
    BY <2>2, <1>0 DEF Copied, NoRun
  <2>3. QED
    BY <2>1, <2>2
<1>1. /\ run.pc = "copy" /\ run'.pc = "attempt" /\ DOMAIN run' = DOMAIN NoRun
      /\ run'.planned = run.planned /\ run'.hits = run.hits /\ run'.mutating = run.mutating
      /\ run'.dirty = run.dirty
      /\ UNCHANGED <<text, sem, marked, mutant, live, cache>>
  BY <1>0, <1>a DEF NoRun
<1>2. \/ run'.isolated = TRUE /\ run'.snap = live /\ run'.touched = (run.touched \/ run.dirty)
      \/ run'.isolated = FALSE /\ run'.touched = run.touched
  BY <1>a DEF NoRun
<1>3. Typed'
  BY <1>1, <1>2 DEF OracleInv, Typed, RunTyped, Early, Later
<1>4. Held'
  BY <1>1 DEF OracleInv, Held, NoGate, Early, Later, Current
<1>5. Entries' /\ ReplayIsTrue' /\ Fresh' = Fresh
  BY <1>1, SamePlan
<1>6. Built'
  BY <1>1, <1>2, <1>5 DEF OracleInv, Built, NoGate, Undoubted, Early, Later
<1>7. CopyHeld'
  BY <1>1, <1>2, <1>5 DEF OracleInv, Typed, RunTyped, Built, CopyHeld, NoGate, Undoubted, Early, Later
<1>8. Answers' /\ ToStore'
  BY <1>1 DEF Answers, ToStore
<1>9. QED
  BY <1>3, <1>4, <1>5, <1>6, <1>7, <1>8 DEF OracleInv

\* An attempt starts from nothing.
LEMMA ByAttempt == OracleInv /\ Attempt => OracleInv'
<1> SUFFICES ASSUME OracleInv, Attempt PROVE OracleInv'
  OBVIOUS
<1>1. /\ run.pc = "attempt" /\ run'.pc = "eval" /\ DOMAIN run' = DOMAIN NoRun
      /\ run'.planned = run.planned /\ run'.hits = run.hits /\ run'.mutating = run.mutating
      /\ run'.isolated = run.isolated /\ run'.snap = run.snap
      /\ run'.dirty = run.dirty /\ run'.touched = run.touched
      /\ run'.got = [c \in Cases |-> None]
      /\ UNCHANGED <<text, sem, marked, mutant, live, cache>>
  BY DEF Attempt, OracleInv, Typed, RunTyped, NoRun, tree
<1>2. Typed'
  BY <1>1 DEF OracleInv, Typed, RunTyped, Early, Later
<1>3. Held'
  BY <1>1 DEF OracleInv, Held, NoGate, Early, Later, Current
<1>4. Entries' /\ ReplayIsTrue' /\ Fresh' = Fresh
  BY <1>1, SamePlan
<1>5. Built' /\ CopyHeld'
  BY <1>1, <1>4 DEF OracleInv, Built, CopyHeld, NoGate, Undoubted, Early, Later
<1>6. Answers' /\ ToStore'
  BY <1>1 DEF Answers, ToStore
<1>7. QED
  BY <1>2, <1>3, <1>4, <1>5, <1>6 DEF OracleInv

\* What Lean answers is about the artifacts it ran over.
LEMMA ByEvaluate == OracleInv /\ Evaluate => OracleInv'
<1> SUFFICES ASSUME OracleInv, Evaluate PROVE OracleInv'
  OBVIOUS
<1>1. /\ run.pc = "eval" /\ run'.pc = "eval" /\ DOMAIN run' = DOMAIN NoRun
      /\ run'.planned = run.planned /\ run'.hits = run.hits /\ run'.mutating = run.mutating
      /\ run'.isolated = run.isolated /\ run'.snap = run.snap
      /\ run'.dirty = run.dirty /\ run'.touched = run.touched
      /\ UNCHANGED <<text, sem, marked, mutant, live, cache>>
  BY DEF Evaluate, OracleInv, Typed, RunTyped, NoRun, tree
<1>2. Typed'
  BY <1>1 DEF OracleInv, Typed, RunTyped, Early, Later
<1>3. Held'
  BY <1>1 DEF OracleInv, Held, NoGate, Early, Later, Current
<1>4. Entries' /\ ReplayIsTrue' /\ Fresh' = Fresh
  BY <1>1, SamePlan
<1>5. Built' /\ CopyHeld'
  BY <1>1, <1>4 DEF OracleInv, Built, CopyHeld, NoGate, Undoubted, Early, Later
<1>6. ToStore'
  BY <1>1 DEF ToStore
<1>7. Answers'
  <2> SUFFICES ASSUME ~run.mutating, Undoubted, run.isolated \/ ~run.dirty, Fresh # {}, NEW c \in Cases
               PROVE  run'.got[c] \in {None, About(Of(c), run.planned)}
    BY <1>1, <1>4 DEF Answers, Undoubted
  <2>1. Artifacts = run.planned
    <3>1. Artifacts # None
      BY DEF Evaluate
    <3>2. Artifacts \in {None, run.planned}
      BY <1>1 DEF OracleInv, Built, CopyHeld, NoGate, Later, Artifacts
    <3>3. QED
      BY <3>1, <3>2
  <2>2. run'.got[c] \in {About(Of(c), Artifacts), run.got[c]}
    BY <1>1 DEF Evaluate, NoRun
  <2>3. run.got[c] \in {None, About(Of(c), run.planned)}
    BY <1>1 DEF OracleInv, Answers
  <2>4. QED
    BY <2>1, <2>2, <2>3
<1>8. QED
  BY <1>2, <1>3, <1>4, <1>5, <1>6, <1>7 DEF OracleInv

\* A rebuild is of the planned tree still, or the run is in doubt.
LEMMA ByRetry == OracleInv /\ Retry => OracleInv'
<1> SUFFICES ASSUME OracleInv, Retry PROVE OracleInv'
  OBVIOUS
<1>1. /\ run.pc = "eval" /\ run'.pc = "eval" /\ DOMAIN run' = DOMAIN NoRun
      /\ run'.planned = run.planned /\ run'.hits = run.hits /\ run'.mutating = run.mutating
      /\ run'.isolated = run.isolated /\ run'.snap = (IF run.isolated THEN live' ELSE run.snap)
      /\ run'.dirty = run.dirty /\ run'.touched = (run.touched \/ run.dirty) /\ run'.got = run.got
      /\ live' \in {Current, live}
      /\ UNCHANGED <<text, sem, marked, mutant, cache>>
  BY DEF Retry, OracleInv, Typed, RunTyped, NoRun, tree
<1>2. Typed'
  BY <1>1 DEF OracleInv, Typed, RunTyped, Early, Later
<1>3. Held'
  BY <1>1 DEF OracleInv, Held, NoGate, Early, Later, Current
<1>4. Entries' /\ ReplayIsTrue' /\ Fresh' = Fresh
  BY <1>1, SamePlan
<1>5. ASSUME ~run.dirty, ~run.mutating, Undoubted, Fresh # {} PROVE live' \in {None, run.planned}
  <2>1. live \in {None, run.planned} /\ run.planned.defs = Current.defs /\ run.planned \in Trees
    BY <1>1, <1>5 DEF OracleInv, Held, Built, NoGate, Later, Typed, RunTyped
  <2>2. run.planned.sem = Current.sem
    BY <1>5 DEF Undoubted, Current
  <2>3. run.planned = Current
    BY <2>1, <2>2, CurrentTree DEF OracleInv, Trees
  <2>4. QED
    BY <1>1, <2>1, <2>3
<1>6. Built' /\ CopyHeld'
  BY <1>1, <1>4, <1>5 DEF OracleInv, Built, CopyHeld, NoGate, Undoubted, Early, Later
<1>7. Answers' /\ ToStore'
  BY <1>1, <1>4 DEF OracleInv, Answers, ToStore, Undoubted
<1>8. QED
  BY <1>2, <1>3, <1>4, <1>6, <1>7 DEF OracleInv

LEMMA ByGiveUp == OracleInv /\ GiveUp => OracleInv'
<1> SUFFICES ASSUME OracleInv, GiveUp PROVE OracleInv'
  OBVIOUS
<1>1. /\ run.pc = "eval" /\ run'.pc = "eval" /\ DOMAIN run' = DOMAIN NoRun
      /\ run'.planned = run.planned /\ run'.hits = run.hits /\ run'.mutating = run.mutating
      /\ run'.isolated = run.isolated /\ run'.snap = run.snap /\ run'.got = run.got
      /\ run'.dirty = run.dirty /\ run'.touched = run.touched
      /\ UNCHANGED <<text, sem, marked, mutant, live, cache>>
  BY DEF GiveUp, OracleInv, Typed, RunTyped, NoRun, tree
<1>2. Typed'
  BY <1>1 DEF OracleInv, Typed, RunTyped, Early, Later
<1>3. Held'
  BY <1>1 DEF OracleInv, Held, NoGate, Early, Later, Current
<1>4. Entries' /\ ReplayIsTrue' /\ Fresh' = Fresh
  BY <1>1, SamePlan
<1>5. Built' /\ CopyHeld' /\ Answers' /\ ToStore'
  BY <1>1, <1>4 DEF OracleInv, Built, CopyHeld, Answers, ToStore, NoGate, Undoubted, Early, Later
<1>6. QED
  BY <1>2, <1>3, <1>4, <1>5 DEF OracleInv

\* Nothing is kept of a run that saw a gate, or other semantics; what is kept holds answers about
\* the plan, unless the run is in doubt.
LEMMA ByEvaluated == OracleInv /\ Evaluated => OracleInv'
<1> SUFFICES ASSUME OracleInv, Evaluated PROVE OracleInv'
  OBVIOUS
<1> DEFINE stable == Artifacts = run.before
<1>0. run.pc = "eval" /\ DOMAIN run = DOMAIN NoRun /\ UNCHANGED <<text, sem, marked, mutant, live, cache>>
  BY DEF Evaluated, OracleInv, Typed, RunTyped, tree
<1>1. CASE run' = [run EXCEPT !.pc = "attempt"]
  <2>1. /\ run'.pc = "attempt" /\ DOMAIN run' = DOMAIN NoRun
        /\ run'.planned = run.planned /\ run'.hits = run.hits /\ run'.mutating = run.mutating
        /\ run'.isolated = run.isolated /\ run'.snap = run.snap
        /\ run'.dirty = run.dirty /\ run'.touched = run.touched
    BY <1>0, <1>1 DEF NoRun
  <2>2. Typed'
    BY <1>0, <2>1 DEF OracleInv, Typed, RunTyped, Early, Later
  <2>3. Held'
    BY <1>0, <2>1 DEF OracleInv, Held, NoGate, Early, Later, Current
  <2>4. Entries' /\ ReplayIsTrue' /\ Fresh' = Fresh
    BY <1>0, <2>1, SamePlan
  <2>5. Built' /\ CopyHeld'
    BY <1>0, <2>1, <2>4 DEF OracleInv, Built, CopyHeld, NoGate, Undoubted, Early, Later
  <2>6. Answers' /\ ToStore'
    BY <2>1 DEF Answers, ToStore
  <2>7. QED
    BY <2>2, <2>3, <2>4, <2>5, <2>6 DEF OracleInv
<1>2. CASE run' = [run EXCEPT !.pc = "store", !.store = Kept(stable),
                              !.touched = @ \/ (run.dirty /\ ~run.isolated)]
  <2>1. /\ run'.pc = "store" /\ DOMAIN run' = DOMAIN NoRun
        /\ run'.planned = run.planned /\ run'.hits = run.hits /\ run'.mutating = run.mutating
        /\ run'.isolated = run.isolated /\ run'.dirty = run.dirty /\ run'.got = run.got
        /\ run'.touched = (run.touched \/ (run.dirty /\ ~run.isolated))
        /\ run'.store = Kept(stable)
    BY <1>0, <1>2 DEF NoRun
  <2>2. Typed'
    BY <1>0, <2>1 DEF OracleInv, Typed, RunTyped, Early, Later
  <2>3. Held' /\ Built' /\ CopyHeld' /\ Answers'
    BY <2>1 DEF Held, Built, CopyHeld, Answers, NoGate, Early, Later
  <2>4. Entries' /\ ReplayIsTrue'
    BY <1>0, <2>1, SamePlan
  <2>5. ToStore'
    <3> SUFFICES ASSUME ~run'.touched, NEW f \in Kept(stable), NEW c \in CasesOf(f)
                 PROVE  run.got[c] = About(f, run.planned)
      BY <2>1 DEF ToStore
    <3>1. ~run.mutating /\ ~Moved /\ f \notin run.hits /\ f \notin Uncacheable /\ f \in Funcs
      BY DEF Kept
    <3>2. c \in Cases /\ Of(c) = f /\ run.got[c] # None
      BY <3>1 DEF Uncacheable, CasesOf
    <3>3. Fresh # {}
      BY <3>1, <3>2 DEF Fresh
    <3>4. Undoubted /\ (run.isolated \/ ~run.dirty)
      BY <2>1, <3>1 DEF Undoubted, Moved
    <3>5. run.got[c] \in {None, About(Of(c), run.planned)}
      BY <1>0, <3>1, <3>2, <3>3, <3>4 DEF OracleInv, Answers
    <3>6. QED
      BY <3>2, <3>5
  <2>6. QED
    BY <2>2, <2>3, <2>4, <2>5 DEF OracleInv
<1>3. QED
  BY <1>1, <1>2 DEF Evaluated

\* An entry says what its key does.
LEMMA ByStore == OracleInv /\ Store => OracleInv'
<1> SUFFICES ASSUME OracleInv, Store PROVE OracleInv'
  OBVIOUS
<1>1. CASE run' = NoRun /\ UNCHANGED cache
  BY <1>1, RunOver DEF Store
<1>2. ASSUME NEW f \in run.store, cache' = [cache EXCEPT ![f] = Entry(f)],
             run' = [run EXCEPT !.store = @ \ {f}]
      PROVE  OracleInv'
  <2>1. /\ run.pc = "store" /\ run'.pc = "store" /\ DOMAIN run' = DOMAIN NoRun
        /\ run'.planned = run.planned /\ run'.hits = run.hits /\ run'.mutating = run.mutating
        /\ run'.isolated = run.isolated /\ run'.dirty = run.dirty /\ run'.touched = run.touched
        /\ run'.got = run.got /\ run'.store = run.store \ {f}
        /\ UNCHANGED <<text, sem, marked, mutant, live>>
    BY <1>2 DEF Store, OracleInv, Typed, RunTyped, NoRun, tree
  <2>2. Typed'
    BY <1>2, <2>1 DEF OracleInv, Typed, RunTyped, Early, Later
  <2>3. Held' /\ Built' /\ CopyHeld' /\ Answers' /\ ReplayIsTrue'
    BY <2>1 DEF Held, Built, CopyHeld, Answers, ReplayIsTrue, NoGate, Early, Later
  <2>4. ToStore'
    BY <2>1 DEF OracleInv, ToStore
  <2>5. Entries'
    <3> SUFFICES ASSUME NEW g \in Funcs, cache'[g] # None, ~cache'[g].touched, NEW c \in CasesOf(g)
                 PROVE  Determined(g, cache'[g].key, cache'[g].verdicts[c])
      BY DEF Entries
    <3>1. CASE g # f
      BY <1>2, <3>1 DEF OracleInv, Typed, Entries
    <3>2. CASE g = f
      <4>1. cache'[g] = Entry(g)
        BY <1>2, <3>2 DEF OracleInv, Typed
      <4>2. /\ cache'[g].key = Key(g, run.planned, run.bodies) /\ cache'[g].touched = run.touched
            /\ cache'[g].verdicts[c] = run.got[c]
        BY <4>1 DEF Entry
      <4>3. run.got[c] = About(g, run.planned)
        BY <2>1, <3>2, <4>2 DEF OracleInv, ToStore
      <4>4. QED
        BY <4>2, <4>3, KeyDetermines
    <3>3. QED
      BY <3>1, <3>2
  <2>6. QED
    BY <2>2, <2>3, <2>4, <2>5 DEF OracleInv
<1>3. QED
  BY <1>1, <1>2 DEF Store

\* An edit of the definitions leaves nothing to say of the tree; a copy is a copy.
LEMMA ByEdit == OracleInv /\ Edit => OracleInv'
<1> SUFFICES ASSUME OracleInv, Edit PROVE OracleInv'
  OBVIOUS
<1>1. /\ run'.pc = run.pc /\ DOMAIN run' = DOMAIN NoRun
      /\ run'.planned = run.planned /\ run'.hits = run.hits /\ run'.mutating = run.mutating
      /\ run'.isolated = run.isolated /\ run'.snap = run.snap /\ run'.got = run.got
      /\ run'.store = run.store
      /\ run'.touched = run.touched /\ run'.dirty = (run.dirty \/ run.pc # "idle")
      /\ UNCHANGED <<sem, marked, mutant, live, cache>>
  BY DEF Edit, Unseen, OracleInv, Typed, RunTyped, NoRun
<1>2. text' \in [Funcs -> Versions]
  BY DEF Edit, OracleInv, Typed
<1>3. Typed'
  BY <1>1, <1>2 DEF OracleInv, Typed, RunTyped, Early, Later
<1>4. Held' /\ Built'
  BY <1>1 DEF Held, Built, NoGate, Early, Later
<1>5. Entries' /\ ReplayIsTrue' /\ Fresh' = Fresh
  BY <1>1, SamePlan
<1>6. CopyHeld' /\ Answers' /\ ToStore'
  BY <1>1, <1>5 DEF OracleInv, CopyHeld, Answers, ToStore, Undoubted
<1>7. QED
  BY <1>3, <1>4, <1>5, <1>6 DEF OracleInv

\* Semantics that are the planned ones again leave the run in doubt.
LEMMA ByEditSemantics == OracleInv /\ EditSemantics => OracleInv'
<1> SUFFICES ASSUME OracleInv, EditSemantics PROVE OracleInv'
  OBVIOUS
<1>1. /\ run'.pc = run.pc /\ DOMAIN run' = DOMAIN NoRun
      /\ run'.planned = run.planned /\ run'.hits = run.hits /\ run'.mutating = run.mutating
      /\ run'.isolated = run.isolated /\ run'.got = run.got /\ run'.store = run.store
      /\ run'.dirty = run.dirty
      /\ run'.touched = (run.touched \/ (run.planned # None /\ sem' = run.planned.sem))
      /\ UNCHANGED <<text, marked, mutant, cache>>
  BY DEF EditSemantics, OracleInv, Typed, RunTyped, NoRun
<1>2. Typed'
  BY <1>1 DEF EditSemantics, OracleInv, Typed, RunTyped, Early, Later
<1>3. ~Undoubted' \/ run.pc \in {"idle", "hung"}
  BY <1>1, OracleAssumption DEF Undoubted, OracleInv, Typed, RunTyped, Trees
<1>4. Held'
  BY <1>1 DEF OracleInv, Held, NoGate, Early, Later, Current
<1>5. Built' /\ CopyHeld' /\ Answers'
  BY <1>1, <1>3 DEF Built, CopyHeld, Answers, NoGate, Early, Later
<1>6. ToStore'
  BY <1>1 DEF OracleInv, Typed, RunTyped, ToStore
<1>7. Entries' /\ ReplayIsTrue'
  BY <1>1, SamePlan
<1>8. QED
  BY <1>2, <1>4, <1>5, <1>6, <1>7 DEF OracleInv

\* A gate that starts is there when the run looks for one, or changes the tree unseen; one that ends
\* before it was looked for, too.
LEMMA ByGate == OracleInv /\ (GateStarts \/ GateMutates \/ GateEnds) => OracleInv'
<1> SUFFICES ASSUME OracleInv, GateStarts \/ GateMutates \/ GateEnds PROVE OracleInv'
  OBVIOUS
<1>1. /\ run'.pc = run.pc /\ DOMAIN run' = DOMAIN NoRun
      /\ run'.planned = run.planned /\ run'.hits = run.hits /\ run'.mutating = run.mutating
      /\ run'.isolated = run.isolated /\ run'.snap = run.snap /\ run'.got = run.got
      /\ run'.store = run.store /\ run'.touched = run.touched
      /\ run'.dirty \in BOOLEAN /\ (run.dirty => run'.dirty)
  <2>1. CASE GateMutates
    BY <2>1 DEF GateMutates, OracleInv, Typed, RunTyped
  <2>2. CASE GateStarts
    BY <2>2 DEF GateStarts, Unseen, OracleInv, Typed, RunTyped, NoRun
  <2>3. CASE GateEnds
    BY <2>3 DEF GateEnds, Unseen, OracleInv, Typed, RunTyped, NoRun
  <2>4. QED
    BY <2>1, <2>2, <2>3
<1>2. UNCHANGED <<text, sem, live, cache>> /\ marked' \in BOOLEAN /\ (mutant' # None => marked')
  BY DEF GateStarts, GateMutates, GateEnds, OracleInv, Typed
<1>3. run'.dirty \/ ~NoGate'
  <2>1. CASE GateStarts
    BY <2>1 DEF GateStarts, Unseen, OracleInv, Typed, RunTyped, NoRun, NoGate, Early, Later
  <2>2. CASE GateMutates
    BY <2>2 DEF GateMutates, OracleInv, Typed, RunTyped, Held, NoGate, Early, Later
  <2>3. CASE GateEnds
    BY <1>1, <2>3 DEF GateEnds, Unseen, OracleInv, Typed, RunTyped, NoRun, Held, NoGate, Early, Later
  <2>4. QED
    BY <2>1, <2>2, <2>3
<1>4. Typed'
  BY <1>1, <1>2 DEF OracleInv, Typed, RunTyped, Early, Later
<1>5. Held' /\ Built'
  BY <1>3 DEF Held, Built
<1>6. Entries' /\ ReplayIsTrue' /\ Fresh' = Fresh
  BY <1>1, <1>2, SamePlan
<1>7. CopyHeld' /\ Answers' /\ ToStore'
  BY <1>1, <1>2, <1>6 DEF OracleInv, CopyHeld, Answers, ToStore, Undoubted
<1>8. QED
  BY <1>4, <1>5, <1>6, <1>7 DEF OracleInv

\* Whoever builds, builds of the same tree.
LEMMA ByOtherBuild == OracleInv /\ OtherBuild => OracleInv'
<1> SUFFICES ASSUME OracleInv, OtherBuild PROVE OracleInv'
  OBVIOUS
<1>1. UNCHANGED <<text, sem, marked, mutant, cache, run>> /\ live' \in {None, Current}
  BY DEF OtherBuild, tree
<1>2. Typed' /\ Held'
  BY <1>1 DEF OracleInv, Typed, RunTyped, Held, NoGate, Current
<1>3. Entries' /\ ReplayIsTrue' /\ Fresh' = Fresh
  BY <1>1, SamePlan
<1>4. Built'
  <2> SUFFICES ASSUME ~run.dirty, NoGate, Undoubted PROVE Current = run.planned
    BY <1>1 DEF Built, NoGate, Undoubted
  <2>1. run.planned.defs = Current.defs /\ run.planned \in Trees /\ run.planned.sem = Current.sem
    BY DEF OracleInv, Held, NoGate, Early, Later, Typed, RunTyped, Undoubted, Current
  <2>2. QED
    BY <2>1, CurrentTree DEF OracleInv, Trees
<1>5. CopyHeld' /\ Answers' /\ ToStore'
  BY <1>1, <1>3 DEF OracleInv, CopyHeld, Answers, ToStore, Undoubted
<1>6. QED
  BY <1>2, <1>3, <1>4, <1>5 DEF OracleInv

\* The records of the module bodies are in the keys, and nothing compiled comes from them.
LEMMA Stuttering == OracleInv /\ (Export \/ UNCHANGED vars) => OracleInv'
<1> SUFFICES ASSUME OracleInv, Export \/ UNCHANGED vars PROVE OracleInv'
  OBVIOUS
<1>1. UNCHANGED <<text, sem, marked, mutant, live, cache, run>>
  BY DEF Export, vars, tree
<1>2. Typed' /\ Held'
  BY <1>1 DEF OracleInv, Typed, RunTyped, Held, NoGate, Current
<1>3. Entries' /\ ReplayIsTrue' /\ Fresh' = Fresh
  BY <1>1, SamePlan
<1>4. Built' /\ CopyHeld' /\ Answers' /\ ToStore'
  BY <1>1, <1>3 DEF OracleInv, Built, CopyHeld, Answers, ToStore, NoGate, Undoubted
<1>5. QED
  BY <1>2, <1>3, <1>4 DEF OracleInv

LEMMA OracleNext == OracleInv /\ [Next]_vars => OracleInv'
<1> SUFFICES ASSUME OracleInv, [Next]_vars PROVE OracleInv'
  OBVIOUS
<1>1. CASE Plan
  BY <1>1, ByPlan
<1>2. CASE OracleStep
  BY <1>2, ByBuild, ByCheck, ByCopy, ByAttempt, ByEvaluate, ByRetry, ByGiveUp, ByEvaluated, ByStore
     DEF OracleStep
<1>3. CASE Hang \/ Killed
  BY <1>3, RunOver DEF Hang, Killed
<1>4. CASE Edit
  BY <1>4, ByEdit
<1>5. CASE EditSemantics
  BY <1>5, ByEditSemantics
<1>6. CASE GateStarts \/ GateMutates \/ GateEnds
  BY <1>6, ByGate
<1>7. CASE OtherBuild
  BY <1>7, ByOtherBuild
<1>8. CASE Export \/ UNCHANGED vars
  BY <1>8, Stuttering
<1>9. QED
  BY <1>1, <1>2, <1>3, <1>4, <1>5, <1>6, <1>7, <1>8 DEF Next

-----------------------------------------------------------------------------
(* What is replayed                                                        *)

\* A verdict a run takes from the cache is what an earlier run was told under the same semantics and
\* about the same definitions of the function and of whatever it names, directly or through others,
\* for any call graph, whoever built, exported or killed runs in between: oracle_cache.plan, lookup
\* and store, and what differential.py refuses to store.  It says nothing of definitions that are
\* entered and not named, as those the module bodies call, nor of entries of a run during which the
\* rendered text was edited, a gate came or went, or the semantics were taken back, unseen by it.
THEOREM ReplayedVerdicts == Spec => []ReplayIsTrue
<1>1. Init => OracleInv
  BY AtInit
<1>2. OracleInv /\ [Next]_vars => OracleInv'
  BY OracleNext
<1>3. OracleInv => ReplayIsTrue
  BY DEF OracleInv
<1>4. QED
  BY <1>1, <1>2, <1>3, PTL DEF Spec

-----------------------------------------------------------------------------
(* What is left to be evaluated                                            *)

\* A finite set of numbers has an increasing enumeration, which names each of them.
LEMMA InOrderAll ==
    ASSUME NEW S \in SUBSET Nat, IsFiniteSet(S)
    PROVE  InOrder(S) \in Seq(S) /\ \A x \in S : \E i \in 1 .. Len(InOrder(S)) : InOrder(S)[i] = x
<1> DEFINE n == Cardinality(S)
           upto(x) == {y \in S : y <= x}
           rank == [x \in S |-> Cardinality(upto(x))]
           Increasing(s) == \A i, j \in DOMAIN s : i < j => s[i] < s[j]
<1>1. n \in Nat /\ IsFiniteSet(1 .. n) /\ Cardinality(1 .. n) = n
  BY FS_CardinalityType, FS_Interval
<1>2. \A x \in S : IsFiniteSet(upto(x)) /\ rank[x] \in 1 .. n
  <2> SUFFICES ASSUME NEW x \in S PROVE IsFiniteSet(upto(x)) /\ Cardinality(upto(x)) \in 1 .. n
    OBVIOUS
  <2>1. upto(x) \in SUBSET S /\ x \in upto(x)
    OBVIOUS
  <2> HIDE DEF upto
  <2>2. IsFiniteSet(upto(x)) /\ Cardinality(upto(x)) <= n
    BY <2>1, FS_Subset
  <2>3. Cardinality(upto(x)) \in Nat /\ Cardinality(upto(x)) # 0
    BY <2>1, <2>2, FS_CardinalityType, FS_EmptySet
  <2>4. QED
    BY <1>1, <2>2, <2>3
<1>3. \A x, y \in S : x < y => rank[x] < rank[y]
  <2> SUFFICES ASSUME NEW x \in S, NEW y \in S, x < y PROVE Cardinality(upto(x)) < Cardinality(upto(y))
    OBVIOUS
  <2>1. upto(x) \in SUBSET upto(y) /\ y \in upto(y) /\ y \notin upto(x)
    <3>1. \A z \in S : z <= x => z <= y
      OBVIOUS
    <3>2. y <= y /\ ~(y <= x)
      OBVIOUS
    <3>3. QED
      BY <3>1, <3>2
  <2>2. Cardinality(upto(x)) \in Nat /\ Cardinality(upto(y)) \in Nat /\ IsFiniteSet(upto(y))
    BY <1>2
  <2> HIDE DEF upto
  <2>3. Cardinality(upto(x)) <= Cardinality(upto(y)) /\ Cardinality(upto(x)) # Cardinality(upto(y))
    BY <2>1, <2>2, FS_Subset
  <2>4. QED
    BY <2>2, <2>3
<1> HIDE DEF n, upto
<1>4. rank \in Surjection(S, 1 .. n)
  <2>1. rank \in [S -> 1 .. n]
    BY <1>2
  <2>2. \A x, y \in S : rank[x] = rank[y] => x = y
    <3> SUFFICES ASSUME NEW x \in S, NEW y \in S, x # y PROVE rank[x] # rank[y]
      OBVIOUS
    <3>1. (x < y \/ y < x) /\ rank[x] \in 1 .. n /\ rank[y] \in 1 .. n
      BY <1>2
    <3> HIDE DEF rank
    <3>2. QED
      BY <1>1, <1>3, <3>1
  <2> HIDE DEF rank
  <2>3. rank \in Injection(S, 1 .. n)
    BY <2>1, <2>2, Fun_IsInj
  <2>4. QED
    BY <1>1, <2>3, FS_Injection DEF n
<1> DEFINE enum == [i \in 1 .. n |-> CHOOSE x \in S : rank[x] = i]
<1>5. \A i \in 1 .. n : enum[i] \in S /\ rank[enum[i]] = i
  <2> HIDE DEF rank
  <2>1. \A i \in 1 .. n : \E x \in S : rank[x] = i
    BY <1>4, Fun_SurjectionProperties
  <2>2. QED
    BY <2>1
<1> HIDE DEF rank
<1>6. enum \in [1 .. n -> S] /\ Increasing(enum)
  <2>1. enum \in [1 .. n -> S]
    BY <1>5
  <2>2. ASSUME NEW i \in 1 .. n, NEW j \in 1 .. n, i < j PROVE enum[i] < enum[j]
    <3>1. enum[i] \in S /\ enum[j] \in S /\ rank[enum[i]] = i /\ rank[enum[j]] = j
      BY <1>5
    <3> HIDE DEF enum
    <3>2. PICK x \in S, y \in S : x = enum[i] /\ y = enum[j] /\ rank[x] = i /\ rank[y] = j
      BY <3>1
    <3>3. ~(y < x) /\ x # y
      BY <1>1, <1>3, <2>2, <3>2
    <3>4. QED
      BY <3>2, <3>3
  <2>3. QED
    BY <2>1, <2>2
<1> DEFINE s == InOrder(S)
<1>7. s \in [1 .. n -> S] /\ Increasing(s)
  <2> HIDE DEF enum
  <2>1. \E e \in [1 .. n -> S] : Increasing(e)
    BY <1>6
  <2>2. QED
    BY <2>1 DEF InOrder, n
<1> HIDE DEF s
<1>8. s \in Surjection(1 .. n, S)
  <2>1. \A i, j \in 1 .. n : s[i] = s[j] => i = j
    <3> SUFFICES ASSUME NEW i \in 1 .. n, NEW j \in 1 .. n, i # j PROVE s[i] # s[j]
      OBVIOUS
    <3>1. i < j \/ j < i
      BY <1>1
    <3>2. s[i] < s[j] \/ s[j] < s[i]
      BY <1>7, <3>1
    <3>3. s[i] \in Nat /\ s[j] \in Nat
      BY <1>7
    <3>4. QED
      BY <3>2, <3>3
  <2>2. s \in Injection(1 .. n, S)
    BY <1>7, <2>1, Fun_IsInj
  <2>3. QED
    BY <1>1, <2>2, FS_Injection DEF n
<1>9. \A x \in S : \E i \in 1 .. n : s[i] = x
  BY <1>8 DEF Surjection
<1>10. s \in Seq(S) /\ Len(s) = n
  <2>1. s \in [1 .. n -> S]
    BY <1>7
  <2> HIDE DEF Increasing
  <2>2. s \in Seq(S)
    BY <1>1, <2>1, SeqDef
  <2>3. QED
    BY <1>1, <2>1, <2>2, LenProperties
<1>11. QED
  BY <1>9, <1>10 DEF s

\* What one call of lean_eval is given, and the cases several calls are.
Work == [idxs : Seq(Cases), retried : BOOLEAN]
Left(w) == UNION {ToSet(w[k].idxs) : k \in 1 .. Len(w)}

LEMMA LeftConcat ==
    ASSUME NEW v \in Seq(Work), NEW w \in Seq(Work)
    PROVE  v \o w \in Seq(Work) /\ Left(v \o w) = Left(v) \cup Left(w)
<1>1. /\ v \o w \in Seq(Work) /\ Len(v \o w) = Len(v) + Len(w)
      /\ \A i \in 1 .. Len(v) + Len(w) : (v \o w)[i] = IF i <= Len(v) THEN v[i] ELSE w[i - Len(v)]
  BY ConcatProperties
<1>2. Len(v) \in Nat /\ Len(w) \in Nat
  BY LenProperties
<1>3. ASSUME NEW k \in 1 .. Len(v) PROVE k \in 1 .. Len(v \o w) /\ (v \o w)[k] = v[k]
  BY <1>1, <1>2
<1>4. ASSUME NEW k \in 1 .. Len(w)
      PROVE  k + Len(v) \in 1 .. Len(v \o w) /\ (v \o w)[k + Len(v)] = w[k]
  BY <1>1, <1>2
<1>5. ASSUME NEW k \in 1 .. Len(v \o w)
      PROVE  \/ k \in 1 .. Len(v) /\ (v \o w)[k] = v[k]
             \/ k - Len(v) \in 1 .. Len(w) /\ (v \o w)[k] = w[k - Len(v)]
  BY <1>1, <1>2
<1>6. ASSUME NEW x \in Left(v \o w) PROVE x \in Left(v) \cup Left(w)
  <2>1. PICK k \in 1 .. Len(v \o w) : x \in ToSet((v \o w)[k].idxs)
    BY DEF Left
  <2>2. QED
    BY <1>5, <2>1 DEF Left
<1>7. Left(v) \subseteq Left(v \o w)
  BY <1>3 DEF Left
<1>8. Left(w) \subseteq Left(v \o w)
  BY <1>4 DEF Left
<1>9. QED
  BY <1>1, <1>6, <1>7, <1>8

LEMMA LeftHead ==
    ASSUME NEW w \in Seq(Work), w # <<>>
    PROVE  /\ Head(w) \in Work /\ Tail(w) \in Seq(Work)
           /\ Left(w) = ToSet(Head(w).idxs) \cup Left(Tail(w))
<1>1. /\ Head(w) \in Work /\ Tail(w) \in Seq(Work) /\ Len(Tail(w)) = Len(w) - 1
      /\ \A i \in 1 .. Len(Tail(w)) : Tail(w)[i] = w[i + 1]
  BY HeadTailProperties
<1>2. Len(w) \in Nat /\ Len(w) >= 1 /\ Head(w) = w[1]
  BY EmptySeq, LenProperties
<1>3. ASSUME NEW k \in 1 .. Len(w), k # 1
      PROVE  k - 1 \in 1 .. Len(Tail(w)) /\ Tail(w)[k - 1] = w[k]
  <2>1. k - 1 \in 1 .. Len(Tail(w)) /\ (k - 1) + 1 = k
    BY <1>1, <1>2, <1>3
  <2>2. QED
    BY <1>1, <2>1
<1>4. \A k \in 1 .. Len(Tail(w)) : k + 1 \in 1 .. Len(w) /\ Tail(w)[k] = w[k + 1]
  BY <1>1, <1>2
<1>5. 1 \in 1 .. Len(w)
  BY <1>2
<1>6. ASSUME NEW x \in Left(w) PROVE x \in ToSet(Head(w).idxs) \cup Left(Tail(w))
  <2>1. PICK k \in 1 .. Len(w) : x \in ToSet(w[k].idxs)
    BY DEF Left
  <2>2. CASE k = 1
    BY <1>2, <2>1, <2>2
  <2>3. CASE k # 1
    BY <1>3, <2>1, <2>3 DEF Left
  <2>4. QED
    BY <2>2, <2>3
<1>7. ToSet(Head(w).idxs) \subseteq Left(w)
  BY <1>2, <1>5 DEF Left
<1>8. Left(Tail(w)) \subseteq Left(w)
  BY <1>4 DEF Left
<1>9. QED
  BY <1>1, <1>6, <1>7, <1>8

LEMMA Quotient ==
    ASSUME NEW m \in Nat, NEW d \in Nat \ {0}
    PROVE  /\ m \div d \in Nat /\ (m \div d) * d <= m /\ m < (m \div d) * d + d
  OBVIOUS

\* The chunks hold every case.
LEMMA ChunksAll ==
    ASSUME NEW s \in Seq(Cases)
    PROVE  Chunks(s) \in Seq(Work) /\ \A i \in 1 .. Len(s) : s[i] \in Left(Chunks(s))
<1> DEFINE L == Len(s)
           q == (L + CHUNK - 1) \div CHUNK
           lo(k) == (k - 1) * CHUNK + 1
           hi(k) == IF k * CHUNK < L THEN k * CHUNK ELSE L
           part(k) == SubSeq(s, lo(k), hi(k))
<1>1. L \in Nat /\ CHUNK \in Nat \ {0} /\ L + CHUNK - 1 \in Nat
  BY OracleAssumption, LenProperties
<1>2. q \in Nat /\ q * CHUNK <= L + CHUNK - 1 /\ L + CHUNK - 1 < q * CHUNK + CHUNK
  BY <1>1, Quotient
<1> HIDE DEF L, q
<1>3. \A k \in 1 .. q : lo(k) \in Nat /\ lo(k) >= 1 /\ hi(k) \in Nat /\ hi(k) <= L
  <2> SUFFICES ASSUME NEW k \in 1 .. q PROVE lo(k) \in Nat /\ lo(k) >= 1 /\ hi(k) \in Nat /\ hi(k) <= L
    OBVIOUS
  <2>1. k \in Nat /\ k - 1 \in Nat
    BY <1>2
  <2>2. k * CHUNK \in Nat /\ (k - 1) * CHUNK \in Nat
    BY <1>1, <2>1
  <2>3. QED
    BY <1>1, <2>2
<1>4. ASSUME NEW k \in 1 .. q
      PROVE  /\ part(k) \in Seq(Cases) /\ Len(part(k)) = (IF lo(k) <= hi(k) THEN hi(k) - lo(k) + 1 ELSE 0)
             /\ \A j \in 1 .. hi(k) - lo(k) + 1 : part(k)[j] = s[lo(k) + j - 1]
  <2>1. lo(k) \in Nat /\ lo(k) >= 1 /\ hi(k) \in Nat /\ hi(k) <= L
    BY <1>3
  <2> HIDE DEF lo, hi
  <2>2. \A j \in lo(k) .. hi(k) : s[j] \in Cases
    BY <1>1, <2>1, ElementOfSeq DEF L
  <2>3. QED
    BY <2>1, <2>2, SubSeqProperties
<1>5. Chunks(s) = [k \in 1 .. q |-> Whole(part(k))]
  BY DEF Chunks, L, q
<1> HIDE DEF part
<1>6. Chunks(s) \in Seq(Work) /\ Len(Chunks(s)) = q
  <2>1. \A k \in 1 .. q : Whole(part(k)) \in Work
    BY <1>4 DEF Whole, Work
  <2>2. QED
    BY <1>2, <1>5, <2>1
<1>7. ASSUME NEW i \in 1 .. L PROVE s[i] \in Left(Chunks(s))
  <2> DEFINE a == (i - 1) \div CHUNK
             k == a + 1
             j == i - lo(k) + 1
  <2>1. /\ i \in Nat /\ i >= 1 /\ i <= L
        /\ a \in Nat /\ a * CHUNK <= i - 1 /\ i - 1 < a * CHUNK + CHUNK
    <3>1. i - 1 \in Nat
      BY <1>1
    <3>2. QED
      BY <1>1, <3>1, Quotient
  <2> HIDE DEF a
  <2>2. k \in 1 .. q
    <3>1. q >= a + 1
      <4> SUFFICES ASSUME q <= a PROVE FALSE
        BY <1>2, <2>1
      <4>1. q * CHUNK <= a * CHUNK
        BY <1>1, <1>2, <2>1
      <4>2. QED
        BY <1>1, <1>2, <2>1, <4>1
    <3>2. QED
      BY <1>2, <2>1, <3>1
  <2>3. i \in lo(k) .. hi(k)
    <3>1. k - 1 = a /\ k * CHUNK = a * CHUNK + CHUNK /\ a * CHUNK \in Nat
      BY <1>1, <2>1
    <3> HIDE DEF k
    <3>2. QED
      BY <1>1, <1>2, <2>1, <3>1
  <2>4. lo(k) \in Nat /\ hi(k) \in Nat
    BY <1>3, <2>2
  <2>5. /\ part(k) \in Seq(Cases) /\ Len(part(k)) = (IF lo(k) <= hi(k) THEN hi(k) - lo(k) + 1 ELSE 0)
        /\ \A x \in 1 .. hi(k) - lo(k) + 1 : part(k)[x] = s[lo(k) + x - 1]
    BY <1>4, <2>2
  <2>6. Chunks(s)[k].idxs = part(k)
    BY <1>5, <2>2 DEF Whole
  <2> HIDE DEF lo, hi, k
  <2>7. j \in 1 .. hi(k) - lo(k) + 1 /\ lo(k) + j - 1 = i /\ Len(part(k)) = hi(k) - lo(k) + 1
    BY <2>1, <2>3, <2>4, <2>5
  <2>8. j \in DOMAIN part(k) /\ part(k)[j] = s[i]
    BY <2>5, <2>7, LenProperties
  <2>9. s[i] \in ToSet(part(k))
    BY <2>8 DEF ToSet
  <2>10. QED
    BY <1>6, <2>2, <2>6, <2>9 DEF Left
<1>8. QED
  BY <1>6, <1>7 DEF L

\* Nothing is lost of a chunk that is cut in two.
LEMMA HalvesAll ==
    ASSUME NEW s \in Seq(Cases)
    PROVE  Halves(s) \in Seq(Work) /\ ToSet(s) \subseteq Left(Halves(s))
<1> DEFINE L == Len(s)
           mid == L \div 2
           l == SubSeq(s, 1, mid)
           r == SubSeq(s, mid + 1, L)
<1>1. L \in Nat /\ mid \in Nat /\ mid <= L /\ DOMAIN s = 1 .. L
  BY LenProperties
<1> HIDE DEF mid
<1>2. /\ l \in Seq(Cases) /\ Len(l) = mid /\ \A j \in 1 .. mid : l[j] = s[j]
  <2>1. \A j \in 1 .. mid : s[j] \in Cases
    BY <1>1, ElementOfSeq
  <2>2. /\ l \in Seq(Cases) /\ Len(l) = (IF 1 <= mid THEN mid - 1 + 1 ELSE 0)
        /\ \A j \in 1 .. mid - 1 + 1 : l[j] = s[1 + j - 1]
    BY <1>1, <2>1, SubSeqProperties
  <2> HIDE DEF l
  <2>3. mid - 1 + 1 = mid /\ (mid < 1 => mid = 0) /\ \A j \in 1 .. mid : 1 + j - 1 = j
    BY <1>1
  <2>4. QED
    BY <1>1, <2>2, <2>3
<1>3. /\ r \in Seq(Cases) /\ Len(r) = L - mid /\ \A j \in 1 .. L - mid : r[j] = s[mid + j]
  <2>1. \A j \in mid + 1 .. L : s[j] \in Cases
    BY <1>1, ElementOfSeq
  <2>2. /\ r \in Seq(Cases) /\ Len(r) = (IF mid + 1 <= L THEN L - (mid + 1) + 1 ELSE 0)
        /\ \A j \in 1 .. L - (mid + 1) + 1 : r[j] = s[(mid + 1) + j - 1]
    BY <1>1, <2>1, SubSeqProperties
  <2> HIDE DEF r, L
  <2>3. L - (mid + 1) + 1 = L - mid /\ \A j \in 1 .. L - mid : (mid + 1) + j - 1 = mid + j
    BY <1>1
  <2>4. QED
    BY <1>1, <2>2, <2>3
<1>4. Halves(s) = <<Whole(l), Whole(r)>>
  BY DEF Halves, mid
<1> HIDE DEF l, r, L
<1>5. Halves(s) \in Seq(Work) /\ Len(Halves(s)) = 2 /\ Halves(s)[1].idxs = l /\ Halves(s)[2].idxs = r
  BY <1>2, <1>3, <1>4 DEF Whole, Work
<1>6. ASSUME NEW j \in 1 .. L PROVE s[j] \in ToSet(l) \/ s[j] \in ToSet(r)
  <2>1. CASE j <= mid
    BY <1>1, <1>2, <2>1, LenProperties DEF ToSet
  <2>2. CASE j > mid
    <3>1. j - mid \in 1 .. L - mid /\ mid + (j - mid) = j
      BY <1>1, <2>2
    <3>2. j - mid \in DOMAIN r /\ r[j - mid] = s[j]
      BY <1>3, <3>1, LenProperties
    <3>3. QED
      BY <3>2 DEF ToSet
  <2>3. QED
    BY <1>1, <2>1, <2>2
<1>7. ToSet(s) \subseteq ToSet(l) \cup ToSet(r)
  BY <1>1, <1>6 DEF ToSet
<1>8. Left(Halves(s)) = ToSet(l) \cup ToSet(r)
  BY <1>5 DEF Left
<1>9. QED
  BY <1>5, <1>7, <1>8

-----------------------------------------------------------------------------
(* Bisection                                                               *)

\* The artifacts are of some tree, and what is not answered is left to be evaluated.
Bisecting ==
    /\ live \in Trees \cup {None} /\ (run.isolated => run.snap \in Trees \cup {None})
    /\ run.pc = "eval" => run.work \in Seq(Work)
    /\ run.pc = "eval" /\ ~run.lost =>
          \A c \in Fresh \ Bad : run.got[c] # None \/ c \in Left(run.work)
    /\ Bisected

LEMMA AboutIsSomething ==
    ASSUME NEW f \in Funcs, NEW t \in Trees
    PROVE  About(f, t) # None
<1> DEFINE S == Entered[f]
<1>1. S \in SUBSET Funcs
  BY ReachClosed, OracleAssumption DEF Entered
<1>2. About(f, t) = [defs |-> [g \in S |-> t.defs[g]], sem |-> t.sem]
  BY DEF About
<1> HIDE DEF S
<1>3. t.sem \in Versions /\ \A g \in S : t.defs[g] \in [v : Versions, mut : BOOLEAN]
  BY <1>1 DEF Trees
<1>4. About(f, t) \in [defs : [S -> [v : Versions, mut : BOOLEAN]], sem : Versions]
  BY <1>2, <1>3
<1>5. QED
  BY <1>1, <1>4, OracleAssumption

LEMMA BisectingInit == Init => Bisecting
<1> SUFFICES ASSUME Init PROVE Bisecting
  OBVIOUS
<1>1. live \in Trees
  BY AtInit, CurrentTree DEF Init, OracleInv
<1>2. run.pc = "idle" /\ run.isolated = FALSE
  BY DEF Init, NoRun
<1>3. QED
  BY <1>1, <1>2 DEF Bisecting, Bisected

\* Steps of the others, and those of a run that leave its answers and its work alone.
LEMMA SameWork ==
    ASSUME Bisecting, live' \in Trees \cup {None}, run'.isolated => run'.snap \in Trees \cup {None},
           run'.pc \in {"eval", "store"} =>
              UNCHANGED <<run.pc, run.work, run.got, run.lost, run.hits>>
    PROVE  Bisecting'
<1>1. CASE run'.pc \notin {"eval", "store"}
  BY <1>1 DEF Bisecting, Bisected
<1>2. CASE run'.pc \in {"eval", "store"}
  <2>1. Fresh' = Fresh
    BY <1>2 DEF Fresh
  <2>2. Left(run'.work) = Left(run.work)
    BY <1>2
  <2>3. QED
    BY <1>2, <2>1, <2>2 DEF Bisecting, Bisected
<1>3. QED
  BY <1>1, <1>2

\* An attempt leaves every case to be evaluated.
LEMMA BisectingAttempt == OracleInv /\ Bisecting /\ Attempt => Bisecting'
<1> SUFFICES ASSUME OracleInv, Bisecting, Attempt PROVE Bisecting'
  OBVIOUS
<1>1. /\ run'.pc = "eval" /\ run'.hits = run.hits /\ run'.isolated = run.isolated /\ run'.snap = run.snap
      /\ run'.work = Chunks(InOrder(Fresh)) /\ live' = live
  BY DEF Attempt, OracleInv, Typed, RunTyped, NoRun
<1>2. Fresh' = Fresh
  BY <1>1 DEF Fresh
<1>3. /\ InOrder(Fresh) \in Seq(Cases)
      /\ \A c \in Fresh : \E i \in 1 .. Len(InOrder(Fresh)) : InOrder(Fresh)[i] = c
  <2>1. Fresh \in SUBSET Nat /\ Fresh \subseteq Cases /\ IsFiniteSet(Fresh)
    BY OracleAssumption, FS_Subset DEF Fresh
  <2>2. InOrder(Fresh) \in Seq(Fresh)
        /\ \A c \in Fresh : \E i \in 1 .. Len(InOrder(Fresh)) : InOrder(Fresh)[i] = c
    BY <2>1, InOrderAll
  <2>3. QED
    BY <2>1, <2>2, SeqMonotonic
<1>4. \A c \in Fresh : c \in Left(Chunks(InOrder(Fresh)))
  BY <1>3, ChunksAll
<1>5. Chunks(InOrder(Fresh)) \in Seq(Work)
  BY <1>3, ChunksAll
<1>6. QED
  BY <1>1, <1>2, <1>4, <1>5 DEF Bisecting, Bisected

\* What a call does not answer of its cases, and Lean could by itself, is in one of the halves.
LEMMA BisectingEvaluate == OracleInv /\ Bisecting /\ Evaluate => Bisecting'
<1> SUFFICES ASSUME OracleInv, Bisecting, Evaluate PROVE Bisecting'
  OBVIOUS
<1> DEFINE s == Head(run.work).idxs
<1>1. /\ run.pc = "eval" /\ run.work \in Seq(Work) /\ run.work # <<>> /\ Artifacts # None
      /\ live' = live
  BY DEF Evaluate, Bisecting
<1>2. /\ s \in Seq(Cases) /\ Tail(run.work) \in Seq(Work)
      /\ Left(run.work) = ToSet(s) \cup Left(Tail(run.work))
  BY <1>1, LeftHead DEF Work
<1> PICK answered \in Answered(s) :
      run' = [run EXCEPT
         !.got = [c \in Cases |-> IF c \in answered THEN About(Of(c), Artifacts) ELSE @[c]],
         !.work = (IF ToSet(s) # answered /\ Len(s) > 1 THEN Halves(s) ELSE <<>>) \o Tail(@)]
  BY DEF Evaluate
<1> DEFINE more == IF ToSet(s) # answered /\ Len(s) > 1 THEN Halves(s) ELSE <<>>
<1>3. /\ run'.pc = "eval" /\ run'.hits = run.hits /\ run'.isolated = run.isolated /\ run'.snap = run.snap
      /\ run'.lost = run.lost /\ run'.work = more \o Tail(run.work)
      /\ run'.got = [c \in Cases |-> IF c \in answered THEN About(Of(c), Artifacts) ELSE run.got[c]]
  BY <1>1 DEF OracleInv, Typed, RunTyped, NoRun
<1>4. Fresh' = Fresh
  BY <1>3 DEF Fresh
<1>5. more \in Seq(Work) /\ (ToSet(s) # answered /\ Len(s) > 1 => ToSet(s) \subseteq Left(more))
  BY <1>2, HalvesAll, EmptySeq
<1> HIDE DEF more
<1>6. run'.work \in Seq(Work) /\ Left(run'.work) = Left(more) \cup Left(Tail(run.work))
  BY <1>2, <1>3, <1>5, LeftConcat
<1>7. Artifacts \in Trees
  BY <1>1 DEF Bisecting, Artifacts
<1>8. ASSUME ~run.lost, NEW c \in Fresh \ Bad
      PROVE  run'.got[c] # None \/ c \in Left(run'.work)
  <2>1. c \in Cases /\ Of(c) \in Funcs
    BY OracleAssumption DEF Fresh
  <2>2. c \in answered \/ run.got[c] # None => run'.got[c] # None
    <3>1. About(Of(c), Artifacts) # None
      BY <1>7, <2>1, AboutIsSomething
    <3>2. run'.got[c] = IF c \in answered THEN About(Of(c), Artifacts) ELSE run.got[c]
      BY <1>3, <2>1
    <3>3. QED
      BY <3>1, <3>2
  <2>3. run.got[c] # None \/ c \in Left(run.work)
    BY <1>1, <1>8 DEF Bisecting
  <2>4. ASSUME c \in ToSet(s), c \notin answered PROVE ToSet(s) # answered /\ Len(s) > 1
    <3> SUFFICES ASSUME ~(Len(s) > 1) PROVE FALSE
      BY <2>4
    <3>1. DOMAIN s = 1 .. Len(s) /\ Len(s) \in Nat
      BY <1>2, LenProperties
    <3>2. DOMAIN s = {1} /\ s[1] = c
      BY <2>4, <3>1 DEF ToSet
    <3>3. {i \in DOMAIN s : s[i] \in Bad} = {}
      BY <1>8, <3>2
    <3>4. answered = ToSet(s)
      BY <3>3 DEF Answered
    <3>5. QED
      BY <2>4, <3>4
  <2>5. QED
    BY <1>2, <1>5, <1>6, <2>2, <2>3, <2>4
<1>9. QED
  BY <1>3, <1>4, <1>6, <1>8, <1>1 DEF Bisecting, Bisected

\* A chunk that is tried again is the same chunk.
LEMMA BisectingRetry == OracleInv /\ Bisecting /\ Retry => Bisecting'
<1> SUFFICES ASSUME OracleInv, Bisecting, Retry PROVE Bisecting'
  OBVIOUS
<1>1. /\ run.pc = "eval" /\ run.work \in Seq(Work) /\ run.work # <<>>
      /\ live' \in {Current, live} /\ Current \in Trees
  BY CurrentTree DEF Retry, Bisecting, OracleInv
<1>2. /\ run'.pc = "eval" /\ run'.hits = run.hits /\ run'.isolated = run.isolated
      /\ run'.snap = (IF run.isolated THEN live' ELSE run.snap)
      /\ run'.lost = run.lost /\ run'.got = run.got /\ run'.work = <<Again>> \o Tail(run.work)
  BY <1>1 DEF Retry, OracleInv, Typed, RunTyped, NoRun
<1>3. Fresh' = Fresh
  BY <1>2 DEF Fresh
<1>4. /\ Head(run.work) \in Work /\ Tail(run.work) \in Seq(Work)
      /\ Left(run.work) = ToSet(Head(run.work).idxs) \cup Left(Tail(run.work))
  BY <1>1, LeftHead
<1>5. Again \in Work /\ Again.idxs = Head(run.work).idxs
  BY <1>4 DEF Again, Work
<1>6. <<Again>> \in Seq(Work) /\ Left(<<Again>>) = ToSet(Again.idxs)
  BY <1>5 DEF Left
<1>7. run'.work \in Seq(Work) /\ Left(run'.work) = Left(run.work)
  BY <1>2, <1>4, <1>5, <1>6, LeftConcat
<1>8. QED
  BY <1>1, <1>2, <1>3, <1>7 DEF Bisecting, Bisected

LEMMA BisectingGiveUp == OracleInv /\ Bisecting /\ GiveUp => Bisecting'
<1> SUFFICES ASSUME OracleInv, Bisecting, GiveUp PROVE Bisecting'
  OBVIOUS
<1>1. /\ run.pc = "eval" /\ run'.pc = "eval" /\ run'.isolated = run.isolated /\ run'.snap = run.snap
      /\ run'.lost = TRUE /\ run'.work = Tail(run.work) /\ run.work # <<>> /\ live' = live
  BY DEF GiveUp, OracleInv, Typed, RunTyped, NoRun
<1>2. Tail(run.work) \in Seq(Work)
  BY <1>1, LeftHead DEF Bisecting
<1>3. QED
  BY <1>1, <1>2 DEF Bisecting, Bisected

\* When nothing is left, everything is answered.
LEMMA BisectingEvaluated == OracleInv /\ Bisecting /\ Evaluated => Bisecting'
<1> SUFFICES ASSUME OracleInv, Bisecting, Evaluated PROVE Bisecting'
  OBVIOUS
<1>1. /\ run.pc = "eval" /\ run.work = <<>> /\ live' = live /\ run'.pc \in {"attempt", "store"}
      /\ run'.isolated = run.isolated /\ run'.snap = run.snap
      /\ run'.lost = run.lost /\ run'.got = run.got /\ run'.hits = run.hits
  BY DEF Evaluated, OracleInv, Typed, RunTyped, NoRun
<1>2. Fresh' = Fresh
  BY <1>1 DEF Fresh
<1>3. Left(run.work) = {}
  BY <1>1, EmptySeq DEF Left
<1>4. QED
  BY <1>1, <1>2, <1>3 DEF Bisecting, Bisected

LEMMA BisectingNext == OracleInv /\ Bisecting /\ [Next]_vars => Bisecting'
<1> SUFFICES ASSUME OracleInv, Bisecting, [Next]_vars PROVE Bisecting'
  OBVIOUS
<1>0. Current \in Trees
  BY CurrentTree DEF OracleInv
<1>1. ASSUME live' \in {Current, live, None}, run'.isolated = run.isolated, run'.snap = run.snap,
             UNCHANGED <<run.pc, run.work, run.got, run.lost, run.hits>>
      PROVE  Bisecting'
  BY <1>0, <1>1, SameWork DEF Bisecting
<1>2. CASE run' \in {NoRun, [NoRun EXCEPT !.pc = "hung"]}
  <2>1. live' \in {Current, live, None}
    BY <1>2 DEF Next, OracleStep, Plan, Build, Check, Copy, Attempt, Evaluate, Retry, GiveUp, Evaluated,
                Store, Hang, Killed, Edit, Export, EditSemantics, GateStarts, GateMutates, GateEnds, OtherBuild, vars
  <2>2. run'.pc \in {"idle", "hung"} /\ run'.isolated = FALSE
    BY <1>2 DEF NoRun
  <2>3. QED
    BY <1>0, <2>1, <2>2, SameWork DEF Bisecting
<1>3. CASE Plan
  <2>1. live' = live /\ run'.pc \in {"check", "build"} /\ run'.isolated = FALSE
    BY <1>3 DEF Plan, NoRun
  <2>2. QED
    BY <2>1, SameWork DEF Bisecting
<1>4. CASE Build \/ Check
  <2>1. CASE run' # NoRun
    <3>1. /\ live' \in {Current, live} /\ run'.isolated = run.isolated /\ run'.snap = run.snap
          /\ run'.pc \in {"check", "attempt", "copy"}
      BY <1>4, <2>1 DEF Build, Check, OracleInv, Typed, RunTyped, NoRun
    <3>2. QED
      BY <1>0, <3>1, SameWork DEF Bisecting
  <2>2. QED
    BY <1>2, <2>1
<1>5. CASE Copy
  <2>1. PICK r \in {Copied, run} : run' = [r EXCEPT !.pc = "attempt"]
    BY <1>5 DEF Copy
  <2>2. DOMAIN run = DOMAIN NoRun /\ live' = live
    BY <1>5 DEF Copy, OracleInv, Typed, RunTyped
  <2>3. /\ DOMAIN r = DOMAIN NoRun
        /\ \/ r.isolated = TRUE /\ r.snap = live
           \/ r.isolated = run.isolated /\ r.snap = run.snap
    <3>1. CASE r = run
      BY <2>2, <3>1
    <3>2. CASE r = Copied
      BY <2>2, <3>2 DEF Copied, NoRun
    <3>3. QED
      BY <3>1, <3>2
  <2>4. /\ run'.pc = "attempt" /\ run'.isolated = r.isolated /\ run'.snap = r.snap
    BY <2>1, <2>3 DEF NoRun
  <2>5. run'.isolated => run'.snap \in Trees \cup {None}
    BY <2>3, <2>4 DEF Bisecting
  <2>6. QED
    BY <2>2, <2>4, <2>5, SameWork DEF Bisecting
<1>6. CASE Attempt \/ Evaluate \/ Retry \/ GiveUp \/ Evaluated
  BY <1>6, BisectingAttempt, BisectingEvaluate, BisectingRetry, BisectingGiveUp, BisectingEvaluated
<1>7. CASE Store
  <2>1. ASSUME NEW f \in run.store, run' = [run EXCEPT !.store = @ \ {f}] PROVE Bisecting'
    BY <1>1, <1>7, <2>1 DEF Store, OracleInv, Typed, RunTyped, NoRun
  <2>2. QED
    BY <1>2, <1>7, <2>1 DEF Store
<1>8. CASE Edit \/ EditSemantics \/ GateStarts \/ GateEnds
  <2>1. live' = live
    BY <1>8 DEF Edit, EditSemantics, GateStarts, GateEnds
  <2>2. CASE EditSemantics
    BY <1>1, <2>1, <2>2 DEF EditSemantics, OracleInv, Typed, RunTyped, NoRun
  <2>3. CASE Edit
    BY <1>1, <2>1, <2>3 DEF Edit, Unseen, OracleInv, Typed, RunTyped, NoRun
  <2>4. CASE GateStarts
    BY <1>1, <2>1, <2>4 DEF GateStarts, Unseen, OracleInv, Typed, RunTyped, NoRun
  <2>5. CASE GateEnds
    BY <1>1, <2>1, <2>5 DEF GateEnds, Unseen, OracleInv, Typed, RunTyped, NoRun
  <2>6. QED
    BY <1>8, <2>2, <2>3, <2>4, <2>5
<1>9. CASE Export \/ GateMutates \/ OtherBuild \/ UNCHANGED vars
  BY <1>1, <1>9 DEF Export, GateMutates, OtherBuild, vars
<1>10. QED
  BY <1>2, <1>3, <1>4, <1>5, <1>6, <1>7, <1>8, <1>9 DEF Next, OracleStep, Hang, Killed

\* Whatever the number of cases, the size of a chunk and the cases that bring the interpreter
\* down: a run that ends its evaluation without an environment failure has an answer for each case
\* Lean can answer by itself (lean_eval's chunks and its bisection).
THEOREM NoAnswerLost == Spec => []Bisected
<1>1. Init => OracleInv /\ Bisecting
  BY AtInit, BisectingInit
<1>2. OracleInv /\ Bisecting /\ [Next]_vars => OracleInv' /\ Bisecting'
  BY OracleNext, BisectingNext
<1>3. Bisecting => Bisected
  BY DEF Bisecting
<1>4. QED
  BY <1>1, <1>2, <1>3, PTL DEF Spec

=====================
