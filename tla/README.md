# Verification of autoform

TLA+ models of the parts of this repository whose correctness depends on the order of events,
the TLC configurations that check them on small instances, and TLAPS proofs of what matters most
for every value of the constants.

* `src/autoform/` turns source code into claims about a Lean model of it and gets them verified.
* `scripts/` compares that model with the real program, proves theorems about it, checks by mutation
  that the theorems say something, and certifies the result.
* `gridsentinel/gs/` mediates commands that an untrusted model or operator sends to a power plant.

They follow one design: something untrusted proposes, deterministic machinery with a small memory
disposes. The properties ask whether that memory is enough for what is promised of a whole history.

## 1. Inventory

| component | state it keeps | operations | what is hard | modelled in |
|---|---|---|---|---|
| harness pipeline (`harness/pipeline.py`, `cegis.py`) | a record per claim: status, witness, class, disposition, repair, depth; the round | propose, route, verify, adjudicate, repair, prove, diagnose, finish | later stages rewrite what earlier ones have read; repairs feed the loop that makes them; failure at any point | `Harness`, `ClaimLifecycle` |
| proof cache (`harness/ledger.py`) | an index in memory and on disk | get, put, save | survives runs, edits, rebuilds and a torn save | `Harness` |
| claim verifier (`verifier.py`, `compiler.py`) | the generated module and its hash | build check, verify, structural verify | which verdicts come with a witness | `Harness` (its answers) |
| critic and judge (`critic.py`, `judge.py`, `semif_worker.py`) | none between calls | rival groups, selection, classification | untrusted answers behind gates | `Harness` (the gates) |
| prover agent (`prover.py`) | a budget, a worker pool, the checkout, a cache of proofs | reserve, call, snapshot, restore, accept | threads that share money and files; killed calls; people editing meanwhile | `ProofSearch` |
| command shield (`gs/shield.py`) | mode, latch, times of the last grants, vetoes, excursions, watermark, dwell | decide, commit | a bounded memory must enforce statements about all samples under any clock | `Shield` |
| reference monitor (`gs/monitor.py`) | mode, latch table, replay table, rate window, watermark | reduce, decide, commit | many sources and targets share small tables; operators reinstate | `Monitor` |
| relay (`gs/relay.py`) | timers of the distance zones, differential, swing block, latch | step | timers that run, block and reset together | `Relay` |
| command line (`cli.py`) | the workspace, two lock files, the report directory, the pipeline it waits for | prepare, run, assure, regress, pr, cancel | several terminals; signals; a pipeline that outlives its invocation | `Workspace` |
| mutation gate (`scripts/mutate.py`) | the file being mutated, its backup, the verdicts | write, build, classify, restore, report | crash or timeout with a mutant on disk; builds that fail for another reason | `MutationGate` |
| assurance (`scripts/assure.py`, `autoform.sh`, `guarantee.py`, `audit_all.py`, `security_specs.py`) | run.json and the evidence files of the stages | the stages, deadline, cancel, certify | evidence taken at different moments of a run that lasts hours | `Assurance` |
| specification synthesis (`scripts/synth_specs.py`) | specs.json | refuse, digest, prove | what the proofs are about | `Assurance` (the bindings) |
| differential oracle and its cache (`scripts/differential.py`, `oracle_cache.py`) | entries in a file; in a run: the plan, a private copy of the artifacts, chunks, answers | plan, build, copy, evaluate, bisect, retry, store | everything it reads may move while it runs; verdicts outlive the run | `Oracle` |
| work cache (`scripts/work_cache.py`) | files of results | load, replace | as above, without a plan | planned |
| natural-language front end (`nl/`) | none between calls | formalize, refine, repair, check | a repair loop around a language model | planned (the loop) |
| pull-request and regression gates (`pr_mode.py`, `regression.py`) | none | pure functions of two reports | missing and partial evidence | planned (operators) |
| provenance and sandbox | files | hash, isolate | operating system | not modelled |
| cartographer, Lean core | none | a compiler; a language semantics | formalised and proved about in Lean | not modelled |
| gridsentinel experiments | simulations | plant, attacks, reports | numeric simulation | not modelled |

`PROJECT.json` lists every component with its files and status.

**How they interact.** `Harness.run` calls proposers, critic and judge for each function, hands the
chosen claims to the verifier through the proof cache, lets the judge read refuted claims, verifies
their repairs, hands what stayed open to the prover agent, and writes cache and report. The prover
agent runs in the same process with a thread per worker; its proofs come back as statuses.

An invocation of the command line locks its workspace and waits for one pipeline. The pipeline of an
assurance run is a chain of stages, each a process of its own: `source` renders the model, compares it
through the oracle and proves the theorems; two mutation gates work on the same file; builds, audits
and the certificate follow. The stages share files only: the rendered model, its backup, the compiled
artifacts, and the evidence each leaves for the certificate. Nothing but the backup file keeps others
from writing the model.

Shield and monitor are two generations of one idea, called once per sample or command; the relay is
the baseline protection, is OR-ed with their output and does not depend on them.

**What makes each correct.**
* Harness: a status comes from the verifier only and never gains strength by a judgment; a real bug
  is not repaired away; repairs end; cached verdicts are about the module at hand; assumptions and
  gaps of the model reach the report.
* Prover agent: money promised and charged stays within the limit, each reservation is returned once,
  the checkout is left as it was, a proof is accepted only of an attempt that began from the original
  files and left them alone, every job returns.
* Command line: one pipeline at a time in a workspace; what lies in the report is the verdict of the
  invocation that ran; a comparison compares what it ran; a killed installation can be retried; a
  cancelled invocation ends.
* Assurance and mutation gate: a certificate speaks of one text, without a mutant in it; a theorem is
  called adequate only if it noticed something; a mutant can always be taken back; a run ends.
* Oracle: a replayed verdict is about the definitions and the semantics of today; one bad case does
  not take the others' answers; a run ends whatever moves, if its calls return.
* Relay: a swing does not trip it without evidence of a fault that lasts, a fault that stays evident
  does, and no trip lacks its confirmation.
* Shield and monitor: never more than `MAX_GRANTS` actuations in a window; trust is lost by record
  only and regained from an operator only; clocks that behave are not blamed; a trip needs sustained
  physics; a frame actuates once; a tripped target is not tripped again before it is released.

The hazards behind these are listed with their lines in `PROJECT.json`.

## 2. The modules

| module | role |
|---|---|
| `ClaimLifecycle` | abstract: the stages of a claim and the moves between them |
| `Harness` | a run of the harness, and the next run on the same cache; refines `ClaimLifecycle` |
| `ProofSearch` | the prover agent |
| `Shield` | the command shield |
| `Monitor` | the reference monitor |
| `Relay` | the baseline relay |
| `MutationGate` | any number of mutation gates on one file |
| `Assurance` | one assurance run, which contains two gates of `MutationGate` |
| `Workspace` | invocations of the command line |
| `Oracle` | runs of the differential oracle, and its cache |
| `MCHarness`, `MCProofSearch`, `MCShield`, `MCMonitor`, `MCRelay`, `MCAssurance`, `MCWorkspace`, `MCOracle` | small instances for TLC |
| `Harness_proofs`, `ProofSearch_proofs`, `Shield_proofs`, `Monitor_proofs`, `Relay_proofs`, `Workspace_proofs`, `Assurance_proofs`, `Oracle_proofs` | theorems |

Names follow the source. Where a comment says *Mutant*, the definition below it is what a plausible
bug would make of the next one; it is used by no specification, and a property listed with it in
`PROJECT.json` fails when it is put in place.

### Harness

`phase` is the place in `Harness.run`, `todo` what the current loop has not reached, `batch` the ids
passed to `verify`. `status`, `kind`, `backend`, `class`, `disp`, `repairedBy`, `defect`, `depth` and
`marked` are the fields of a claim's record; `index` and `disk` are the cache in memory and on disk;
`basis` is history: the build a verdict was computed on.

* `StartRun`: `Harness(opts).run()`. The source or the interpreter may have changed since the last
  run; the build is refused when stale, so a run verifies what is there. Cache entries whose artifact
  files are missing are dropped.
* `Propose`: one function. Accepted claims, rival groups, the one intended claim of each group, the
  selection of `top_k`, the backends (`critic.py`, `judge.py`, `register`, `route`).
* `Verify`: structural verification, a cache hit, or the Lean backend; then the rewriting of a
  refutation whose witness says nothing about the code (`Settle`). The cache keeps the verdict from
  before that rewriting, as the code does.
* `Adjudicate`: native replay, `allowed_classes`, the judge's choice, and the branch of that class:
  report, blame the model, or repair. A repair is refused, known, or new.
* `EndVerify`, `EndRound`: the bounds of the loop. `ProveOpen`, `Diagnose`, `SaveCache`,
  `LabelAssumptions`, `Report`: the tail of `run` and `finish`, in its order.
* `Fail`: the run ends anywhere: exception, missing sandbox, kill. In `save` it may leave a torn file,
  which loads as an empty cache.

Abstracted: the text of claims (what matters of it is given by constants: function, prose assumptions,
backends able to express it, contradictions), priors and scores, Lean terms, wording of the report.

### ProofSearch

One `pc` per job. `Begin` is the pool handing out the next job and the lookup of a cached proof;
`Reserve` and `Conclude` are `Budget.reserve` and `Budget.charge`; `NoAgent` the early return that
leaves its reservation behind; `Launch` the snapshot; `AgentEdits` the agent in the checkout;
`Answer` the end of the call; `Inspect`, `Backup`, `WriteBack` are the three parts of `restore` under
`_SNAP_LOCK`, apart because others can write between them; `Retry` the loop over attempts.
`SomeoneEdits` is another person working in the checkout. Money is counted in units, so that printing
a cap with two decimals (`Printed`) is visible: a call may spend up to half a cent more than reserved.
Whether Lean accepts a proof is nondeterministic.

### Shield

`Sample` is one call of `Shield.step`: measurement, request, certificate, clock, reclose and
reinstate are free. `Order` is the order of the guards of `decide`, `Refuses` each guard, `Reason` the
answer; `Commit` is `commit`. A differential is the highest sensitivity level it exceeds and a
requested setting a level. `diff_run` is counted to `DWELL_MS`, beyond which nothing reads it. History
variables (`granted`, `peak`, `strong`, `sound`, `prev`, `leaps`, `asked`) hold what the properties
compare the state with; no guard reads them but the bound `Grants`.

### Monitor

`Submit` is one call of `Monitor.submit`. Its branches are those of `commit`: `Reinstate` (which
returns before the grant of the same call is recorded), `ClockFault`, and `Mediate`. `replay` is the
table of accepted frames by source and target, `win` the grants of the rate window without its
sentinels, `latched` the latch table as a set. The guards that read nothing but the command and the
report - authentication, time quality, provenance, envelope, residual, feasibility, custody, dual
signature, keyswitch - are one input, `sound`: their order decides the wording of a veto only, and no
property is about the wording. The baseline OR of `submit`, the log and `ShieldAdapter` are left out.

### Relay

`Next` is one call of `BaselineRelay.step`, one sample per millisecond. The characteristics are nested,
so an impedance is the innermost one it lies in; the differential is the threshold it exceeds. `Swing`
is `_swing` with its early return, which leaves `unblock_count` as it was when the impedance is outside (finding 2);
`Picks`, `Elapsed` and `Differs` are the elements, `Fires` their order, and `Step` leaves the timers
behind the element that fires alone, as the early returns do. An instant the code keeps (`out_since`,
`z2_since`, `z3_since`) is kept as the time since, counted to the delay it is compared with. The history
variables of `Observe` tell from the samples alone what happened, `proof` the evidence of the present visit
only; no guard reads them.

### MutationGate and Assurance

A text is what was rendered or edited, and the mutation it carries; `effect` fixes what each mutation
does to the theorems, if anything builds. A gate reads the file (`GateRead`), may be bound to a report
(`GateCheck`), takes the backup exclusively (`GateMark`), builds the baseline, writes, builds and puts
back one mutant after the other, and restores. `Answers` are the outcomes of a build, most of which say
nothing about the mutant: no error line, an error on no theorem, an error in another file, a timeout;
`Verdict` is the classification. `GateInterrupt` is SIGINT: whether the restoration runs depends on where
it hits. `GateKill` is SIGKILL.

`Assurance` has one variable per evidence file (`conf`, `specs`, `claims`, `audits`, `report` of the
gates, `cert`) and the driver (`stage`, `step`, `done`). `Runnable` is the driver's test before a stage;
`Signal` and `Escalate` are its deadline and the user's cancellation, with SIGKILL two seconds later. The
stages whose order of reading matters are taken apart: `Guard`, `Render`, `Compile`, `Compare`, `Record`,
`Prove`, `Proofs` of `source`, and `Digest`, `Rebuild`, `Snapshot`, `Replay` of an audit. `Certified` is
what `guarantee.py` requires. `Edit` is somebody writing the model, in the stages `EditStages` names.
A text is identified with its digest, and each evidence also carries the text it is really about, which
no guard reads. Outcomes other than "completed" count alike for what follows.

### Workspace

`pc` is the place of an invocation in `main`, `prepare_workspace` and `_run_command`; `child` the process
group of its pipeline, which `Conclude`s (writes its verdict) and `Exit`s in its own time, also after the
invocation was killed. `Cancel`, `Expire`, `Reap` are the forwarded signal or timeout, the deadline of
the cleanup, and the end of the wait with the sweep of the group. `Discard` removes the previous report;
`Copy` and `Compare` are `regress`. The installation is put in place with one rename, so that a kill
leaves nothing (`Leftover`). Of a report only its author and commit are kept. A pipeline is its process
group: the driver of `assure` starts each stage in a session of its own (`assure.py:137`), which the sweep of
the group (`cli.py:187`) does not reach; the driver stops its stage when it is signalled, and a driver
killed before it has done so leaves a stage that no property here speaks of.

### Oracle

`run` is what a run knows: what its plan read, the hits, the answer of the gate check, the private copy,
the attempt, the chunks still to be evaluated, the answers, the entries to be stored. An evaluation of a
function runs the module initializers first: `Entered` is what the two reach by calls, and `About`, what an
answer depends on, is those definitions and the semantics, as compiled. `Key` is the cache key of the code:
the rendered definition of the function and of all that it or its cases name, directly or through others,
the semantics, and of the module bodies the AST records (`records`), neither their rendered text nor what
they call. `InOrder` is the order of the cases. A case in `Bad` brings the interpreter down; `Halves` is the
bisection of its chunk. Artifacts that are missing are an environment failure: rebuilt and retried once
(`Retry`), never bisected (`GiveUp`). `Hang` is a `lake` or `lean` that never returns. `Edit` (a rendered
definition), `Export` (the AST of a module body), `EditSemantics`, the gate and `OtherBuild` happen at any
moment. `dirty` and `touched` are history: they mark the entries of a run during which the module changed in
a way no test of the run can see (finding 10). `ReplayIsTrue` leaves those out, and claims nothing of
definitions that are entered without being named (finding 3). Native execution and the comparison with it
are left out: a verdict is what Lean answered.

## 3. What is checked

| run | asks | result |
|---|---|---|
| `harness_runs` | two runs on one cache over three claims with two pairs of rivals, two rounds, prover agent, edits, failures, torn saves: `TypeOK`, `VerdictsOfThisModule`, `AssumptionsSurface`, `RealBugStands`, `RepairsAreChains`, `NothingLeftOpen`, `MarkedIsNoFinding`, `ModelDefectsDiagnosed`; refinement of `ClaimLifecycle`; `RunEnds` | hold |
| `proofsearch_budget` | two concurrent jobs, two attempts, a limit that not all calls fit in: `TypeOK`, `ChargedWithinLimit`, `ReservationsAccounted`, `AllReturn` | hold |
| `proofsearch_serial` | one worker, two jobs of two attempts, agents and somebody else edit a Lean input: `RootRestored`, `TamperRejected` | hold |
| `workspace_runs` | two invocations of any kind, two cancellations, one kill, one change of the workspace: `OnePipeline`, `OwnVerdict`, `ComparesItsRuns`, `RefusedForCause`, `CancellationEnds` | hold |
| `assurance_certify` | one run over whatever an earlier gate left, deadlines, cancellation, SIGKILL, somebody writing the model: `CertifiedModel`, `AdequateMeansNoticed`, `ReplayOfSnapshot`, `Recoverable`, `RunFinishes` | hold |
| `oracle_runs` | three runs with edits, a new export, a gate, another build, an interpreter crash, calls that hang: `ReplayIsTrue`, `Bisected`, `RunEnds` | hold |
| `oracle_stale` | `ReplayedWhole` | violated: what a module body calls is in no key |
| `relay_line` | every sequence of samples: `FreshSwingNeverTrips`, `EvidenceTrips`, `TripsSustained` | hold |
| `relay_swing` | `SwingNeverTrips` | violated: evidence of two visits adds up |
| `shield_trust` | all inputs, small limits: `RateLimited`, `ModeIsRecord`, `RegularClockTrusted`, `PhysicsSustained`, `Served` | hold |
| `monitor_memory` | two sources, two targets, three associations, one latch slot, two replay slots, clock jitter: `RateLimited`, `FramesOnce`, `TripOnce` | hold |
| `monitor_rearm` | `BudgetSurvives` | violated: a grant in the reinstating call is not remembered |

`PROJECT.json` quotes, for each violated property, the line that promises it. Some properties are
defined in a module and in no run: the promises of section 5 that the code does not keep, and
`VerdictsFromVerifier`, which is proved.

**Bounds.** Every bound is a constant of its module or a definition of its MC module.
* *Harness.* Three claims are a chain of two repairs, a repair that duplicates, and a rival pair
  beside it; two rounds reach the claims of the last round; `TopK = 2` leaves one claim unselected.
  Two runs and two versions give a cache hit on the same module and a miss on another; further runs
  start from a cache that two runs can already produce. One interpreter: the key does not know it (finding
  5), and no property of the run speaks of it. The theorems hold for any number.
* *ProofSearch.* Two jobs are enough for a race on the budget and on a file, two attempts for a retry
  after a timeout. The budget run has no files and the file run no limit: budget and checkout share
  no variable. `CentUnits = 2` makes half a cent a unit. One edit by somebody else is enough to fall in
  any gap of `restore`. The file run has one file, a Lean input: nothing reads or restores another one.
* *Workspace.* Two invocations meet in every lock and every file; a third would wait like the second.
  Both may be cancelled, one killed. The theorems hold for any number.
* *Assurance.* Two mutants of one definition and one theorem of each kind about it: a theorem may notice
  both, one or none, and a gate may judge one and give up on the other. One retry of a silent build, one
  edit. The edit falls in the stages after `source`; for `source` see finding 8.
* *Oracle.* A chain of two calls, so that a dependency is indirect; two cases in one chunk, one of which
  crashes; `ATTEMPTS = 2` (3 in the code) is one attempt thrown away and one that counts. One module body,
  which calls a function nothing else names. A third run can replay what the second has stored while the
  first one's entries were there; two changes are an edit and its withdrawal, or an edit and a gate. The
  definition somebody edits is the one at the end of the chain, in `oracle_stale` the one the module body calls.
* *Relay.* The delays are shortened; transit is still shorter than zone 2, zone 2 than zone 3. The
  theorems hold for every value.
* *Shield.* Both halves of the veto limit, excursions to their limit, dwell of two samples, three levels
  and a supervision input that fails (`Flaws = {"remote"}`: the four inputs are treated alike except for
  the wording). One grant a window and two in all overwrite the memory; larger memories are left to
  the theorem, which holds for every limit.
* *Monitor.* Three grants overwrite the window of two; the targets outnumber the latch slots and the
  associations the replay slots, so that both tables overflow; three timestamps with a tolerance of one
  have jitter, clock faults and grants a window apart. `VETO_LIMIT = 2` and `CLOCK_FAULT_LIMIT = 1` (3
  in the code) keep the modes within reach. Privileged operations, which touch no budget and no latch,
  are in the instance of `monitor_rearm` only.

**Fairness.**
* `Harness!FairSpec` is weak fairness of `Step`: a run is one thread that goes on until it reports or
  fails; `Fail` and `StartRun` are not fair. Judges and backends run under a timeout, so each call returns.
* `ProofSearch!FairSpec` is weak fairness of `Work(j)` for each job: each worker is a thread, and each call
  is killed at its timeout. It is not asked of the edits of agents and people. The lock is held over two
  steps of its owner only, and the pool takes jobs in order, so weak fairness is enough.
* `Workspace!FairSpec` is weak fairness of the steps of each invocation and of its cleanup deadline. The
  pipeline has none: it may hang, ignore signals, or never conclude.
* `Assurance!Spec` is weak fairness of the driver, whose stages have deadlines. Nobody has to signal or edit.
* `Oracle!FairSpec` is weak fairness of the oracle's own steps: it is one thread. Its calls of `lake` and
  `lean` have no timeout (`differential.py:2732`, `2795`, `2902`, `2905`, `2935`), so that each step which
  contains one may also be `Hang`, after which only a kill is left. `RunEnds` says that a run ends or hangs in
  such a call: nothing the oracle does itself goes on for ever. Everybody else may stop at any time.
* Shield, monitor and relay react to calls and have no fairness.

**Deadlock** is checked in Shield and Monitor, which answer every call, and in Assurance, which ends in
`Over`. Harness, ProofSearch, Workspace and Oracle stop when the runs, jobs or invocations are over, the
relay when it has tripped.

## 4. What is proved

| theorem | statement |
|---|---|
| `Harness_proofs`: `TypeCorrect`, `CacheSound`, `RealBugsStand`, `ChainsOfRepairs`, `NothingOpen`, `AssumptionsLabelled`, `DefectsDiagnosed`, `MarkedStaysOut` | the invariants of the harness runs |
| `OnlyVerifierDecides` | `VerdictsFromVerifier`: a status comes from the verifier only |
| `Implements` | `Harness` implements `ClaimLifecycle` |
| `ProofSearch_proofs`: `TypeCorrect`, `PromisesKept`, `SpendingCapped` | types and the accounts of the budget |
| `CheckoutRestored`, `ChangedInputsReject` | `RootRestored`, `TamperRejected`, for one worker and a git that answers (`Serial`) |
| `Workspace_proofs`: `MutualExclusion`, `NoPriorVerdict`, `Comparison`, `Retryable` | `OnePipeline`, `OwnVerdict`, `ComparesItsRuns`, `RefusedForCause` |
| `Relay_proofs`: `TypeCorrect`, `SwingsBlocked`, `Confirmations`, `Dependable` | types, `FreshSwingNeverTrips`, `TripsSustained`, `EvidenceTrips` |
| `Shield_proofs`: `TypeCorrect`, `RateNeverExceeded`, `ModeIsEarned`, `ClockTrusted` | types and the invariants of the shield |
| `GrantNeedsPhysics`, `DwellIsDelay` | `PhysicsSustained`, `Served` |
| `Monitor_proofs`: `TypeCorrect`, `RateNeverExceeded`, `NoReplay`, `NoSecondTrip` | types, `RateLimited`, `FramesOnce`, `TripOnce` |
| `Assurance_proofs`: `TypeCorrect`, `BackupRecovers` | types, `Recoverable` |
| `ReplayBinds`, `CertificateOfOneText` | `ReplayOfSnapshot` under `NeverRestored`; `CertifiedModel`, if moreover nobody writes in `source` |
| `TeethAreReal` | `AdequateMeansNoticed` under `NeverDisturbed` |
| `OneWriteRestoresNothing`, `WritesBetweenGates` | when those two hypotheses hold |
| `Oracle_proofs`: `ReplayedVerdicts`, `NoAnswerLost` | `ReplayIsTrue`, `Bisected` |

The assumptions are those the modules state (`HarnessAssumption`, `RelayAssumption`, ...): shapes of the
constants, e.g. positive limits, `VETO_LIMIT` at least 2 (24 in the code; with 1, half of it is 0). The
relay's theorems need no order among its delays. Every safety property of a passing run is stated by a
theorem.

Five theorems carry hypotheses, because without them the code does not keep the property:
* `Serial` (one worker, and git answers): with two workers, the default, see finding 6; without git there is no
  snapshot to restore. It is the setting of `proofsearch_serial`.
* `NeverRestored` (nobody puts the text an audit digested back while the audit runs): see section 5. One
  write is too few to restore anything (`OneWriteRestoresNothing`), so that the theorem covers
  `assurance_certify`.
* `"source" \notin EditStages`: see finding 8.
* `NeverDisturbed` (nobody writes the model while a mutant in it is built): see section 5. Writes between
  the gates disturb none (`WritesBetweenGates`), which covers `assurance_certify` as well.

**Harness.** `Inductive` is `Typed /\ CacheInv /\ LoopInv`. `Typed` adds to the types that a round in
progress is within the bound. `CacheInv` says that every entry, in memory and on disk, was computed on
the module its key names: needed because a verdict is only as good as the entry it came from, runs
ago. `LoopInv` says what each phase has left to do: round `r` verifies claims of depth `r` and reads the
refuted ones of depth `r - 1`; what is pending is still on a list; what the judge has not read is still
to be read, or of the last round; a repair is registered, one round deeper, and repairs one claim only.
`AssumptionsLabelled` and `DefectsDiagnosed` rest on the order of the last phases. `Implements` maps
`status` to `Stage(status)`; each action moves claims along edges only because of `LoopInv` (a refuted
claim under judgment has no later verdict to lose).

**ProofSearch.** Sums over jobs would need recursion, so the money promised is a set: each job owns
the units `{j} \X 1..cap[j]`, and `ReservationsAccounted` is about the cardinality of their union. A step of
one job changes one share (`ShareChanged`); the others are finite and apart. `Promising` adds that only
a job with a call under way holds a reservation. `Checkout`, for one worker: `Alone`; what the inspection
finds is what differs from the snapshot (`Inspection`); as long as nobody else edits, every snapshot taken is of
the files as they were, and so are the files between two calls (`Restoring`); a call that left an input
changed is found out before its answer is taken, whoever else edits, and an accepted attempt had its
snapshot (`Noticed`). `TamperRejected` is about the accepted attempt: an earlier one of the same job may have
tampered and been rejected, and what it wrote is gone when the next one begins.

**Workspace.** `Locked` says that whoever is between taking and releasing the lock holds it, and that a
pipeline is alive only in the wait of its invocation or after its death. `Kinds` says which places each
command reaches and when its result is known. `Copies` says of a `regress` that what it has of its runs so
far is its own, or of a dead invocation whose pipeline ran on; `Causes` that a workspace nobody changed
is absent or whole. Mutual exclusion follows from `Locked`, the rest is inductive with it.

**Relay.** `Counts` relates the code's counter of evidence to that of the present visit: they agree after
a visit that ended without evidence, which is where `carried` comes in. `Visits` ties the timers of the swing
logic to the history of the visit: without confirmed evidence the transit time is the age of the visit, so
that a slow visit is blocked. `TimersExact` says that until the trip each timer is
the length of the run of samples it stands for; hence a trip has its run, and a run its trip.
`HeldTimed` says that evidence held for its confirmation has lifted the block and zone 2 has been timed
since: needed for `EvidenceTrips`, which does not mention the block.

**Shield.** `RateLimited` is about all grants, the state has the last `MAX_GRANTS`. `Remembered` says
that `grant_times` is the end of `granted`; `Apart` that two grants whose places differ by a multiple of
`MAX_GRANTS` are a window apart, in signed time. Among `MAX_GRANTS + 1` grants two have places with the
same remainder (pigeonhole), hence the limit; no assumption about the clock is used, and none about
reinstatement. `RecordCovers`, `RunsNested` and `Followed` strengthen the other invariants: the present
vetoes are covered by the peak, justified requests are corroborated samples, a clock that never leapt
has the watermark at its last sample.

**Monitor.** As in the shield the window has the last grants only, but a command granted by a reinstating
call is in no window. `Budget` therefore says that there is a sequence of all times the window ever
held, of which `win` is the end; each committed actuation has a place of its own in it; and times
`MAX_GRANTS` places apart are a window apart. The pigeonhole of the shield does the rest. `Tables` says
that a target that was tripped and not released is in the latch table, although the table has fewer
slots than there are targets: who finds no slot is refused. `FramesKnown` says the same of the replay
table: an association with a committed grant is known, with a frame no older than that grant's.

**Assurance.** `Files` is about the model and its backup, for gates that may stop anywhere: who holds the
backup knows its content, a gate acts in its own stage only, and the source stage does not start on a
file with a backup. `SourceEvidence` says that what the source stage reports speaks of what it rendered,
if nobody writes then; `AuditBound` that an audit whose model is again the digested one has built that one,
which is where `NeverRestored` is used; `Issued` that nothing moves once a certificate is out, without which
later stages could change what it was about. `Honest` says that a verdict counts a theorem as broken only
if the mutant breaks it, because a mutant under construction is what the file holds; `CertifiedReports`
carries that into the certificate.

**Oracle.** The invariant follows an answer from the plan to the cache. While nothing changed unseen and
no gate is there as far as the run looked (`NoGate`), the definitions are the planned ones (`Held`); if the
semantics are not in doubt (`Undoubted`), the artifacts are those of the plan, or gone (`Built`), the
private copy stays so whatever happens to the tree (`CopyHeld`), and so do the answers (`Answers`,
`ToStore`). `Entries` says of each entry without a doubt that it agrees with its key on whatever the key
speaks of: the key closes over what is named, so that two plans with the same key agree on it
(`KeyDetermines`). No relation between what a function calls and what it names is assumed: of what is called
and not named the theorem says nothing, and `oracle_stale` shows why. `Bisecting` says that
a case without an answer is in a chunk still to be evaluated;
`ChunksAll` and `HalvesAll` that cutting a list into chunks, and a chunk into halves, loses no case.
The order of the cases is an enumeration by choice, and that it has them all (`InOrderAll`) is a pigeonhole
on their ranks: no induction over data is needed.

**Only model-checked.** Liveness: `Harness!RunEnds`, `AllReturn`, `CancellationEnds`, `RunFinishes` and
`Oracle!RunEnds`. They rest on fairness, hence on `ENABLED`, which the prover does not handle. The
violated properties of section 5 are left to TLC as well: a counterexample is one behaviour of one instance.

## 5. Findings

With a run:

1. *monitor_rearm.* A command granted in the reinstating call is entered in no table, so that a window
   can hold one actuation more and the same frame is accepted again (`monitor.py:1021`).
2. *relay_swing.* The count of evidence survives the visit to the starter characteristic it was counted in
   (`relay.py:149`): one sample of this visit and those that ended an earlier one lift the swing block, and a
   slow swing trips, against `relay.py:104`. After a visit that ended without evidence the promise holds
   (`FreshSwingNeverTrips`, proved).
3. *oracle_stale.* Every evaluation runs the module initializers (`differential.py:2813`), and the cache key has
   the AST records of the module bodies only (`oracle_cache.py:282`): when a function they call is edited, or
   the rendered text of a body, the verdicts of the functions that do not name it are replayed, against
   `oracle_cache.py:9` and `docs/trust-model.md:96`.

Without a run; TLC finds them when the property, or the constant, is put in a configuration:

4. `Relay!FaultsAreNoSwings`: the transit time is tested on every sample inside zone 3 (`relay.py:160`), not at
   the entry into it, so that a fault that jumped in is declared a swing once it has stayed for the
   transit time, and its backup zones are blocked while no evidence is confirmed, against `relay.py:158`.
5. `Harness!VerdictsOfThisBuild`, with two `Interpreters`: a cached verdict survives a change of the Lean
   interpreter (`pipeline.py:286`).
6. `ProofSearch!HardLimit`, and `RootRestored` and `TamperRejected` with two workers: a killed call is charged nothing
   (`prover.py:522`); snapshots are taken outside the lock that guards restoration (`prover.py:521`), so that one
   may hold what the agent of another job has just written, and pass for the original.
7. `Shield!FailoverDisownsNobody`: the watermark does not follow an implausible timestamp, so one
   forward step of the clock is counted at every later sample (`shield.py:335`).
8. `Assurance!CertifiedModel` with `EditStages = {"source"}`: the conformance report takes the digest of
   the model after it was built and evaluated (`differential.py:3009`), so that a model written in between
   is certified by a comparison with another text.
9. `Workspace`: SIGHUP or SIGKILL frees the locks while the pipeline, which has a session of its own, runs
   on (`cli.py:174`); `OnePipeline` and `OwnVerdict` name the exception, and are violated without it.
10. `Oracle!NoDoubtInherited`: the comment at `differential.py:3157-3160` says that a mutant module or a tree
   that moved mid-run leaves no entry. The oracle asks once whether a gate owns the module
   (`differential.py:2750`), and its test for a tree that moved (`differential.py:3011-3015`) looks at the AST, the
   source tree and the semantics, not at the rendered module. A gate that starts before the artifacts are copied or
   copied again, or while they are evaluated in place, has a mutant's verdict stored under the key of the text
   without it; an edit of the rendered text between the plan and the build, or before a second copy,
   has the verdict of the new text stored under the key of the old one.

The proofs asked for two hypotheses that no comment of the code states; TLC confirms that they are needed,
with a larger instance:

* `ReplayOfSnapshot` fails if the text an audit digested is replaced before the build and put back before the
  snapshot: the build compiles the other text, and the comparison of digests sees the same text twice
  (`audit_all.py:234`). It takes two writes within one audit.
* `AdequateMeansNoticed` fails if somebody writes the model while a mutant in it is built: the build fails, or
  not, for that other text, and the verdict goes to the mutant.

Met while modelling, without a property: claims refuted in the last round get no classification although
`docs/harness.md` asks for one per refuted claim (`NothingLeftOpen` states what the code does); a repair
may come back with a reading the judge rejected, and carries no mark; a claim on an unsupported external is
reported proved with a note where a comment says `MODEL_INCOMPLETE`; what somebody writes between the
backup of a file and its restoration is lost; the shield charges refusals caused by its instruments, or
by a latched breaker, to the model as vetoes;
`mutate.py` reads the original before it takes the backup, and an edit during its loop is
silently reverted; an interrupt between the backup and the `try` leaves the backup behind; an
interrupted `regress` leaves an older `regression.json`; `docs/cli.md` says that a timed-out stage
withholds the guarantee, but only the stages listed in `Certified` do.

## 6. Plan

In this order, most important first:

1. `ActuationBudget`: an abstract specification - actuations, never more than the limit in a window -
   implemented by `Shield` and by `Monitor` without reinstating commands, with the proof: `Apart` and
   `Budget` are the invariants it needs.
2. `Protection`: `Relay` composed with `Shield`; the baseline trips whatever the shield says and no later.
3. `WorkCache`, the repair loop of `nl/`, and the worker protocols of judge and native runner: bounded
   attempts, a late answer of a dead worker is not taken.
4. The pull-request and regression gates as operators, against reference definitions.

## 7. Not modelled, and why

Text: generators, prompts, Lean terms, reports, formatting. Most of `synth_specs.py`, `differential.py`,
`nl/model.py` and the renderers is of this kind: it makes and reads text. Numbers: thresholds as real
numbers, plant physics, scores; they appear as levels or choices. Sandbox, argument parsing and machine
selection: operating system. Cartographer and Lean core: a compiler and a semantics, whose correctness
is a matter of values and is treated in Lean. Memory of the shared data structures of threads finer
than the locks and statements above: CPython's interpreter lock makes those steps atomic.

## 8. Running

    tlc -config MCHarness_runs.cfg MCHarness
    tlapm Harness_proofs.tla

and likewise for the other configurations and modules. The longest run, `harness_runs`, takes
two and a half minutes on two cores.
