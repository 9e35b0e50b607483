----------------------------- MODULE ProofSearch -----------------------------
(***************************************************************************)
(* The prover agent (src/autoform/harness/prover.py): a pool of workers    *)
(* asks an agent for proofs.  The jobs share a spending limit and one      *)
(* checkout of the Lean root, whose files the agents can edit; a proof     *)
(* counts only when an independent run of Lean accepts it.                 *)
(*                                                                         *)
(* Money is counted in units of which a cent has CentUnits; the text of a  *)
(* proof is reduced to whether Lean accepts it, a file to its content.     *)
(***************************************************************************)
EXTENDS Integers, FiniteSets

CONSTANTS
    NJobs,      \* length of the list of jobs
    Parallel,   \* workers of the pool
    Attempts,   \* attempts per job
    Limit,      \* Budget.limit, None without one
    CallCap,    \* Budget.call_cap
    Estimate,   \* Budget.estimate
    CentUnits,  \* model units per cent
    Files,      \* tracked files of the Lean root
    LeanInputs, \* those of them that are proof_relevant
    Contents,   \* what a file may contain
    Head,       \* the committed content
    Gone,       \* content of a file that does not exist
    GitFails,   \* git may fail to answer
    Edits,      \* bound of the model: edits of the checkout by other people
    None

ASSUME ProofSearchAssumption ==
    /\ NJobs \in Nat /\ Parallel \in Nat \ {0} /\ Attempts \in Nat /\ Edits \in Nat
    /\ Limit \in Nat \cup {None} /\ None \notin Int
    /\ CallCap \in Nat /\ Estimate \in Nat /\ CentUnits \in Nat \ {0}
    /\ LeanInputs \subseteq Files /\ Head \in Contents /\ Gone \in Contents /\ Head # Gone
    /\ GitFails \in BOOLEAN /\ None \notin [Files -> Contents]

Jobs == 1..NJobs

VARIABLES
    pc,        \* where the worker of each job is
    attempt,   \* the attempt it is at
    outcome,   \* Result.status once it has returned
    cap,       \* the reservation of the running call, 0 without one
    call,      \* what the last call answered and the cost it reported
    before,    \* the snapshot taken before the call
    changed,   \* files restore found changed
    spent, reserved,   \* the Budget
    cached,    \* jobs whose accepted proof is in the cache directory
    root,      \* content of the files
    lock,      \* holder of _SNAP_LOCK
    saved,     \* <<file, content>> pairs copied to a rolled-back directory
    real,      \* history: money the calls have really cost
    leaked,    \* history: reservations of calls that were never made
    over,      \* history: cost beyond the reservation, from printing caps in cents
    tampered,  \* history: jobs whose last call left a Lean input changed
    base,      \* history: the files as other people left them
    edits      \* edits by other people so far

workerVars == <<pc, attempt, outcome, cap, call, before, changed>>
budgetVars == <<spent, reserved, real, leaked, over>>
rootVars   == <<root, lock, saved, tampered, base, edits>>
vars == <<workerVars, budgetVars, rootVars, cached>>

Replies  == {"none", "proof", "failed", "timeout", "error"}
Outcomes == {"none", "PROVED", "FAILED", "TIMEOUT", "BUDGET", "ERROR"}
Points   == {"queued", "reserve", "launch", "calling", "returned", "backup", "writeback",
             "conclude", "done"}

Init ==
    /\ pc = [j \in Jobs |-> "queued"] /\ attempt = [j \in Jobs |-> 0]
    /\ outcome = [j \in Jobs |-> "none"] /\ cap = [j \in Jobs |-> 0]
    /\ call = [j \in Jobs |-> [reply |-> "none", cost |-> 0]]
    /\ before = [j \in Jobs |-> None] /\ changed = [j \in Jobs |-> {}]
    /\ spent = 0 /\ reserved = 0 /\ real = 0 /\ leaked = 0 /\ over = 0
    /\ root \in [Files -> Contents] /\ base = root /\ lock = None /\ saved = {} /\ tampered = {} /\ edits = 0
    /\ cached \in SUBSET Jobs

Goto(j, p) == pc' = [pc EXCEPT ![j] = p]
Finish(j, s) == Goto(j, "done") /\ outcome' = [outcome EXCEPT ![j] = s]

-----------------------------------------------------------------------------
(* The budget                                                              *)

Least(a, b) == IF a < b THEN a ELSE b

\* Mutant: what other calls have reserved is not counted.
AmountUnreserved == IF Limit = None THEN CallCap ELSE Least(CallCap, Limit - spent)
Amount == IF Limit = None THEN CallCap ELSE Least(CallCap, Limit - spent - reserved)

\* Mutant: a call is started however little is left.
NeverRefused == FALSE
Refused == Limit # None /\ Amount < Least(Estimate, CallCap)

\* The cap reaches the agent printed with two decimals; a tie can go either way.
Printed(amount) == {p \in 0..(amount + CentUnits) :
                      /\ p % CentUnits = 0
                      /\ 2 * (p - amount) <= CentUnits /\ 2 * (amount - p) <= CentUnits}

\* Mutant: the reservation stays when the call returns.
StillReserved(j) == reserved
Released(j) == IF reserved > cap[j] THEN reserved - cap[j] ELSE 0

-----------------------------------------------------------------------------
(* A worker                                                                *)

\* The pool takes the jobs in order.  A cached proof is re-checked, never trusted.
Begin(j) ==
    /\ pc[j] = "queued" /\ \A i \in 1..(j - 1) : pc[i] # "queued"
    /\ Cardinality({i \in Jobs : pc[i] \notin {"queued", "done"}}) < Parallel
    /\ \/ j \in cached /\ Finish(j, "PROVED") /\ UNCHANGED attempt
       \/ /\ IF Attempts = 0 THEN Finish(j, "FAILED") ELSE Goto(j, "reserve") /\ UNCHANGED outcome
          /\ attempt' = [attempt EXCEPT ![j] = 1]
    /\ UNCHANGED <<cap, call, before, changed, budgetVars, rootVars, cached>>

Reserve(j) ==
    /\ pc[j] = "reserve"
    /\ IF Refused \/ Amount = 0
       THEN Finish(j, "BUDGET") /\ UNCHANGED <<cap, reserved>>
       ELSE /\ reserved' = reserved + Amount /\ cap' = [cap EXCEPT ![j] = Amount]
            /\ Goto(j, "launch") /\ UNCHANGED outcome
    /\ UNCHANGED <<attempt, call, before, changed, spent, real, leaked, over, rootVars, cached>>

\* The agent is looked up before the first call; without it the reservation is not returned.
NoAgent(j) ==
    /\ pc[j] = "launch" /\ attempt[j] = 1
    /\ Finish(j, "ERROR")
    /\ cap' = [cap EXCEPT ![j] = 0] /\ leaked' = leaked + cap[j]
    /\ UNCHANGED <<attempt, call, before, changed, spent, reserved, real, over, rootVars, cached>>

\* snapshot: no lock is held.
Launch(j) ==
    /\ pc[j] = "launch" /\ Goto(j, "calling")
    /\ \E snap \in {root} \cup (IF GitFails THEN {None} ELSE {}) : before' = [before EXCEPT ![j] = snap]
    /\ UNCHANGED <<attempt, outcome, cap, call, changed, budgetVars, rootVars, cached>>

\* A running agent may edit any file of the checkout.
AgentEdits(j) ==
    /\ pc[j] = "calling"
    /\ \E f \in Files : \E x \in Contents \ {root[f]} : root' = [root EXCEPT ![f] = x]
    /\ UNCHANGED <<workerVars, budgetVars, lock, saved, tampered, base, edits, cached>>

\* A Lean input that is not as the snapshot shows it; a file that was deleted then and is as
\* committed now escapes the comparison.
Differs(j, f) == root[f] # before[j][f] /\ ~(before[j][f] = Gone /\ root[f] = Head)
Differing(j) == IF before[j] = None THEN {} ELSE {f \in LeanInputs : Differs(j, f)}

\* The agent keeps to the printed cap.  When it is killed or crashes no cost is reported.
Answer(j) ==
    /\ pc[j] = "calling" /\ Goto(j, "returned")
    /\ \E r \in Replies \ {"none"} : \E p \in Printed(cap[j]) : \E cost \in 0..p :
          /\ call' = [call EXCEPT ![j] = [reply |-> r, cost |-> IF r \in {"timeout", "error"} THEN 0 ELSE cost]]
          /\ real' = real + cost
    /\ tampered' = IF Differing(j) = {} THEN tampered \ {j} ELSE tampered \cup {j}
    /\ UNCHANGED <<attempt, outcome, cap, before, changed, spent, reserved, leaked, over, root, lock,
                   saved, base, edits, cached>>

\* restore, under the lock: what the snapshot and the present state disagree on is copied
\* away and written back.
\* Mutant: only a call that returned is checked.
AfterAnswer(j) == IF call[j].reply \in {"timeout", "error"} THEN {} ELSE Differing(j)
Inspected(j) == Differing(j)

Inspect(j) ==
    /\ pc[j] = "returned" /\ lock = None
    /\ lock' = j /\ Goto(j, "backup")
    /\ \E found \in {Inspected(j)} \cup (IF GitFails THEN {{}} ELSE {}) :
          changed' = [changed EXCEPT ![j] = found]
    /\ UNCHANGED <<attempt, outcome, cap, call, before, budgetVars, root, saved, tampered, base, edits, cached>>

Backup(j) ==
    /\ pc[j] = "backup" /\ Goto(j, "writeback")
    /\ saved' = saved \cup {<<f, root[f]>> : f \in {g \in changed[j] : root[g] # Gone}}
    /\ UNCHANGED <<attempt, outcome, cap, call, before, changed, budgetVars, root, lock, tampered, base, edits, cached>>

WriteBack(j) ==
    /\ pc[j] = "writeback" /\ Goto(j, "conclude")
    /\ root' = [f \in Files |-> IF f \in changed[j] THEN before[j][f] ELSE root[f]]
    /\ lock' = None
    /\ UNCHANGED <<attempt, outcome, cap, call, before, changed, budgetVars, saved, tampered, base, edits, cached>>

\* Mutant: a proof is taken although the call changed Lean inputs.
AnyProof(j) == call[j].reply = "proof"
Admissible(j) == call[j].reply = "proof" /\ changed[j] = {}

Failure(j) == CASE call[j].reply = "timeout" -> "TIMEOUT"
                [] call[j].reply = "error"   -> "ERROR"
                [] OTHER                     -> "FAILED"

\* Mutant: an attempt that timed out is not counted.
TimeoutsFree(j) == attempt[j] = Attempts /\ call[j].reply # "timeout"
LastAttempt(j) == attempt[j] = Attempts

Retry(j) ==
    /\ IF LastAttempt(j) THEN Finish(j, Failure(j)) /\ UNCHANGED attempt
       ELSE Goto(j, "reserve") /\ attempt' = [attempt EXCEPT ![j] = Least(@ + 1, Attempts)]
                               /\ UNCHANGED outcome
    /\ UNCHANGED cached

\* The reservation is replaced by the reported cost; then the answer is checked by Lean.
Conclude(j) ==
    /\ pc[j] = "conclude"
    /\ reserved' = Released(j) /\ spent' = spent + call[j].cost
    /\ over' = IF call[j].cost > cap[j] THEN over + (call[j].cost - cap[j]) ELSE over
    /\ cap' = [cap EXCEPT ![j] = 0]
    /\ \/ /\ Admissible(j) /\ Finish(j, "PROVED") /\ cached' = cached \cup {j}
          /\ UNCHANGED attempt
       \/ Retry(j)
    /\ UNCHANGED <<call, before, changed, real, leaked, rootVars>>

\* Someone else works in the checkout, and may undo what a call has changed before it is inspected.
SomeoneEdits ==
    /\ edits < Edits /\ edits' = edits + 1
    /\ \E f \in Files : \E x \in Contents \ {root[f]} :
          root' = [root EXCEPT ![f] = x] /\ base' = [base EXCEPT ![f] = x]
    /\ UNCHANGED <<workerVars, budgetVars, lock, saved, cached>>
    /\ tampered' = {j \in tampered : pc[j] = "returned" => Differing(j)' # {}}

Work(j) == \/ Begin(j) \/ Reserve(j) \/ NoAgent(j) \/ Launch(j) \/ Answer(j)
           \/ Inspect(j) \/ Backup(j) \/ WriteBack(j) \/ Conclude(j)

AllDone == \A j \in Jobs : pc[j] = "done"

Next == \/ \E j \in Jobs : Work(j) \/ AgentEdits(j)
        \/ SomeoneEdits

Spec == Init /\ [][Next]_vars
\* Every worker is a thread, and a call ends by itself or at its timeout.
FairSpec == Spec /\ \A j \in Jobs : WF_vars(Work(j))
-----------------------------------------------------------------------------
(* Correctness                                                             *)

TypeOK ==
    /\ pc \in [Jobs -> Points] /\ attempt \in [Jobs -> 0..(Attempts + 1)]
    /\ outcome \in [Jobs -> Outcomes] /\ cap \in [Jobs -> Nat]
    /\ call \in [Jobs -> [reply : Replies, cost : Nat]]
    /\ before \in [Jobs -> [Files -> Contents] \cup {None}] /\ changed \in [Jobs -> SUBSET LeanInputs]
    /\ spent \in Nat /\ reserved \in Nat /\ real \in Nat /\ leaked \in Nat /\ over \in Nat
    /\ cached \subseteq Jobs /\ root \in [Files -> Contents] /\ base \in [Files -> Contents]
    /\ lock \in Jobs \cup {None} /\ saved \subseteq Files \X Contents /\ tampered \subseteq Jobs
    /\ edits \in 0..Edits

\* "enforced as a hard limit" (Budget), as far as the calls report what they cost: whatever the
\* interleaving of the workers, what is charged and what is promised stay within the limit, but
\* for what the printing of a cap in cents adds.
ChargedWithinLimit == Limit # None => spent + reserved <= Limit + over

\* The units of money that running calls may still spend.
Promised == UNION {{j} \X (1..cap[j]) : j \in Jobs}

\* The reservations are those of the running calls and of calls that were never made for want
\* of an agent: a call that ends, however it ends, gives its reservation back exactly once.
ReservationsAccounted == reserved = Cardinality(Promised) + leaked

\* When the list is done the Lean inputs are as before it, whatever the agents edited ("A
\* changed Lean input is rolled back", harness.md); a file that did not exist is not followed.
RootRestored ==
    AllDone /\ edits = 0 => \A f \in LeanInputs : base[f] # Gone => root[f] = base[f]

\* "... and the attempt is rejected": a proof is accepted of an attempt that left no Lean input
\* changed, unless someone else undid the change before it was inspected, and that set out from
\* the files as they were before the list of jobs: what a rejected attempt, of this job or of an
\* earlier one, wrote into the checkout is in no accepted proof.
TamperRejected ==
    \A j \in Jobs : outcome[j] = "PROVED" /\ attempt[j] > 0 =>
        /\ j \notin tampered
        /\ edits = 0 => \A f \in LeanInputs : base[f] # Gone => before[j][f] = base[f]

\* Every job returns a result.
AllReturn == <>AllDone

-----------------------------------------------------------------------------
(* What the documents say and the code does not do                         *)

\* "Total spend cap ..., enforced as a hard limit" (Budget).
HardLimit == Limit # None => real <= Limit + over
=============================================================================
