------------------------------ MODULE Workspace ------------------------------
(***************************************************************************)
(* Invocations of the command line (src/autoform/cli.py) that share one    *)
(* workspace and one module: the installation of the packaged proof        *)
(* project, the locks, the report directory, the child pipeline and its    *)
(* cancellation, and the comparison of two commits (regress).              *)
(*                                                                         *)
(* Of a report only the verdict matters: which invocation produced it, and *)
(* for which commit.                                                       *)
(***************************************************************************)
EXTENDS Naturals, FiniteSets

CONSTANTS
    Cli,         \* invocations
    MaxKills,    \* bound: invocations killed outright
    MaxCancels,  \* bound: invocations cancelled by the user or their --timeout
    MaxChanges,  \* bound: changes of the workspace by somebody else
    None

\* What an invocation makes of itself: refused by a lock or for the state of the workspace, without
\* input, with the result of its pipeline, cancelled, with a comparison.
Codes == {"busy", "unusable", "error", "ok", "failed", "cancelled", "compared"}

\* What a report says: an invocation's verdict on a commit, or that it got no source.
Written == [by : Cli, at : {"only", "base", "head", "acquisition"}]
Unverified(c) == [by |-> c, at |-> "acquisition"]

ASSUME WorkspaceAssumption ==
    MaxKills \in Nat /\ MaxCancels \in Nat /\ MaxChanges \in Nat /\ None \notin Cli \cup Codes \cup Written

Commands == {"run", "regress", "pr"}   \* pr leaves the report of the module alone
Places == {"absent", "ready", "partial", "changed", "foreign"}

VARIABLES
    dest,        \* the workspace directory
    initLock, runLock,   \* flock: who holds them
    cmd, pc,
    label,       \* the commit that is run: "base" and "head" of regress, otherwise "only"
    child,       \* the process group of the pipeline
    exited,      \* what the pipeline exited with
    cancel,      \* "no", "asked" by a signal or the timeout, "expired" after cleanup_timeout
    code,        \* what the invocation returns
    report,      \* verdict in artifacts/pipeline/<Module>
    copies,      \* verdicts in artifacts/regression/<Module>/{base,head}
    regression,  \* the copies regression.json compares
    changes      \* bound: changes so far

locks == <<initLock, runLock>>
files == <<report, copies, regression>>
process == <<child, exited, cancel>>
vars == <<dest, locks, cmd, pc, label, process, code, files, changes>>

Init ==
    /\ dest \in {"absent", "ready"} /\ initLock = None /\ runLock = None
    /\ cmd \in [Cli -> Commands] /\ pc = [c \in Cli |-> "new"]
    /\ label = [c \in Cli |-> IF cmd[c] = "regress" THEN "base" ELSE "only"]
    /\ child = [c \in Cli |-> "none"] /\ exited = [c \in Cli |-> None]
    /\ cancel = [c \in Cli |-> "no"] /\ code = [c \in Cli |-> None]
    /\ report = None /\ copies = [at \in {"base", "head"} |-> None] /\ regression = None
    /\ changes = 0

Goto(c, to) == pc' = [pc EXCEPT ![c] = to]
End(c, how) == Goto(c, "release") /\ code' = [code EXCEPT ![c] = how]
Free(lock, c) == IF lock = c THEN None ELSE lock

-----------------------------------------------------------------------------
(* prepare_workspace                                                       *)

InitLock(c) ==
    /\ pc[c] = "new"
    /\ IF initLock = None
       THEN initLock' = c /\ Goto(c, "prepare") /\ UNCHANGED code
       ELSE End(c, "busy") /\ UNCHANGED initLock
    /\ UNCHANGED <<dest, runLock, cmd, label, process, files, changes>>

\* The project is extracted beside the workspace and put in place at once.
Prepare(c) ==
    /\ pc[c] = "prepare"
    /\ initLock' = None
    /\ IF dest \in {"absent", "ready"}
       THEN dest' = "ready" /\ Goto(c, "lock") /\ UNCHANGED code
       ELSE End(c, "unusable") /\ UNCHANGED dest
    /\ UNCHANGED <<runLock, cmd, label, process, files, changes>>

\* What an extraction that is killed leaves at the destination.
\* Mutant: it extracts in place.
HalfWritten == "partial"
Leftover == "absent"

\* Somebody else changes a packaged resource, or puts files where the workspace would go.
Change ==
    /\ changes < MaxChanges /\ changes' = changes + 1
    /\ dest' = CASE dest = "ready" -> "changed" [] dest = "absent" -> "foreign" [] OTHER -> dest
    /\ UNCHANGED <<locks, cmd, pc, label, process, code, files>>

-----------------------------------------------------------------------------
(* main, _regress, _pr                                                     *)

RunLock(c) ==
    /\ pc[c] = "lock"
    /\ IF runLock = None
       THEN runLock' = c /\ Goto(c, IF cmd[c] = "pr" THEN "acquire" ELSE "discard") /\ UNCHANGED code
       ELSE End(c, "busy") /\ UNCHANGED runLock
    /\ UNCHANGED <<dest, initLock, cmd, label, process, files, changes>>

\* Mutant: regress discards only before the first of its runs.
BaseOnly(c) == IF label[c] = "head" THEN report ELSE None
\* Mutant: regress leaves the previous report to its pipeline.
RunOnly(c) == IF cmd[c] = "regress" THEN report ELSE None
Discarded(c) == None
Discard(c) ==
    /\ pc[c] = "discard" /\ report' = Discarded(c) /\ Goto(c, "acquire")
    /\ UNCHANGED <<dest, locks, cmd, label, process, code, copies, regression, changes>>

\* The checkout, or the input of the properties, may fail.
Acquire(c) ==
    /\ pc[c] = "acquire"
    /\ \/ Goto(c, "launch") /\ UNCHANGED <<code, report>>
       \/ /\ End(c, "error")
          /\ report' = IF cmd[c] = "run" THEN Unverified(c) ELSE report
    /\ UNCHANGED <<dest, locks, cmd, label, process, copies, regression, changes>>

Launch(c) ==
    /\ pc[c] = "launch" /\ Goto(c, "wait") /\ child' = [child EXCEPT ![c] = "live"]
    /\ UNCHANGED <<dest, locks, cmd, label, exited, cancel, code, files, changes>>

Alive(c) == child[c] \in {"live", "asked"}

\* The pipeline, which runs on when its invocation is killed, writes its verdict last.
Conclude(c) ==
    /\ Alive(c) /\ exited[c] = None
    /\ report' = IF cmd[c] = "pr" THEN report ELSE [by |-> c, at |-> label[c]]
    /\ exited' = [exited EXCEPT ![c] = "ok"]
    /\ UNCHANGED <<dest, locks, cmd, pc, label, child, cancel, code, copies, regression, changes>>

\* It stops, at any point; after a signal it cleans up first, or never does.
Exit(c) ==
    /\ Alive(c) /\ child' = [child EXCEPT ![c] = "gone"]
    /\ exited' = [exited EXCEPT ![c] = IF exited[c] = None THEN "failed" ELSE exited[c]]
    /\ UNCHANGED <<dest, locks, cmd, pc, label, cancel, code, files, changes>>

-----------------------------------------------------------------------------
(* _run_command                                                            *)

Cancels == Cardinality({c \in Cli : cancel[c] # "no"})
\* The first signal, or the timeout, is forwarded to the group; later ones are not.
Cancel(c) ==
    /\ pc[c] = "wait" /\ cancel[c] = "no" /\ Cancels < MaxCancels
    /\ cancel' = [cancel EXCEPT ![c] = "asked"]
    /\ child' = [child EXCEPT ![c] = IF @ = "live" THEN "asked" ELSE @]
    /\ UNCHANGED <<dest, locks, cmd, pc, label, exited, code, files, changes>>

Expire(c) ==
    /\ pc[c] = "wait" /\ cancel[c] = "asked" /\ cancel' = [cancel EXCEPT ![c] = "expired"]
    /\ UNCHANGED <<dest, locks, cmd, pc, label, child, exited, code, files, changes>>

\* Without a pipeline to wait for, an interrupt unwinds the invocation through its finally blocks.
Interrupt(c) ==
    /\ pc[c] \in {"prepare", "lock", "discard", "acquire", "launch", "copy", "compare"}
    /\ cancel[c] = "no" /\ Cancels < MaxCancels
    /\ cancel' = [cancel EXCEPT ![c] = "asked"] /\ initLock' = Free(initLock, c) /\ End(c, "cancelled")
    /\ UNCHANGED <<dest, runLock, cmd, label, child, exited, files, changes>>

\* The wait ends with the leader of the group or at the deadline.
\* Mutant: a signal has no deadline.
LeaderOnly(c) == child[c] = "gone"
Waited(c) == child[c] = "gone" \/ cancel[c] = "expired"

\* Mutant: the group is left to itself.
LeftAlone(c) == child[c]
Swept(c) == "gone"

Returned(c) == IF cancel[c] # "no" THEN "cancelled" ELSE exited[c]
Reap(c) ==
    /\ pc[c] = "wait" /\ Waited(c)
    /\ child' = [child EXCEPT ![c] = Swept(c)]
    /\ IF cmd[c] = "regress" THEN Goto(c, "copy") /\ UNCHANGED code ELSE End(c, Returned(c))
    /\ UNCHANGED <<dest, locks, cmd, label, exited, cancel, files, changes>>

-----------------------------------------------------------------------------
(* _regress                                                                *)

Copy(c) ==
    /\ pc[c] = "copy"
    /\ copies' = [copies EXCEPT ![label[c]] = report]
    /\ CASE Returned(c) = "cancelled" -> End(c, "cancelled") /\ UNCHANGED <<label, child, exited>>
         [] Returned(c) # "cancelled" /\ label[c] = "base" ->
              /\ Goto(c, "discard") /\ label' = [label EXCEPT ![c] = "head"]
              /\ child' = [child EXCEPT ![c] = "none"] /\ exited' = [exited EXCEPT ![c] = None]
              /\ UNCHANGED code
         [] OTHER -> Goto(c, "compare") /\ UNCHANGED <<label, child, exited, code>>
    /\ UNCHANGED <<dest, locks, cmd, cancel, report, regression, changes>>

\* scripts/regression.py refuses a report without a verdict and then writes nothing.
Compare(c) ==
    /\ pc[c] = "compare"
    /\ IF None \in {copies["base"], copies["head"]}
       THEN End(c, "failed") /\ UNCHANGED regression
       ELSE End(c, "compared") /\ regression' = copies
    /\ UNCHANGED <<dest, locks, cmd, label, process, report, copies, changes>>

Release(c) ==
    /\ pc[c] = "release" /\ runLock' = Free(runLock, c) /\ Goto(c, "over")
    /\ UNCHANGED <<dest, initLock, cmd, label, process, code, files, changes>>

\* Killed outright, by SIGKILL or a hangup: the kernel frees the locks, the pipeline, which has a
\* session of its own, runs on.
Dead(c) == pc[c] = "dead"
Kill(c) ==
    /\ pc[c] \notin {"new", "over", "dead"} /\ Cardinality({d \in Cli : Dead(d)}) < MaxKills
    /\ Goto(c, "dead") /\ initLock' = Free(initLock, c) /\ runLock' = Free(runLock, c)
    /\ dest' = IF pc[c] = "prepare" /\ dest = "absent" THEN Leftover ELSE dest
    /\ UNCHANGED <<cmd, label, process, code, files, changes>>

Step(c) ==
    \/ InitLock(c) \/ Prepare(c) \/ RunLock(c) \/ Discard(c) \/ Acquire(c) \/ Launch(c)
    \/ Reap(c) \/ Copy(c) \/ Compare(c) \/ Release(c)

Next ==
    \/ \E c \in Cli : Step(c) \/ Conclude(c) \/ Exit(c) \/ Cancel(c) \/ Interrupt(c) \/ Expire(c) \/ Kill(c)
    \/ Change

Spec == Init /\ [][Next]_vars

\* The invocations are scheduled and time passes; a pipeline need neither conclude nor stop.
FairSpec == Spec /\ \A c \in Cli : WF_vars(Step(c)) /\ WF_vars(Expire(c))

-----------------------------------------------------------------------------
(* Correctness                                                             *)

TypeOK ==
    /\ dest \in Places /\ initLock \in Cli \cup {None} /\ runLock \in Cli \cup {None}
    /\ cmd \in [Cli -> Commands] /\ label \in [Cli -> {"only", "base", "head"}]
    /\ pc \in [Cli -> {"new", "prepare", "lock", "discard", "acquire", "launch", "wait", "copy",
                       "compare", "release", "over", "dead"}]
    /\ child \in [Cli -> {"none", "live", "asked", "gone"}] /\ exited \in [Cli -> {None, "ok", "failed"}]
    /\ cancel \in [Cli -> {"no", "asked", "expired"}]
    /\ code \in [Cli -> Codes \cup {None}]
    /\ report \in Written \cup {None} /\ copies \in [{"base", "head"} -> Written \cup {None}]
    /\ regression \in [{"base", "head"} -> Written] \cup {None}
    /\ changes \in 0..MaxChanges

\* "may not share one workspace at the same time": two pipelines are alive in a workspace only if
\* an invocation was killed outright; a cancelled one keeps its lock until its group is gone.
OnePipeline ==
    \A c, d \in Cli : c # d /\ Alive(c) /\ Alive(d) => Dead(c) \/ Dead(d)

\* "Never leave a prior proof verdict": from its discard to its end, an invocation that writes the
\* report finds there no verdict but its own, however its checkout or its pipeline fails.  Only a
\* pipeline whose invocation was killed can put another there.  (One that is interrupted before it
\* starts a pipeline may not have come to the discard.)
Behind(c) == runLock = c /\ pc[c] # "discard" /\ ~(code[c] = "cancelled" /\ child[c] = "none")
OwnVerdict ==
    \A c \in Cli : cmd[c] # "pr" /\ Behind(c) /\ report # None => report.by = c \/ Dead(report.by)

\* A comparison is of this invocation's base with its head, also when a pipeline wrote nothing or
\* an earlier comparison was cut short and left its copies.
ComparesItsRuns ==
    \A c \in Cli : code[c] = "compared" /\ pc[c] = "release" =>
        \A at \in {"base", "head"} : regression[at] = [by |-> c, at |-> at] \/ Dead(regression[at].by)

\* "retrying does not require deleting a half-written proof project": a workspace is refused only
\* if somebody changed it, whatever was killed while installing it.
RefusedForCause == \A c \in Cli : code[c] = "unusable" => changes > 0

\* "The finally block enforces the bound": a cancelled invocation ends, even if its pipeline
\* ignores the signal.
CancellationEnds == \A c \in Cli : cancel[c] = "asked" ~> pc[c] \in {"over", "dead"}
=============================================================================
