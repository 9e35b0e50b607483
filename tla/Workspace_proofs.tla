-------------------------- MODULE Workspace_proofs --------------------------
(***************************************************************************)
(* Theorems about Workspace, for any number of invocations, kills,         *)
(* cancellations and changes by others.                                    *)
(***************************************************************************)
EXTENDS Workspace, TLAPS

\* Where an invocation holds the run lock, and where its pipeline may be alive.
Held == {"discard", "acquire", "launch", "wait", "copy", "compare"}

Locked ==
    /\ \A c \in Cli : pc[c] \in Held => runLock = c
    /\ \A c \in Cli : runLock = c => pc[c] \in Held \cup {"release"}
    /\ \A c \in Cli : Alive(c) => pc[c] \in {"wait", "dead"}

\* What each kind of invocation does, and when it knows its result.
Kinds ==
    /\ \A c \in Cli : code[c] # None => pc[c] \in {"release", "over", "dead"}
    /\ \A c \in Cli : pc[c] \in {"new", "prepare", "lock"} => label[c] # "head"
    /\ \A c \in Cli : pc[c] \in {"new", "prepare", "lock", "discard", "acquire", "launch"} => child[c] = "none"
    /\ \A c \in Cli : cmd[c] = "pr" => pc[c] \notin {"discard", "copy", "compare"} /\ label[c] = "only"
    /\ \A c \in Cli : pc[c] \in {"copy", "compare"} => cmd[c] = "regress"
    /\ \A c \in Cli : cmd[c] = "regress" <=> label[c] \in {"base", "head"}
    /\ \A c \in Cli : code[c] = "compared" => cmd[c] = "regress"
    /\ \A c \in Cli : code[c] = "compared" /\ pc[c] = "release" => runLock = c

\* A verdict of the run of c at a commit, none at all, or one of an orphan.
Mine(c, v, at) == v = None \/ v = [by |-> c, at |-> at] \/ pc[v.by] = "dead"

\* What regress has of its runs so far.
Copies ==
    \A c \in Cli : cmd[c] = "regress" =>
        /\ pc[c] \in {"acquire", "launch", "wait", "copy"} => Mine(c, report, label[c])
        /\ label[c] = "head" /\ pc[c] \in Held => Mine(c, copies["base"], "base")
        /\ pc[c] = "compare" => label[c] = "head" /\ Mine(c, copies["head"], "head")
        /\ code[c] = "compared" /\ pc[c] = "release" =>
             /\ regression \in [{"base", "head"} -> Written]
             /\ \A at \in {"base", "head"} : Mine(c, regression[at], at)

Causes == changes = 0 => dest \in {"absent", "ready"}

IInv == TypeOK /\ Locked /\ Kinds /\ OwnVerdict /\ Copies /\ Causes /\ RefusedForCause

-----------------------------------------------------------------------------
LEMMA NoneIsNoCli == None \notin Cli /\ None \notin Codes /\ None \notin Written
BY WorkspaceAssumption

\* Every step keeps the types.
LEMMA TypeStep ==
    ASSUME TypeOK, [Next]_vars
    PROVE  TypeOK'
<1> USE DEF TypeOK, Written, Unverified, Places, Commands, Codes, locks, files, process
<1>1. ASSUME NEW c \in Cli, InitLock(c) PROVE TypeOK'
  BY <1>1, WorkspaceAssumption DEF InitLock, End, Goto
<1>2. ASSUME NEW c \in Cli, Prepare(c) PROVE TypeOK'
  BY <1>2, WorkspaceAssumption DEF Prepare, End, Goto
<1>3. ASSUME NEW c \in Cli, RunLock(c) PROVE TypeOK'
  BY <1>3, WorkspaceAssumption DEF RunLock, End, Goto
<1>4. ASSUME NEW c \in Cli, Discard(c) PROVE TypeOK'
  BY <1>4, WorkspaceAssumption DEF Discard, Goto, Discarded, files
<1>5. ASSUME NEW c \in Cli, Acquire(c) PROVE TypeOK'
  BY <1>5, WorkspaceAssumption DEF Acquire, End, Goto
<1>6. ASSUME NEW c \in Cli, Launch(c) PROVE TypeOK'
  BY <1>6, WorkspaceAssumption DEF Launch, Goto
<1>7. ASSUME NEW c \in Cli, Reap(c) PROVE TypeOK'
  BY <1>7, WorkspaceAssumption DEF Reap, End, Goto, Swept, Returned, Waited
<1>8. ASSUME NEW c \in Cli, Copy(c) PROVE TypeOK'
  <2>1. copies' \in [{"base", "head"} -> Written \cup {None}]
    BY <1>8 DEF Copy
  <2>2. CASE Returned(c) = "cancelled"
    BY <1>8, <2>1, <2>2 DEF Copy, End, Goto
  <2>3. CASE Returned(c) # "cancelled" /\ label[c] = "base"
    BY <1>8, <2>1, <2>3 DEF Copy, Goto
  <2>4. CASE Returned(c) # "cancelled" /\ label[c] # "base"
    BY <1>8, <2>1, <2>4 DEF Copy, Goto
  <2>5. QED
    BY <2>2, <2>3, <2>4
<1>9. ASSUME NEW c \in Cli, Compare(c) PROVE TypeOK'
  BY <1>9, WorkspaceAssumption DEF Compare, End, Goto
<1>10. ASSUME NEW c \in Cli, Release(c) PROVE TypeOK'
  BY <1>10, WorkspaceAssumption DEF Release, Goto, Free
<1>11. ASSUME NEW c \in Cli, Conclude(c) PROVE TypeOK'
  BY <1>11, WorkspaceAssumption DEF Conclude, Alive
<1>12. ASSUME NEW c \in Cli, Exit(c) PROVE TypeOK'
  BY <1>12, WorkspaceAssumption DEF Exit, Alive
<1>13. ASSUME NEW c \in Cli, Cancel(c) PROVE TypeOK'
  BY <1>13, WorkspaceAssumption DEF Cancel
<1>14. ASSUME NEW c \in Cli, Interrupt(c) PROVE TypeOK'
  BY <1>14, WorkspaceAssumption DEF Interrupt, End, Goto, Free
<1>15. ASSUME NEW c \in Cli, Expire(c) PROVE TypeOK'
  BY <1>15, WorkspaceAssumption DEF Expire
<1>16. ASSUME NEW c \in Cli, Kill(c) PROVE TypeOK'
  BY <1>16, WorkspaceAssumption DEF Kill, Goto, Free, Leftover, Dead
<1>17. CASE Change
  BY <1>17, WorkspaceAssumption DEF Change
<1>18. CASE UNCHANGED vars
  BY <1>18 DEF vars
<1>19. QED
  BY <1>1, <1>2, <1>3, <1>4, <1>5, <1>6, <1>7, <1>8, <1>9, <1>10, <1>11, <1>12, <1>13, <1>14, <1>15, <1>16, <1>17, <1>18 DEF Next, Step

\* Every step keeps a pipeline under the lock of its invocation.
LEMMA LockedStep ==
    ASSUME TypeOK, Locked, [Next]_vars
    PROVE  Locked'
<1> USE DEF TypeOK, Locked, Held, Alive, locks, files, process
<1>1. ASSUME NEW c \in Cli, InitLock(c) PROVE Locked'
  BY <1>1, NoneIsNoCli DEF InitLock, End, Goto
<1>2. ASSUME NEW c \in Cli, Prepare(c) PROVE Locked'
  BY <1>2, NoneIsNoCli DEF Prepare, End, Goto
<1>3. ASSUME NEW c \in Cli, RunLock(c) PROVE Locked'
  BY <1>3, NoneIsNoCli DEF RunLock, End, Goto
<1>4. ASSUME NEW c \in Cli, Discard(c) PROVE Locked'
  BY <1>4, NoneIsNoCli DEF Discard, Goto, Discarded, files
<1>5. ASSUME NEW c \in Cli, Acquire(c) PROVE Locked'
  BY <1>5, NoneIsNoCli DEF Acquire, End, Goto
<1>6. ASSUME NEW c \in Cli, Launch(c) PROVE Locked'
  BY <1>6, NoneIsNoCli DEF Launch, Goto
<1>7. ASSUME NEW c \in Cli, Reap(c) PROVE Locked'
  BY <1>7, NoneIsNoCli DEF Reap, End, Goto, Swept, Returned, Waited
<1>8. ASSUME NEW c \in Cli, Copy(c) PROVE Locked'
  BY <1>8, NoneIsNoCli DEF Copy, End, Goto, Returned
<1>9. ASSUME NEW c \in Cli, Compare(c) PROVE Locked'
  BY <1>9, NoneIsNoCli DEF Compare, End, Goto
<1>10. ASSUME NEW c \in Cli, Release(c) PROVE Locked'
  BY <1>10, NoneIsNoCli DEF Release, Goto, Free
<1>11. ASSUME NEW c \in Cli, Conclude(c) PROVE Locked'
  BY <1>11, NoneIsNoCli DEF Conclude, Alive
<1>12. ASSUME NEW c \in Cli, Exit(c) PROVE Locked'
  BY <1>12, NoneIsNoCli DEF Exit, Alive
<1>13. ASSUME NEW c \in Cli, Cancel(c) PROVE Locked'
  BY <1>13, NoneIsNoCli DEF Cancel
<1>14. ASSUME NEW c \in Cli, Interrupt(c) PROVE Locked'
  BY <1>14, NoneIsNoCli DEF Interrupt, End, Goto, Free
<1>15. ASSUME NEW c \in Cli, Expire(c) PROVE Locked'
  BY <1>15, NoneIsNoCli DEF Expire
<1>16. ASSUME NEW c \in Cli, Kill(c) PROVE Locked'
  BY <1>16, NoneIsNoCli DEF Kill, Goto, Free, Leftover, Dead
<1>17. CASE Change
  BY <1>17, NoneIsNoCli DEF Change
<1>18. CASE UNCHANGED vars
  BY <1>18 DEF vars
<1>19. QED
  BY <1>1, <1>2, <1>3, <1>4, <1>5, <1>6, <1>7, <1>8, <1>9, <1>10, <1>11, <1>12, <1>13, <1>14, <1>15, <1>16, <1>17, <1>18 DEF Next, Step

\* Every step keeps the kinds of invocations apart.
LEMMA KindsStep ==
    ASSUME TypeOK, Locked, Kinds, [Next]_vars
    PROVE  Kinds'
<1> USE DEF TypeOK, Locked, Kinds, Held, Commands, Codes, locks, files, process
<1>1. ASSUME NEW c \in Cli, InitLock(c) PROVE Kinds'
  BY <1>1, NoneIsNoCli DEF InitLock, End, Goto
<1>2. ASSUME NEW c \in Cli, Prepare(c) PROVE Kinds'
  BY <1>2, NoneIsNoCli DEF Prepare, End, Goto
<1>3. ASSUME NEW c \in Cli, RunLock(c) PROVE Kinds'
  BY <1>3, NoneIsNoCli DEF RunLock, End, Goto
<1>4. ASSUME NEW c \in Cli, Discard(c) PROVE Kinds'
  BY <1>4, NoneIsNoCli DEF Discard, Goto, Discarded, files
<1>5. ASSUME NEW c \in Cli, Acquire(c) PROVE Kinds'
  BY <1>5, NoneIsNoCli DEF Acquire, End, Goto
<1>6. ASSUME NEW c \in Cli, Launch(c) PROVE Kinds'
  BY <1>6, NoneIsNoCli DEF Launch, Goto
<1>7. ASSUME NEW c \in Cli, Reap(c) PROVE Kinds'
  BY <1>7, NoneIsNoCli DEF Reap, End, Goto, Swept, Returned, Waited
<1>8. ASSUME NEW c \in Cli, Copy(c) PROVE Kinds'
  BY <1>8, NoneIsNoCli DEF Copy, End, Goto, Returned
<1>9. ASSUME NEW c \in Cli, Compare(c) PROVE Kinds'
  BY <1>9, NoneIsNoCli DEF Compare, End, Goto
<1>10. ASSUME NEW c \in Cli, Release(c) PROVE Kinds'
  BY <1>10, NoneIsNoCli DEF Release, Goto, Free
<1>11. ASSUME NEW c \in Cli, Conclude(c) PROVE Kinds'
  BY <1>11, NoneIsNoCli DEF Conclude, Alive
<1>12. ASSUME NEW c \in Cli, Exit(c) PROVE Kinds'
  BY <1>12, NoneIsNoCli DEF Exit, Alive
<1>13. ASSUME NEW c \in Cli, Cancel(c) PROVE Kinds'
  BY <1>13, NoneIsNoCli DEF Cancel
<1>14. ASSUME NEW c \in Cli, Interrupt(c) PROVE Kinds'
  BY <1>14, NoneIsNoCli DEF Interrupt, End, Goto, Free
<1>15. ASSUME NEW c \in Cli, Expire(c) PROVE Kinds'
  BY <1>15, NoneIsNoCli DEF Expire
<1>16. ASSUME NEW c \in Cli, Kill(c) PROVE Kinds'
  BY <1>16, NoneIsNoCli DEF Kill, Goto, Free, Leftover, Dead
<1>17. CASE Change
  BY <1>17, NoneIsNoCli DEF Change
<1>18. CASE UNCHANGED vars
  BY <1>18 DEF vars
<1>19. QED
  BY <1>1, <1>2, <1>3, <1>4, <1>5, <1>6, <1>7, <1>8, <1>9, <1>10, <1>11, <1>12, <1>13, <1>14, <1>15, <1>16, <1>17, <1>18 DEF Next, Step

\* Every step keeps the verdict at hand one's own.
LEMMA OwnStep ==
    ASSUME TypeOK, Locked, Kinds, OwnVerdict, [Next]_vars
    PROVE  OwnVerdict'
<1> USE DEF TypeOK, Locked, Kinds, OwnVerdict, Behind, Held, Alive, Dead, Unverified, Written, Commands, Codes, locks, files, process
<1>1. ASSUME NEW c \in Cli, InitLock(c) PROVE OwnVerdict'
  BY <1>1, NoneIsNoCli DEF InitLock, End, Goto
<1>2. ASSUME NEW c \in Cli, Prepare(c) PROVE OwnVerdict'
  BY <1>2, NoneIsNoCli DEF Prepare, End, Goto
<1>3. ASSUME NEW c \in Cli, RunLock(c) PROVE OwnVerdict'
  BY <1>3, NoneIsNoCli DEF RunLock, End, Goto
<1>4. ASSUME NEW c \in Cli, Discard(c) PROVE OwnVerdict'
  BY <1>4, NoneIsNoCli DEF Discard, Goto, Discarded, files
<1>5. ASSUME NEW c \in Cli, Acquire(c) PROVE OwnVerdict'
  BY <1>5, NoneIsNoCli DEF Acquire, End, Goto
<1>6. ASSUME NEW c \in Cli, Launch(c) PROVE OwnVerdict'
  BY <1>6, NoneIsNoCli DEF Launch, Goto
<1>7. ASSUME NEW c \in Cli, Reap(c) PROVE OwnVerdict'
  BY <1>7, NoneIsNoCli DEF Reap, End, Goto, Swept, Returned, Waited
<1>8. ASSUME NEW c \in Cli, Copy(c) PROVE OwnVerdict'
  BY <1>8, NoneIsNoCli DEF Copy, End, Goto, Returned
<1>9. ASSUME NEW c \in Cli, Compare(c) PROVE OwnVerdict'
  BY <1>9, NoneIsNoCli DEF Compare, End, Goto
<1>10. ASSUME NEW c \in Cli, Release(c) PROVE OwnVerdict'
  BY <1>10, NoneIsNoCli DEF Release, Goto, Free
<1>11. ASSUME NEW c \in Cli, Conclude(c) PROVE OwnVerdict'
  BY <1>11, NoneIsNoCli DEF Conclude, Alive
<1>12. ASSUME NEW c \in Cli, Exit(c) PROVE OwnVerdict'
  BY <1>12, NoneIsNoCli DEF Exit, Alive
<1>13. ASSUME NEW c \in Cli, Cancel(c) PROVE OwnVerdict'
  BY <1>13, NoneIsNoCli DEF Cancel
<1>14. ASSUME NEW c \in Cli, Interrupt(c) PROVE OwnVerdict'
  BY <1>14, NoneIsNoCli DEF Interrupt, End, Goto, Free
<1>15. ASSUME NEW c \in Cli, Expire(c) PROVE OwnVerdict'
  BY <1>15, NoneIsNoCli DEF Expire
<1>16. ASSUME NEW c \in Cli, Kill(c) PROVE OwnVerdict'
  BY <1>16, NoneIsNoCli DEF Kill, Goto, Free, Leftover, Dead
<1>17. CASE Change
  BY <1>17, NoneIsNoCli DEF Change
<1>18. CASE UNCHANGED vars
  BY <1>18 DEF vars
<1>19. QED
  BY <1>1, <1>2, <1>3, <1>4, <1>5, <1>6, <1>7, <1>8, <1>9, <1>10, <1>11, <1>12, <1>13, <1>14, <1>15, <1>16, <1>17, <1>18 DEF Next, Step

\* An invocation on its way to the run lock, or turned away, disturbs no comparison.
LEMMA EarlyCopies ==
    ASSUME TypeOK, Copies, NEW c \in Cli, UNCHANGED <<files, cmd, label>>, label[c] # "head",
           pc[c] \in {"new", "prepare", "lock"}, code'[c] # "compared",
           \A d \in Cli \ {c} : pc'[d] = pc[d] /\ code'[d] = code[d],
           pc'[c] \in {"prepare", "lock", "discard", "acquire", "release"},
           cmd[c] = "regress" => pc'[c] # "acquire"
    PROVE  Copies'
<1> USE DEF files
<1>1. ASSUME NEW d \in Cli, NEW at, NEW v \in Written \cup {None}, Mine(d, v, at)
      PROVE  Mine(d, v, at)'
  <2>1. v # None => v.by \in Cli
    BY DEF Written
  <2>2. \A e \in Cli : pc[e] = "dead" => pc'[e] = "dead"
    OBVIOUS
  <2>3. QED
    BY <1>1, <2>1, <2>2 DEF Mine
<1>2. ASSUME NEW d \in Cli, cmd[d] = "regress", d # c
      PROVE  /\ pc'[d] \in {"acquire", "launch", "wait", "copy"} => Mine(d, report, label[d])'
             /\ label'[d] = "head" /\ pc'[d] \in Held => Mine(d, copies["base"], "base")'
             /\ pc'[d] = "compare" => label'[d] = "head" /\ Mine(d, copies["head"], "head")'
             /\ code'[d] = "compared" /\ pc'[d] = "release" =>
                  /\ regression' \in [{"base", "head"} -> Written]
                  /\ \A at \in {"base", "head"} : Mine(d, regression[at], at)'
  <2>1. pc'[d] = pc[d] /\ code'[d] = code[d]
    BY <1>2
  <2>2. pc'[d] \in {"acquire", "launch", "wait", "copy"} => Mine(d, report, label[d])'
    BY <1>1, <1>2, <2>1 DEF Copies, TypeOK
  <2>3. label'[d] = "head" /\ pc'[d] \in Held => Mine(d, copies["base"], "base")'
    BY <1>1, <1>2, <2>1 DEF Copies, TypeOK
  <2>4. pc'[d] = "compare" => label'[d] = "head" /\ Mine(d, copies["head"], "head")'
    BY <1>1, <1>2, <2>1 DEF Copies, TypeOK
  <2>5. ASSUME code'[d] = "compared", pc'[d] = "release"
        PROVE  /\ regression' \in [{"base", "head"} -> Written]
               /\ \A at \in {"base", "head"} : Mine(d, regression[at], at)'
    <3>1. /\ regression \in [{"base", "head"} -> Written]
          /\ \A at \in {"base", "head"} : Mine(d, regression[at], at)
      BY <1>2, <2>1, <2>5 DEF Copies
    <3>2. QED
      BY <1>1, <3>1
  <2>6. QED
    BY <2>2, <2>3, <2>4, <2>5
<1>3. cmd[c] = "regress" =>
        /\ pc'[c] \notin {"acquire", "launch", "wait", "copy", "compare"} /\ label'[c] # "head"
        /\ code'[c] # "compared"
  OBVIOUS
<1>4. QED
  BY <1>2, <1>3 DEF Copies

\* Every step keeps the copies those of the runs compared.
LEMMA CopiesStep ==
    ASSUME TypeOK, Locked, Kinds, Copies, [Next]_vars
    PROVE  Copies'
<1> USE DEF TypeOK, Locked, Kinds, Copies, Mine, Held, Alive, Written, Unverified, Commands, Codes, locks, files, process
<1>1. ASSUME NEW c \in Cli, InitLock(c) PROVE Copies'
  <2>1. files' = files /\ cmd' = cmd /\ label' = label
    BY <1>1 DEF InitLock
  <2>2. /\ \A d \in Cli \ {c} : pc'[d] = pc[d] /\ code'[d] = code[d]
        /\ pc[c] \in {"new", "prepare", "lock"} /\ pc'[c] \in {"prepare", "release"}
        /\ code'[c] # "compared" /\ (cmd[c] = "regress" => pc'[c] # "acquire")
    BY <1>1, NoneIsNoCli DEF InitLock, End, Goto
  <2>3. label[c] # "head"
    BY <2>2
  <2>4. QED
    BY <2>1, <2>2, <2>3, EarlyCopies
<1>2. ASSUME NEW c \in Cli, Prepare(c) PROVE Copies'
  <2>1. files' = files /\ cmd' = cmd /\ label' = label
    BY <1>2 DEF Prepare
  <2>2. /\ \A d \in Cli \ {c} : pc'[d] = pc[d] /\ code'[d] = code[d]
        /\ pc[c] \in {"new", "prepare", "lock"} /\ pc'[c] \in {"lock", "release"}
        /\ code'[c] # "compared" /\ (cmd[c] = "regress" => pc'[c] # "acquire")
    BY <1>2, NoneIsNoCli DEF Prepare, End, Goto
  <2>3. label[c] # "head"
    BY <2>2
  <2>4. QED
    BY <2>1, <2>2, <2>3, EarlyCopies
<1>3. ASSUME NEW c \in Cli, RunLock(c) PROVE Copies'
  <2>1. files' = files /\ cmd' = cmd /\ label' = label
    BY <1>3 DEF RunLock
  <2>2. /\ \A d \in Cli \ {c} : pc'[d] = pc[d] /\ code'[d] = code[d]
        /\ pc[c] \in {"new", "prepare", "lock"} /\ pc'[c] \in {"discard", "acquire", "release"}
        /\ code'[c] # "compared" /\ (cmd[c] = "regress" => pc'[c] # "acquire")
    BY <1>3, NoneIsNoCli DEF RunLock, End, Goto
  <2>3. label[c] # "head"
    BY <2>2
  <2>4. QED
    BY <2>1, <2>2, <2>3, EarlyCopies
<1>4. ASSUME NEW c \in Cli, Discard(c) PROVE Copies'
  BY <1>4, NoneIsNoCli DEF Discard, Goto, Discarded, files
<1>5. ASSUME NEW c \in Cli, Acquire(c) PROVE Copies'
  BY <1>5, NoneIsNoCli DEF Acquire, End, Goto
<1>6. ASSUME NEW c \in Cli, Launch(c) PROVE Copies'
  BY <1>6, NoneIsNoCli DEF Launch, Goto
<1>7. ASSUME NEW c \in Cli, Reap(c) PROVE Copies'
  BY <1>7, NoneIsNoCli DEF Reap, End, Goto, Swept, Returned, Waited
<1>8. ASSUME NEW c \in Cli, Copy(c) PROVE Copies'
  <2>1. /\ \A d \in Cli \ {c} : pc'[d] = pc[d] /\ code'[d] = code[d] /\ label'[d] = label[d]
        /\ \A d \in Cli : pc'[d] = "dead" <=> pc[d] = "dead"
        /\ regression' = regression /\ cmd' = cmd /\ report' = report
    BY <1>8 DEF Copy, End, Goto
  <2>2. pc[c] = "copy" /\ runLock = c /\ cmd[c] = "regress" /\ code'[c] # "compared"
    <3>1. pc[c] = "copy" /\ runLock = c /\ cmd[c] = "regress"
      BY <1>8 DEF Copy
    <3>2. code[c] = None
      BY <3>1
    <3>3. code'[c] \in {None, "cancelled"}
      BY <1>8, <3>2 DEF Copy, End, Goto
    <3>4. QED
      BY <3>1, <3>3, NoneIsNoCli
  <2>3. ASSUME NEW d \in Cli, d # c
        PROVE  pc'[d] \notin Held /\ (code'[d] = "compared" => pc'[d] # "release")
    BY <2>1, <2>2, <2>3
  <2>4. copies' = [copies EXCEPT ![label[c]] = report] /\ Mine(c, report, label[c])
    BY <1>8, <2>2 DEF Copy
  <2>5. /\ pc'[c] \in {"discard", "compare", "release"}
        /\ pc'[c] = "discard" => label[c] = "base" /\ label'[c] = "head"
        /\ pc'[c] = "compare" => label[c] = "head" /\ label'[c] = "head"
    BY <1>8, <2>2 DEF Copy, End, Goto
  <2>6. CASE pc'[c] = "discard"
    <3>1. copies'["base"] = report /\ Mine(c, report, "base")
      BY <2>4, <2>5, <2>6
    <3>2. QED
      BY <2>1, <2>2, <2>3, <2>6, <3>1
  <2>7. CASE pc'[c] = "compare"
    <3>1. copies'["head"] = report /\ Mine(c, report, "head")
      BY <2>4, <2>5, <2>7
    <3>2. copies'["base"] = copies["base"] /\ Mine(c, copies["base"], "base")
      BY <2>2, <2>4, <2>5, <2>7
    <3>3. QED
      BY <2>1, <2>2, <2>3, <2>5, <2>7, <3>1, <3>2
  <2>8. CASE pc'[c] = "release"
    BY <2>1, <2>2, <2>3, <2>8
  <2>9. QED
    BY <2>5, <2>6, <2>7, <2>8
<1>9. ASSUME NEW c \in Cli, Compare(c) PROVE Copies'
  <2>1. /\ \A d \in Cli \ {c} : pc'[d] = pc[d] /\ code'[d] = code[d]
        /\ \A d \in Cli : pc'[d] = "dead" <=> pc[d] = "dead"
        /\ copies' = copies /\ cmd' = cmd
    BY <1>9 DEF Compare, End, Goto
  <2>2. pc[c] = "compare" /\ runLock = c /\ cmd[c] = "regress" /\ pc'[c] = "release"
    BY <1>9 DEF Compare, End, Goto
  <2>3. ASSUME NEW d \in Cli, d # c
        PROVE  pc'[d] \notin Held /\ (code'[d] = "compared" => pc'[d] # "release")
    BY <2>1, <2>2, <2>3
  <2>4. Mine(c, copies["base"], "base") /\ Mine(c, copies["head"], "head")
    BY <2>2
  <2>5. ASSUME code'[c] = "compared"
        PROVE  regression' = copies /\ regression' \in [{"base", "head"} -> Written]
    BY <1>9, <2>5, NoneIsNoCli DEF Compare, End
  <2>6. QED
    BY <2>1, <2>2, <2>3, <2>4, <2>5
<1>10. ASSUME NEW c \in Cli, Release(c) PROVE Copies'
  BY <1>10, NoneIsNoCli DEF Release, Goto, Free
<1>11. ASSUME NEW c \in Cli, Conclude(c) PROVE Copies'
  BY <1>11, NoneIsNoCli DEF Conclude, Alive
<1>12. ASSUME NEW c \in Cli, Exit(c) PROVE Copies'
  BY <1>12, NoneIsNoCli DEF Exit, Alive
<1>13. ASSUME NEW c \in Cli, Cancel(c) PROVE Copies'
  BY <1>13, NoneIsNoCli DEF Cancel
<1>14. ASSUME NEW c \in Cli, Interrupt(c) PROVE Copies'
  BY <1>14, NoneIsNoCli DEF Interrupt, End, Goto, Free
<1>15. ASSUME NEW c \in Cli, Expire(c) PROVE Copies'
  BY <1>15, NoneIsNoCli DEF Expire
<1>16. ASSUME NEW c \in Cli, Kill(c) PROVE Copies'
  BY <1>16, NoneIsNoCli DEF Kill, Goto, Free, Leftover, Dead
<1>17. CASE Change
  BY <1>17, NoneIsNoCli DEF Change
<1>18. CASE UNCHANGED vars
  BY <1>18 DEF vars
<1>19. QED
  BY <1>1, <1>2, <1>3, <1>4, <1>5, <1>6, <1>7, <1>8, <1>9, <1>10, <1>11, <1>12, <1>13, <1>14, <1>15, <1>16, <1>17, <1>18 DEF Next, Step

\* Every step refuses a workspace for a change only.
LEMMA CausesStep ==
    ASSUME TypeOK, Causes, RefusedForCause, [Next]_vars
    PROVE  Causes' /\ RefusedForCause'
<1> USE DEF TypeOK, Causes, RefusedForCause, Places, Codes, locks, files, process
<1>1. ASSUME NEW c \in Cli, InitLock(c) PROVE Causes' /\ RefusedForCause'
  BY <1>1, WorkspaceAssumption DEF InitLock, End, Goto
<1>2. ASSUME NEW c \in Cli, Prepare(c) PROVE Causes' /\ RefusedForCause'
  BY <1>2, WorkspaceAssumption DEF Prepare, End, Goto
<1>3. ASSUME NEW c \in Cli, RunLock(c) PROVE Causes' /\ RefusedForCause'
  BY <1>3, WorkspaceAssumption DEF RunLock, End, Goto
<1>4. ASSUME NEW c \in Cli, Discard(c) PROVE Causes' /\ RefusedForCause'
  BY <1>4, WorkspaceAssumption DEF Discard, Goto, Discarded, files
<1>5. ASSUME NEW c \in Cli, Acquire(c) PROVE Causes' /\ RefusedForCause'
  BY <1>5, WorkspaceAssumption DEF Acquire, End, Goto
<1>6. ASSUME NEW c \in Cli, Launch(c) PROVE Causes' /\ RefusedForCause'
  BY <1>6, WorkspaceAssumption DEF Launch, Goto
<1>7. ASSUME NEW c \in Cli, Reap(c) PROVE Causes' /\ RefusedForCause'
  <2>1. Causes'
    BY <1>7 DEF Reap
  <2>2. ASSUME NEW d \in Cli, code'[d] = "unusable"
        PROVE  code[d] = "unusable"
    <3>1. Returned(c) # "unusable"
      BY WorkspaceAssumption DEF Returned
    <3>2. QED
      BY <1>7, <2>2, <3>1 DEF Reap, End
  <2>3. QED
    BY <1>7, <2>1, <2>2 DEF Reap
<1>8. ASSUME NEW c \in Cli, Copy(c) PROVE Causes' /\ RefusedForCause'
  BY <1>8, WorkspaceAssumption DEF Copy, End, Goto, Returned
<1>9. ASSUME NEW c \in Cli, Compare(c) PROVE Causes' /\ RefusedForCause'
  BY <1>9, WorkspaceAssumption DEF Compare, End, Goto
<1>10. ASSUME NEW c \in Cli, Release(c) PROVE Causes' /\ RefusedForCause'
  BY <1>10, WorkspaceAssumption DEF Release, Goto, Free
<1>11. ASSUME NEW c \in Cli, Conclude(c) PROVE Causes' /\ RefusedForCause'
  BY <1>11, WorkspaceAssumption DEF Conclude, Alive
<1>12. ASSUME NEW c \in Cli, Exit(c) PROVE Causes' /\ RefusedForCause'
  BY <1>12, WorkspaceAssumption DEF Exit, Alive
<1>13. ASSUME NEW c \in Cli, Cancel(c) PROVE Causes' /\ RefusedForCause'
  BY <1>13, WorkspaceAssumption DEF Cancel
<1>14. ASSUME NEW c \in Cli, Interrupt(c) PROVE Causes' /\ RefusedForCause'
  BY <1>14, WorkspaceAssumption DEF Interrupt, End, Goto, Free
<1>15. ASSUME NEW c \in Cli, Expire(c) PROVE Causes' /\ RefusedForCause'
  BY <1>15, WorkspaceAssumption DEF Expire
<1>16. ASSUME NEW c \in Cli, Kill(c) PROVE Causes' /\ RefusedForCause'
  BY <1>16, WorkspaceAssumption DEF Kill, Goto, Free, Leftover, Dead
<1>17. CASE Change
  BY <1>17, WorkspaceAssumption DEF Change
<1>18. CASE UNCHANGED vars
  BY <1>18 DEF vars
<1>19. QED
  BY <1>1, <1>2, <1>3, <1>4, <1>5, <1>6, <1>7, <1>8, <1>9, <1>10, <1>11, <1>12, <1>13, <1>14, <1>15, <1>16, <1>17, <1>18 DEF Next, Step

-----------------------------------------------------------------------------
LEMMA InvInit == Init => IInv
<1> SUFFICES ASSUME Init PROVE IInv
  OBVIOUS
<1>1. TypeOK
  BY WorkspaceAssumption DEF Init, TypeOK, Places, Commands
<1>2. Locked /\ OwnVerdict
  BY NoneIsNoCli DEF Init, Locked, Held, Alive, OwnVerdict, Behind
<1>3. Kinds
  BY NoneIsNoCli DEF Init, Kinds, Commands, Codes
<1>4. Copies /\ Causes /\ RefusedForCause
  BY NoneIsNoCli DEF Init, Copies, Held, Causes, RefusedForCause, Codes
<1>5. QED
  BY <1>1, <1>2, <1>3, <1>4 DEF IInv

LEMMA InvHolds == Spec => []IInv
<1>1. Init => IInv
  BY InvInit
<1>2. IInv /\ [Next]_vars => IInv'
  BY TypeStep, LockedStep, KindsStep, OwnStep, CopiesStep, CausesStep DEF IInv
<1>3. QED
  BY <1>1, <1>2, PTL DEF Spec

\* However many invocations share a workspace, two pipelines are alive in it only if an
\* invocation of cli.py was killed outright.
THEOREM MutualExclusion == Spec => []OnePipeline
<1>1. IInv => OnePipeline
  BY NoneIsNoCli DEF IInv, Locked, OnePipeline, Held, Dead
<1>2. QED
  BY <1>1, InvHolds, PTL

\* No invocation of cli.py that writes the report meets the verdict of an earlier one there.
THEOREM NoPriorVerdict == Spec => []OwnVerdict
<1>1. IInv => OwnVerdict
  BY DEF IInv
<1>2. QED
  BY <1>1, InvHolds, PTL

\* regress compares the two commits this invocation ran.
THEOREM Comparison == Spec => []ComparesItsRuns
<1>1. IInv => ComparesItsRuns
  <2> SUFFICES ASSUME IInv, NEW c \in Cli, code[c] = "compared", pc[c] = "release", NEW at \in {"base", "head"}
               PROVE  regression[at] = [by |-> c, at |-> at] \/ Dead(regression[at].by)
    BY DEF ComparesItsRuns
  <2>1. cmd[c] = "regress"
    BY DEF IInv, Kinds
  <2>2. regression[at] \in Written /\ Mine(c, regression[at], at)
    BY <2>1 DEF IInv, Copies
  <2>3. QED
    BY <2>2, NoneIsNoCli DEF Mine, Dead
<1>2. QED
  BY <1>1, InvHolds, PTL

\* prepare_workspace refuses a workspace only for what somebody else changed.
THEOREM Retryable == Spec => []RefusedForCause
<1>1. IInv => RefusedForCause
  BY DEF IInv
<1>2. QED
  BY <1>1, InvHolds, PTL
=============================================================================
