---------------------------- MODULE Harness_proofs ----------------------------
(***************************************************************************)
(* What Harness guarantees for every set of claims, every number of        *)
(* repair rounds and every sequence of runs, edits and crashes.            *)
(***************************************************************************)
EXTENDS Harness, FiniteSetTheorems, TLAPS

-----------------------------------------------------------------------------
(* Types                                                                   *)

\* While claims are verified or repaired a round is left; refine counts from 0.
RoundOpen == /\ phase \in {"propose", "verify", "adjudicate"} => round <= MaxRefinements
             /\ phase = "propose" => round = 0

Typed == TypeOK /\ RoundOpen

LEMMA TypedInit == ASSUME Init PROVE Typed
  BY HarnessAssumption, SMTT(30)
  DEF Init, Typed, TypeOK, RoundOpen, Blank, Phases, Statuses, Held, ModelStatuses, Kinds, Classes,
      Dispositions, Entries, NoEntry

LEMMA ResultTyped ==
  ASSUME TypeOK, NEW c \in Claims, NEW s \in Statuses, NEW k \in Kinds, NEW b \in Builds,
         SetResult(c, s, k, b)
  PROVE  /\ status' \in [Claims -> Statuses] /\ kind' \in [Claims -> Kinds]
         /\ basis' \in [Claims -> Builds \cup {None}]
  BY DEF TypeOK, SetResult, Settle, Statuses, ModelStatuses

LEMMA TypedNext == ASSUME Typed, [Next]_vars PROVE Typed'
<1> USE HarnessAssumption
<1> SUFFICES ASSUME Typed, Next PROVE Typed'
  BY DEF Typed, TypeOK, RoundOpen, vars, loopVars, resultVars, claimVars, ceVars, cacheVars
<1> USE DEF Typed, TypeOK, RoundOpen, Phases
<1>1. CASE StartRun
  BY <1>1 DEF StartRun, Blank, Statuses, Kinds, Classes, Dispositions, Entries
<1>2. ASSUME NEW f \in Functions, Propose(f) PROVE Typed'
  BY <1>2 DEF Propose, Register, ceVars, cacheVars, Statuses, RouteStatus, Routed, Feasible
<1>3. CASE EndPropose
  BY <1>3 DEF EndPropose, resultVars, claimVars, ceVars, cacheVars
<1>4. ASSUME NEW c \in Claims, Verify(c) PROVE Typed'
  <2> /\ todo' \subseteq Claims /\ build' = build
      /\ UNCHANGED <<phase, targets, batch, round, claimVars, ceVars, defect, disk, run>>
    BY <1>4 DEF Verify
  <2>1. Key(c) \in Keys
    BY DEF Key, Keys, Builds
  <2>2. CASE status[c] # "PENDING"
    BY <1>4, <2>2 DEF Verify, claimVars, ceVars, resultVars
  <2>3. CASE VerifyStructural(c)
    BY <2>3, ResultTyped DEF VerifyStructural, claimVars, ceVars, Statuses, Held, Kinds,
       ModelStatuses
  <2>4. CASE CacheHit(c)
    <3>1. index[Key(c)].status \in Statuses /\ index[Key(c)].kind \in Kinds
          /\ index[Key(c)].basis \in Builds
      BY <2>1, <2>4 DEF CacheHit, Entries, KernelStatuses, Statuses, Held
    <3> QED
      BY <2>4, <3>1, ResultTyped DEF CacheHit, claimVars, ceVars
  <2>5. CASE VerifyLean(c)
    <3>1. PICK s \in Statuses, k \in Kinds :
             /\ SetResult(c, s, k, build)
             /\ index' = IF UseCache /\ Cacheable(s)
                         THEN [index EXCEPT ![Key(c)] = [status |-> s, kind |-> k, basis |-> build]]
                         ELSE index
      BY <2>5 DEF VerifyLean
    <3>2. index' \in [Keys -> Entries]
      BY <2>1, <3>1 DEF Entries, Cacheable
    <3> QED
      BY <3>1, <3>2, ResultTyped DEF claimVars, ceVars
  <2> QED  BY <1>4, <2>2, <2>3, <2>4, <2>5 DEF Verify
<1>5. CASE EndVerify
  BY <1>5 DEF EndVerify, EnterProve, RoundLeft, Refuted, ProverJobs, resultVars, claimVars, ceVars,
     cacheVars, Selected, Registered
<1>6. ASSUME NEW c \in Claims, Adjudicate(c) PROVE Typed'
  <2> SUFFICES ASSUME NEW cl \in Classes, Classified(c, cl),
                      \/ ReportBug(c) \/ BlameModel(c) \/ DropClaim(c) \/ RepairKnown(c)
                      \/ \E n \in Claims : RepairWith(c, n)
               PROVE  Typed'
    BY <1>6 DEF Adjudicate, ReportBug, BlameModel, DropClaim, RepairKnown, RepairWith, Classes
  <2>1. /\ todo' \subseteq Claims /\ class' \in [Claims -> Classes]
        /\ native' \in [Claims -> {"none", "agree", "disagree"}]
        /\ UNCHANGED <<phase, targets, round, kind, basis, marked, defect, index, disk, build, run>>
    BY DEF Classified, NativeAnswers, cacheVars
  <2>2. CASE ReportBug(c) \/ BlameModel(c) \/ DropClaim(c) \/ RepairKnown(c)
    BY <2>1, <2>2 DEF ReportBug, BlameModel, DropClaim, RepairKnown, Dispose, Dispositions, Statuses,
       ModelStatuses
  <2>3. ASSUME NEW n \in Claims, RepairWith(c, n) PROVE Typed'
    BY <2>1, <2>3 DEF RepairWith, Dispose, Dispositions, RouteStatus, Statuses
  <2> QED  BY <2>2, <2>3
<1>7. CASE EndRound
  BY <1>7 DEF EndRound, EnterProve, ProverJobs, resultVars, claimVars, ceVars, cacheVars, Selected,
     Registered
<1>8. ASSUME NEW c \in Claims, ProveOpen(c) PROVE Typed'
  BY <1>8 DEF ProveOpen, claimVars, ceVars, cacheVars, Statuses, Held
<1>9. CASE EndProve
  BY <1>9 DEF EndProve, Undiagnosed, Selected, Registered, resultVars, claimVars, ceVars, cacheVars
<1>10. ASSUME NEW c \in Claims, Diagnose(c) PROVE Typed'
  BY <1>10 DEF Diagnose, resultVars, claimVars, ceVars, cacheVars
<1>11. CASE EndDiagnose \/ SaveCache \/ Report \/ Fail
  BY <1>11 DEF EndDiagnose, SaveCache, Report, Fail, Entries, Running, resultVars, claimVars, ceVars,
     cacheVars
<1>12. CASE LabelAssumptions
  BY <1>12 DEF LabelAssumptions, claimVars, ceVars, cacheVars, Statuses, Held
<1> QED
  BY <1>1, <1>2, <1>3, <1>4, <1>5, <1>6, <1>7, <1>8, <1>9, <1>10, <1>11, <1>12 DEF Next, Step

\* Every variable keeps its type, and no claim is repaired more than MaxRefinements times:
\* the round counter of refine and the depth of the claims stay within their bounds.
THEOREM TypeCorrect == Spec => []TypeOK
<1>1. Init => Typed  BY TypedInit
<1>2. Typed /\ [Next]_vars => Typed'  BY TypedNext
<1>3. Typed => TypeOK  BY DEF Typed
<1> QED  BY <1>1, <1>2, <1>3, PTL DEF Spec

-----------------------------------------------------------------------------
(* The cache: an entry is a kernel verdict about the module its key names. *)

Filed(store) ==
    \A k \in Keys : store[k] # NoEntry =>
        /\ store[k].status \in {"PROVED", "BOUNDED_PROVED", "REFUTED"}
        /\ store[k].basis[1] = k[2]

CacheInv == Filed(index) /\ Filed(disk) /\ VerdictsOfThisModule

LEMMA CacheNext == ASSUME Typed, CacheInv, [Next]_vars PROVE CacheInv'
<1> USE DEF CacheInv, Filed, VerdictsOfThisModule
<1>1. CASE StartRun
  <2>1. Filed(index)' /\ Filed(disk)'
    BY <1>1 DEF StartRun
  <2> QED  BY <1>1, <2>1 DEF StartRun, Blank
<1>2. ASSUME NEW c \in Claims, Verify(c) PROVE CacheInv'
  <2>1. build' = build /\ disk' = disk
    BY <1>2 DEF Verify
  <2>2. Key(c) \in Keys /\ Key(c)[2] = build[1]
    BY DEF Typed, TypeOK, Key, Keys, Builds
  <2>3. ASSUME NEW s, NEW k, NEW b, SetResult(c, s, k, b), b[1] = build[1]
        PROVE  VerdictsOfThisModule'
    BY <2>1, <2>3 DEF SetResult, Typed, TypeOK
  <2>4. CASE status[c] # "PENDING"
    BY <1>2, <2>1, <2>4 DEF Verify, resultVars
  <2>5. CASE VerifyStructural(c)
    BY <2>1, <2>3, <2>5 DEF VerifyStructural
  <2>6. CASE CacheHit(c)
    BY <2>1, <2>2, <2>3, <2>6 DEF CacheHit
  <2>7. CASE VerifyLean(c)
    <3>1. PICK s \in Statuses, k \in Kinds :
             /\ LeanVerdict(s, k) /\ SetResult(c, s, k, build)
             /\ index' = IF UseCache /\ Cacheable(s)
                         THEN [index EXCEPT ![Key(c)] = [status |-> s, kind |-> k, basis |-> build]]
                         ELSE index
      BY <2>7 DEF VerifyLean
    <3>2. Cacheable(s) => s \in {"PROVED", "BOUNDED_PROVED", "REFUTED"}
      BY <3>1 DEF LeanVerdict, Cacheable, KernelStatuses
    <3>3. Filed(index)'
      BY <2>2, <3>1, <3>2 DEF Typed, TypeOK
    <3> QED  BY <2>1, <2>3, <3>1, <3>3
  <2> QED  BY <1>2, <2>4, <2>5, <2>6, <2>7 DEF Verify
<1>3. ASSUME NEW c \in Claims, ProveOpen(c) PROVE CacheInv'
  BY <1>3 DEF ProveOpen, cacheVars, Typed, TypeOK
<1>4. CASE SaveCache \/ Fail
  BY <1>4 DEF SaveCache, Fail, resultVars
<1>5. CASE UNCHANGED <<index, disk, basis, build>>
  BY <1>5
<1> QED
  BY <1>1, <1>2, <1>3, <1>4, <1>5
  DEF Next, Step, vars, resultVars, cacheVars, Propose, EndPropose, EndVerify, Adjudicate, ReportBug,
      BlameModel, DropClaim, RepairKnown, RepairWith, Classified, EndRound, EndProve, Diagnose,
      EndDiagnose, LabelAssumptions, Report

\* However often the source is edited and the process killed between the runs, a verdict - new
\* or cached - is about the generated module the run verifies.
THEOREM CacheSound == Spec => []VerdictsOfThisModule
<1>1. Init => Typed /\ CacheInv
  BY TypedInit, HarnessAssumption DEF Init, Blank, CacheInv, Filed, VerdictsOfThisModule
<1>2. Typed /\ CacheInv /\ [Next]_vars => (Typed /\ CacheInv)'
  BY TypedNext, CacheNext
<1>3. CacheInv => VerdictsOfThisModule
  BY DEF CacheInv
<1> QED  BY <1>1, <1>2, <1>3, PTL DEF Spec

-----------------------------------------------------------------------------
(* The loop invariant of a run: where each claim is, phase by phase.       *)

Untouched(c) == class[c] = "none" /\ disp[c] = "none" /\ repairedBy[c] = None

\* A function that is still to be proposed has no claim.
Proposing ==
    phase = "propose" =>
        \A c \in Claims :
            /\ Untouched(c) /\ depth[c] = 0
            /\ status[c] \in {"ABSENT", "NOT_SELECTED", "UNSUPPORTED", "PENDING"}
            /\ status[c] # "ABSENT" => FnOf[c] \notin targets
            /\ status[c] = "PENDING" => c \in batch

\* Round r verifies claims of depth r; what is pending is still on the list.
Verifying ==
    phase = "verify" =>
        /\ todo \subseteq batch
        /\ \A c \in batch : Untouched(c) /\ depth[c] = round
        /\ \A c \in Claims : /\ status[c] = "PENDING" => c \in todo
                             /\ status[c] = "REFUTED" /\ disp[c] = "none" => c \in batch

\* The refuted claims of depth r - 1 are read in round r, their repairs wait in batch.
Repairing ==
    phase = "adjudicate" =>
        /\ \A c \in todo : Untouched(c) /\ depth[c] = round - 1 /\ status[c] = "REFUTED"
        /\ \A c \in batch : Untouched(c) /\ depth[c] = round /\ status[c] = "PENDING"
        /\ \A c \in Claims : /\ status[c] = "PENDING" => c \in batch
                             /\ status[c] = "REFUTED" /\ disp[c] = "none" => c \in todo

Finishing ==
    /\ phase \in {"prove", "diagnose", "save", "label", "report", "done"} =>
           \A c \in Claims : /\ status[c] # "PENDING"
                             /\ status[c] = "REFUTED" /\ disp[c] = "none" => depth[c] = MaxRefinements
    /\ phase = "prove" => \A c \in todo : status[c] \in {"BOUNDED_PROVED", "UNKNOWN"}

\* What the judge read stays refuted, and a repair is a registered claim one round deeper
\* that repairs no other claim.
Chained ==
    \A c \in Claims :
        /\ status[c] = "ABSENT" => Untouched(c)
        /\ class[c] \in {"REAL_BUG", "REPAIRABLE"} => status[c] = "REFUTED"
        /\ repairedBy[c] # None =>
              /\ class[c] = "REPAIRABLE"
              /\ status[repairedBy[c]] # "ABSENT"
              /\ depth[repairedBy[c]] = depth[c] + 1
              /\ \A d \in Claims \ {c} : repairedBy[d] # repairedBy[c]

LoopInv == Proposing /\ Verifying /\ Repairing /\ Finishing /\ Chained

LEMMA LoopInit == ASSUME Init PROVE LoopInv
  BY DEF Init, Blank, LoopInv, Proposing, Verifying, Repairing, Finishing, Chained, Untouched

\* A result replaces a pending one only, and is never pending itself.
LEMMA VerifyMoves ==
  ASSUME Typed, CacheInv, NEW c \in Claims, Verify(c)
  PROVE  /\ phase = "verify" /\ phase' = phase /\ c \in todo /\ todo' = todo \ {c}
         /\ UNCHANGED <<targets, batch, round, depth, class, disp, repairedBy, defect, build, disk>>
         /\ status[c] # "PENDING" => status' = status
         /\ \E s \in Statuses \ {"PENDING", "ABSENT", "NOT_SELECTED", "UNSUPPORTED",
                                 "ASSUMPTION_DEPENDENT"} :
               status[c] = "PENDING" => status' = [status EXCEPT ![c] = s]
<1> USE DEF Verify, NextUnverified
<1>1. /\ phase = "verify" /\ phase' = phase /\ c \in todo /\ todo' = todo \ {c}
      /\ UNCHANGED <<targets, batch, round, depth, class, disp, repairedBy, defect, build, disk>>
  BY DEF claimVars, ceVars
<1>2. status[c] # "PENDING" => status' = status
  BY DEF resultVars
<1>3. ASSUME NEW s \in Statuses, NEW k, NEW b, SetResult(c, s, k, b),
             s \in {"PROVED", "BOUNDED_PROVED", "UNKNOWN", "REFUTED", "TIMEOUT", "INCONSISTENT_MODEL",
                    "MODEL_INCOMPLETE"}
      PROVE  \E t \in Statuses \ {"PENDING", "ABSENT", "NOT_SELECTED", "UNSUPPORTED",
                                  "ASSUMPTION_DEPENDENT"} : status' = [status EXCEPT ![c] = t]
  BY <1>3 DEF SetResult, Settle, Statuses, ModelStatuses
<1>4. CASE VerifyStructural(c)
  BY <1>1, <1>2, <1>3, <1>4 DEF VerifyStructural, Statuses, ModelStatuses, Held
<1>5. CASE CacheHit(c)
  <2>1. Key(c) \in Keys /\ index[Key(c)] \in Entries
    BY DEF Typed, TypeOK, Key, Keys, Builds
  <2>2. index[Key(c)].status \in {"PROVED", "BOUNDED_PROVED", "REFUTED"} /\ index[Key(c)].kind \in Kinds
    BY <1>5, <2>1 DEF CacheHit, CacheInv, Filed, Entries
  <2> QED  BY <1>1, <1>2, <1>3, <1>5, <2>2 DEF CacheHit, Statuses, Held
<1>6. CASE VerifyLean(c)
  BY <1>1, <1>2, <1>3, <1>6 DEF VerifyLean, LeanVerdict
<1> QED  BY <1>1, <1>2, <1>4, <1>5, <1>6 DEF Statuses

\* What adjudicating one claim changes, whatever the judge answers.
Blamed(c, cl) == /\ status' = IF cl = "INCOMPLETE_MODEL"
                              THEN [status EXCEPT ![c] = "MODEL_INCOMPLETE"] ELSE status
                 /\ UNCHANGED <<batch, backend, depth, repairedBy>>

Repaired(c, n, b) == /\ status[n] = "ABSENT" /\ depth[c] < MaxRefinements
                     /\ backend' = [backend EXCEPT ![n] = b]
                     /\ status' = [status EXCEPT ![n] = RouteStatus(b)]
                     /\ batch' = IF b = "none" THEN batch ELSE batch \cup {n}
                     /\ depth' = [depth EXCEPT ![n] = depth[c] + 1]
                     /\ repairedBy' = [repairedBy EXCEPT ![c] = n]

Routes == {"lean-kernel", "cpir-structural", "none"}

Read(c, cl) == /\ phase = "adjudicate" /\ c \in todo /\ todo' = todo \ {c}
               /\ class' = [class EXCEPT ![c] = cl]
               /\ UNCHANGED <<phase, targets, round, kind, basis, marked, defect, index, disk, build, run>>

LEMMA AdjudicateMoves ==
  ASSUME NEW c \in Claims, Adjudicate(c)
  PROVE  \E cl \in {"REAL_BUG", "INCOMPLETE_MODEL", "REPAIRABLE"}, d \in Dispositions \ {"none"} :
            /\ Read(c, cl) /\ disp' = [disp EXCEPT ![c] = d]
            /\ \/ Blamed(c, cl)
               \/ cl = "REPAIRABLE" /\ \E n \in Claims, b \in Routes : Repaired(c, n, b)
<1>1. ASSUME NEW cl, Classified(c, cl) PROVE Read(c, cl)
  BY <1>1 DEF Classified, cacheVars, Read
<1> USE DEF Dispose, Dispositions, Blamed
<1>2. CASE ReportBug(c)
  BY <1>1, <1>2 DEF ReportBug
<1>3. CASE BlameModel(c)
  BY <1>1, <1>3 DEF BlameModel
<1>4. CASE DropClaim(c)
  BY <1>1, <1>4 DEF DropClaim
<1>5. CASE RepairKnown(c)
  BY <1>1, <1>5 DEF RepairKnown
<1>6. ASSUME NEW n \in Claims, RepairWith(c, n)
      PROVE  /\ Read(c, "REPAIRABLE") /\ disp' = [disp EXCEPT ![c] = "repaired"]
             /\ \E b \in Routes : Repaired(c, n, b)
  BY <1>1, <1>6 DEF RepairWith, IsNew, Registered, Repaired, Routes
<1>7. CASE \E n \in Claims : RepairWith(c, n)
  <2> "repaired" \in Dispositions \ {"none"}
    OBVIOUS
  <2> HIDE DEF Dispositions, Blamed
  <2> QED  BY <1>6, <1>7
<1> QED  BY <1>2, <1>3, <1>4, <1>5, <1>7 DEF Adjudicate

\* Reading one counterexample keeps the loop invariant.
LEMMA AdjudicateKeeps == ASSUME Typed, LoopInv, NEW c \in Claims, Adjudicate(c) PROVE LoopInv'
<1>1. PICK cl \in {"REAL_BUG", "INCOMPLETE_MODEL", "REPAIRABLE"}, d \in Dispositions \ {"none"} :
         /\ Read(c, cl) /\ disp' = [disp EXCEPT ![c] = d]
         /\ \/ Blamed(c, cl)
            \/ cl = "REPAIRABLE" /\ \E n \in Claims, b \in Routes : Repaired(c, n, b)
  BY AdjudicateMoves
<1>2. /\ status \in [Claims -> Statuses] /\ class \in [Claims -> Classes] /\ depth \in [Claims -> Int]
      /\ disp \in [Claims -> Dispositions] /\ repairedBy \in [Claims -> Claims \cup {None}]
      /\ round \in Int /\ None \notin Claims
  BY HarnessAssumption DEF Typed, TypeOK
<1>3. /\ phase = "adjudicate" /\ phase' = "adjudicate" /\ c \in todo /\ todo' = todo \ {c} /\ round' = round
      /\ class' = [class EXCEPT ![c] = cl]
  BY <1>1 DEF Read
<1>4. status[c] = "REFUTED" /\ Untouched(c) /\ depth[c] = round - 1 /\ c \notin batch
  BY <1>3 DEF LoopInv, Repairing
<1>5. Repairing' /\ Chained' => LoopInv'
  BY <1>3 DEF LoopInv, Proposing, Verifying, Finishing
<1>6. CASE Blamed(c, cl)
  <2>1. Repairing'
    BY <1>1, <1>2, <1>3, <1>4, <1>6 DEF LoopInv, Repairing, Untouched, Blamed
  <2>2. Chained'
    BY <1>1, <1>2, <1>3, <1>4, <1>6 DEF LoopInv, Chained, Untouched, Blamed
  <2> QED  BY <1>5, <2>1, <2>2
<1>7. ASSUME cl = "REPAIRABLE", NEW n \in Claims, NEW b \in Routes, Repaired(c, n, b) PROVE LoopInv'
  <2>1. n # c /\ n \notin batch /\ n \notin todo /\ Untouched(n)
    BY <1>3, <1>4, <1>7 DEF LoopInv, Repairing, Chained, Repaired
  <2>2. RouteStatus(b) \in {"UNSUPPORTED", "PENDING"} /\ (RouteStatus(b) = "PENDING" <=> b # "none")
    BY DEF RouteStatus
  <2>3. Repairing'
    BY <1>1, <1>2, <1>3, <1>4, <1>7, <2>1, <2>2 DEF LoopInv, Repairing, Untouched, Repaired
  <2>4. Chained'
    BY <1>1, <1>2, <1>3, <1>4, <1>7, <2>1, <2>2 DEF LoopInv, Chained, Untouched, Repaired
  <2> QED  BY <1>5, <2>3, <2>4
<1> QED  BY <1>1, <1>6, <1>7

LEMMA ProposeKeeps == ASSUME Typed, LoopInv, NEW f \in Functions, Propose(f) PROVE LoopInv'
<1>1. PICK acc \in SUBSET {c \in Claims : FnOf[c] = f} : \E chosen \in SUBSET acc :
      \E route \in [chosen -> Routes] : Register(acc, chosen, route)
  BY DEF Propose, Routes
<1>2. /\ phase = "propose" /\ phase' = "propose" /\ f \in targets /\ targets' = targets \ {f}
      /\ UNCHANGED <<depth, class, disp, repairedBy>>
  BY DEF Propose, ceVars
<1>3. PICK chosen \in SUBSET acc : \E route \in [chosen -> Routes] : Register(acc, chosen, route)
  BY <1>1
<1>4. PICK route \in [chosen -> Routes] : Register(acc, chosen, route)
  BY <1>3
<1>5. \A c \in Claims :
         /\ c \in chosen => status'[c] \in {"UNSUPPORTED", "PENDING"} /\ c \in batch'
         /\ c \in acc /\ c \notin chosen => status'[c] = "NOT_SELECTED"
         /\ c \notin acc => status'[c] = status[c] /\ (c \in batch => c \in batch')
  BY <1>4 DEF Register, RouteStatus
<1>6. Proposing'
  BY <1>2, <1>5 DEF LoopInv, Proposing, Untouched
<1>7. Chained'
  BY <1>2, <1>6 DEF LoopInv, Proposing, Chained, Untouched
<1> QED  BY <1>2, <1>6, <1>7 DEF LoopInv, Verifying, Repairing, Finishing

\* A verified claim of the batch gets its result; the others keep theirs.
LEMMA VerifyKeeps == ASSUME Typed, CacheInv, LoopInv, NEW c \in Claims, Verify(c) PROVE LoopInv'
<1>1. /\ phase = "verify" /\ phase' = phase /\ c \in todo /\ todo' = todo \ {c}
      /\ UNCHANGED <<targets, batch, round, depth, class, disp, repairedBy>>
      /\ status[c] # "PENDING" => status' = status
  BY VerifyMoves
<1>2. PICK s \in Statuses \ {"PENDING", "ABSENT", "NOT_SELECTED", "UNSUPPORTED", "ASSUMPTION_DEPENDENT"} :
         status[c] = "PENDING" => status' = [status EXCEPT ![c] = s]
  BY VerifyMoves
<1>3. status \in [Claims -> Statuses] /\ repairedBy \in [Claims -> Claims \cup {None}]
  BY DEF Typed, TypeOK
<1>4. c \in batch /\ Untouched(c)
  BY <1>1 DEF LoopInv, Verifying
<1>5. Verifying'
  BY <1>1, <1>2, <1>3, <1>4 DEF LoopInv, Verifying, Untouched
<1>6. Chained'
  BY <1>1, <1>2, <1>3, <1>4 DEF LoopInv, Chained, Untouched
<1> QED  BY <1>1, <1>5, <1>6 DEF LoopInv, Proposing, Repairing, Finishing

\* The steps that end a loop hand the right claims to the next one.
LEMMA LoopEnds == ASSUME Typed, LoopInv, EndPropose \/ EndVerify \/ EndRound PROVE LoopInv'
<1> USE HarnessAssumption DEF LoopInv
<1>1. UNCHANGED <<status, class, disp, repairedBy, depth>>
  BY DEF EndPropose, EndVerify, EndRound, resultVars, claimVars, ceVars
<1>2. Chained'
  BY <1>1 DEF Chained, Untouched
<1>3. \A c \in ProverJobs : status[c] \in {"BOUNDED_PROVED", "UNKNOWN"}
  BY DEF ProverJobs
<1>4. CASE EndPropose
  <2>1. Verifying'
    BY <1>1, <1>4 DEF EndPropose, Proposing, Verifying, Untouched, Typed, RoundOpen, TypeOK
  <2> QED  BY <1>2, <1>4, <2>1 DEF EndPropose, Proposing, Repairing, Finishing
<1>5. CASE EndVerify
  <2>1. phase = "verify" /\ todo = {} /\ round' = round + 1 /\ round \in Int /\ round <= MaxRefinements
    BY <1>5 DEF EndVerify, Typed, TypeOK, RoundOpen
  <2>2. \A c \in Claims : /\ status[c] # "PENDING"
                          /\ status[c] = "REFUTED" /\ disp[c] = "none" =>
                                c \in batch /\ Untouched(c) /\ depth[c] = round
    BY <2>1 DEF Verifying
  <2>3. CASE RoundLeft
    <3>1. phase' = "adjudicate" /\ batch' = {} /\ todo' = Refuted
      BY <1>5, <2>3 DEF EndVerify
    <3>2. Refuted \subseteq Claims /\ \A c \in Refuted : status[c] = "REFUTED" /\ Untouched(c) /\ depth[c] = round
      BY <2>1, <2>2 DEF Refuted, Verifying, Typed, TypeOK
    <3>3. Repairing'
      BY <1>1, <2>1, <2>2, <3>1, <3>2 DEF Repairing, Refuted, Untouched
    <3> QED  BY <1>2, <3>1, <3>3 DEF Proposing, Verifying, Finishing
  <2>4. CASE ~RoundLeft
    <3>1. phase' = "prove" /\ todo' \subseteq ProverJobs
      BY <1>5, <2>4 DEF EndVerify, EnterProve
    <3>2. round = MaxRefinements
      BY <2>1, <2>4 DEF RoundLeft
    <3>3. Finishing'
      BY <1>1, <1>3, <2>2, <3>1, <3>2 DEF Finishing
    <3> QED  BY <1>2, <3>1, <3>3 DEF Proposing, Verifying, Repairing
  <2> QED  BY <2>3, <2>4
<1>6. CASE EndRound
  <2>1. CASE batch = {}
    <3>1. phase = "adjudicate" /\ todo = {} /\ phase' = "prove" /\ todo' \subseteq ProverJobs
      BY <1>6, <2>1 DEF EndRound, EnterProve
    <3>2. Finishing'
      BY <1>1, <1>3, <2>1, <3>1 DEF Repairing, Finishing
    <3> QED  BY <1>2, <3>1, <3>2 DEF Proposing, Verifying, Repairing
  <2>2. CASE batch # {}
    <3>1. /\ phase = "adjudicate" /\ todo = {} /\ phase' = "verify" /\ todo' = batch /\ batch' = batch
          /\ round' = round
      BY <1>6, <2>2 DEF EndRound
    <3>2. Verifying'
      BY <1>1, <3>1 DEF Repairing, Verifying, Untouched
    <3> QED  BY <1>2, <3>1, <3>2 DEF Proposing, Repairing, Finishing
  <2> QED  BY <2>1, <2>2
<1> QED  BY <1>4, <1>5, <1>6

LEMMA LoopNext == ASSUME Typed, CacheInv, LoopInv, [Next]_vars PROVE LoopInv'
<1>1. CASE StartRun
  BY <1>1 DEF StartRun, Blank, LoopInv, Proposing, Verifying, Repairing, Finishing, Chained, Untouched
<1>2. ASSUME NEW f \in Functions, Propose(f) PROVE LoopInv'
  BY <1>2, ProposeKeeps
<1>3. ASSUME NEW c \in Claims, Verify(c) PROVE LoopInv'
  BY <1>3, VerifyKeeps
<1>4. CASE EndPropose \/ EndVerify \/ EndRound
  BY <1>4, LoopEnds
<1>5. ASSUME NEW c \in Claims, Adjudicate(c) PROVE LoopInv'
  BY <1>5, AdjudicateKeeps
<1>6. ASSUME NEW c \in Claims, ProveOpen(c) PROVE LoopInv'
  <2>1. /\ phase = "prove" /\ phase' = "prove" /\ c \in todo /\ todo' = todo \ {c}
        /\ UNCHANGED <<depth, class, disp, repairedBy>>
        /\ status' = [status EXCEPT ![c] = "PROVED"] \/ status' = status
    BY <1>6 DEF ProveOpen, claimVars, ceVars
  <2>2. status[c] \in {"BOUNDED_PROVED", "UNKNOWN"}
    BY <2>1 DEF LoopInv, Finishing
  <2>3. /\ status \in [Claims -> Statuses] /\ repairedBy \in [Claims -> Claims \cup {None}]
        /\ todo \subseteq Claims
    BY DEF Typed, TypeOK
  <2>4. Finishing'
    BY <2>1, <2>2, <2>3 DEF LoopInv, Finishing
  <2>5. Chained'
    BY <2>1, <2>2, <2>3 DEF LoopInv, Chained, Untouched
  <2> QED  BY <2>1, <2>4, <2>5 DEF LoopInv, Proposing, Verifying, Repairing
<1>7. CASE LabelAssumptions
  <2>1. /\ phase' = "report" /\ phase = "label" /\ UNCHANGED <<depth, class, disp, repairedBy>>
        /\ \A c \in Claims : \/ status'[c] = status[c]
                             \/ status[c] \in Unconditional /\ status'[c] = "ASSUMPTION_DEPENDENT"
    BY <1>7 DEF LabelAssumptions, claimVars, ceVars, Typed, TypeOK
  <2>2. status \in [Claims -> Statuses] /\ repairedBy \in [Claims -> Claims \cup {None}]
    BY DEF Typed, TypeOK
  <2>3. Chained'
    BY <2>1, <2>2 DEF LoopInv, Chained, Untouched, Unconditional
  <2> QED  BY <2>1, <2>3 DEF LoopInv, Proposing, Verifying, Repairing, Finishing, Unconditional
<1>8. CASE \/ EndProve \/ EndDiagnose \/ SaveCache \/ Report \/ Fail
           \/ \E c \in Claims : Diagnose(c)
  <2>1. /\ UNCHANGED <<status, depth, class, disp, repairedBy>>
        /\ phase' \in {"diagnose", "save", "label", "report", "done", "failed"}
        /\ phase' # "failed" => phase \in {"prove", "diagnose", "save", "label", "report"}
    BY <1>8 DEF EndProve, EndDiagnose, SaveCache, Report, Fail, Diagnose, resultVars, claimVars, ceVars
  <2>2. Chained'
    BY <2>1 DEF LoopInv, Chained, Untouched
  <2> QED  BY <2>1, <2>2 DEF LoopInv, Proposing, Verifying, Repairing, Finishing
<1>9. CASE UNCHANGED vars
  BY <1>9 DEF vars, loopVars, resultVars, claimVars, ceVars, LoopInv, Proposing, Verifying, Repairing,
     Finishing, Chained, Untouched
<1> QED  BY <1>1, <1>2, <1>3, <1>4, <1>5, <1>6, <1>7, <1>8, <1>9 DEF Next, Step

\* The inductive invariant of the harness.
Inductive == Typed /\ CacheInv /\ LoopInv

THEOREM Invariance == Spec => []Inductive
<1>1. Init => Inductive
  BY TypedInit, LoopInit, HarnessAssumption DEF Init, Blank, Inductive, CacheInv, Filed, VerdictsOfThisModule
<1>2. Inductive /\ [Next]_vars => Inductive'
  BY TypedNext, CacheNext, LoopNext DEF Inductive
<1> QED  BY <1>1, <1>2, PTL DEF Spec

\* A counterexample the judge calls a real bug stays a refutation to the end of the run: no
\* repair, re-verification, prover agent or report rewrites it.
THEOREM RealBugsStand == Spec => []RealBugStands
<1>1. Inductive => RealBugStands
  BY DEF Inductive, LoopInv, Chained, RealBugStands
<1> QED  BY <1>1, Invariance, PTL

\* The repairs of a claim form a chain of at most MaxRefinements claims, whatever repairs the
\* judge picks: refinement can neither circle nor merge.
THEOREM ChainsOfRepairs == Spec => []RepairsAreChains
<1>1. Inductive => RepairsAreChains
  BY HarnessAssumption DEF Inductive, LoopInv, Chained, RepairsAreChains, Typed, TypeOK
<1> QED  BY <1>1, Invariance, PTL

\* A run that gets past verification leaves no claim pending, and no refuted claim unread but
\* those of the last round.
THEOREM NothingOpen == Spec => []NothingLeftOpen
<1>1. Inductive => NothingLeftOpen
  BY DEF Inductive, LoopInv, Finishing, NothingLeftOpen, Selected, Registered
<1> QED  BY <1>1, Invariance, PTL

-----------------------------------------------------------------------------
(* What a step may do to the status of a claim.                            *)

Rewritten(old, new) ==
    \/ new = old
    \/ old = "ABSENT" /\ new \in {"NOT_SELECTED", "UNSUPPORTED", "PENDING"}
    \/ /\ old = "PENDING" /\ phase = "verify"
       /\ new \in Statuses \ {"PENDING", "ABSENT", "NOT_SELECTED", "UNSUPPORTED", "ASSUMPTION_DEPENDENT"}
    \/ old = "REFUTED" /\ new = "MODEL_INCOMPLETE"
    \/ old \in {"UNKNOWN", "BOUNDED_PROVED"} /\ phase = "prove" /\ new = "PROVED"
    \/ old \in {"PROVED", "BOUNDED_PROVED"} /\ new = "ASSUMPTION_DEPENDENT"

LEMMA StatusMoves ==
  ASSUME Inductive, Step \/ Fail
  PROVE  \A x \in Claims : Rewritten(status[x], status'[x])
<1> USE DEF Rewritten
<1>0. status \in [Claims -> Statuses]
  BY DEF Inductive, Typed, TypeOK
<1>1. ASSUME NEW f \in Functions, Propose(f) PROVE \A x \in Claims : Rewritten(status[x], status'[x])
  <2>1. PICK acc \in SUBSET {c \in Claims : FnOf[c] = f} : \E chosen \in SUBSET acc :
        \E route \in [chosen -> Routes] : Register(acc, chosen, route)
    BY <1>1 DEF Propose, Routes
  <2>2. \A x \in acc : status[x] = "ABSENT"
    BY <1>1 DEF Propose, Inductive, LoopInv, Proposing
  <2> QED  BY <2>1, <2>2 DEF Register, RouteStatus
<1>2. ASSUME NEW c \in Claims, Verify(c) PROVE \A x \in Claims : Rewritten(status[x], status'[x])
  <2>1. Typed /\ CacheInv
    BY DEF Inductive
  <2> QED  BY <1>0, <1>2, <2>1, VerifyMoves
<1>3. ASSUME NEW c \in Claims, Adjudicate(c) PROVE \A x \in Claims : Rewritten(status[x], status'[x])
  <2>1. PICK cl \in {"REAL_BUG", "INCOMPLETE_MODEL", "REPAIRABLE"}, d \in Dispositions \ {"none"} :
           /\ Read(c, cl) /\ disp' = [disp EXCEPT ![c] = d]
           /\ \/ Blamed(c, cl)
              \/ cl = "REPAIRABLE" /\ \E n \in Claims, b \in Routes : Repaired(c, n, b)
    BY <1>3, AdjudicateMoves
  <2>2. status[c] = "REFUTED"
    BY <2>1 DEF Inductive, LoopInv, Repairing, Read
  <2> QED  BY <1>0, <2>1, <2>2 DEF Blamed, Repaired, RouteStatus
<1>4. ASSUME NEW c \in Claims, ProveOpen(c) PROVE \A x \in Claims : Rewritten(status[x], status'[x])
  BY <1>0, <1>4 DEF ProveOpen, Inductive, LoopInv, Finishing
<1>5. CASE LabelAssumptions
  BY <1>0, <1>5 DEF LabelAssumptions, Unconditional
<1>6. CASE UNCHANGED status
  BY <1>6
<1> QED
  BY <1>1, <1>2, <1>3, <1>4, <1>5, <1>6
  DEF Step, Fail, resultVars, EndPropose, EndVerify, EndRound, EndProve, Diagnose, EndDiagnose,
      SaveCache, Report

\* Only the verifier, or the kernel's re-check of an agent's proof, establishes a claim; a
\* refuted claim is never established, and nothing but verification refutes one.
THEOREM OnlyVerifierDecides == Spec => VerdictsFromVerifier
<1>1. Inductive /\ [Next]_vars =>
        [run' = run => \A c \in Claims :
           /\ status'[c] \in Held /\ status[c] \notin Held =>
                 \/ phase = "verify" /\ status[c] = "PENDING"
                 \/ phase = "prove" /\ status[c] = "UNKNOWN"
           /\ status'[c] = "REFUTED" /\ status[c] # "REFUTED" => status[c] = "PENDING"]_vars
  <2> SUFFICES ASSUME Inductive, Next, run' = run, NEW c \in Claims
               PROVE  /\ status'[c] \in Held /\ status[c] \notin Held =>
                            \/ phase = "verify" /\ status[c] = "PENDING"
                            \/ phase = "prove" /\ status[c] = "UNKNOWN"
                      /\ status'[c] = "REFUTED" /\ status[c] # "REFUTED" => status[c] = "PENDING"
    OBVIOUS
  <2>1. ~StartRun
    BY DEF StartRun, Inductive, Typed, TypeOK
  <2>2. Rewritten(status[c], status'[c])
    BY <2>1, StatusMoves DEF Next
  <2> QED  BY <2>2 DEF Rewritten, Held
<1> QED  BY <1>1, Invariance, PTL DEF Spec, VerdictsFromVerifier

\* The harness implements ClaimLifecycle: every step moves every claim along an edge of the
\* promised life, or starts a new run with no claims.
THEOREM Implements == Spec => FollowsLifecycle
<1> USE DEF Life
<1>0. Stage("ABSENT") = "absent"
  BY DEF Stage, ModelStatuses
<1>1. Init => Promise!Init
  BY <1>0 DEF Init, Blank, Promise!Init
<1>2. Inductive /\ [Next]_vars => [Promise!Advance \/ Promise!Restart]_Life
  <2> SUFFICES ASSUME Inductive, [Next]_vars PROVE Promise!Advance \/ Promise!Restart \/ Life' = Life
    OBVIOUS
  <2>1. CASE StartRun
    BY <1>0, <2>1 DEF StartRun, Blank, Promise!Restart
  <2>2. CASE Step \/ Fail
    <3>1. status \in [Claims -> Statuses] /\ status' \in [Claims -> Statuses]
      BY <2>2, TypedNext DEF Inductive, Typed, TypeOK, Next
    <3>2. \A s \in Statuses : Stage(s) \in Promise!Stages
      BY DEF Stage, Statuses, Held, ModelStatuses, Promise!Stages
    <3>3. ASSUME NEW s \in Statuses, NEW t \in Statuses, Rewritten(s, t)
          PROVE  Stage(s) = Stage(t) \/ <<Stage(s), Stage(t)>> \in Promise!Moves
      BY <3>3 DEF Rewritten, Stage, Statuses, Held, ModelStatuses, Promise!Moves, Promise!Decided
    <3>4. \A c \in Claims : status[c] \in Statuses /\ status'[c] \in Statuses /\ Rewritten(status[c], status'[c])
      BY <2>2, <3>1, StatusMoves
    <3> QED  BY <3>2, <3>3, <3>4 DEF Promise!Advance
  <2>3. CASE UNCHANGED vars
    BY <2>3 DEF vars, resultVars
  <2> QED  BY <2>1, <2>2, <2>3 DEF Next
<1> QED  BY <1>1, <1>2, Invariance, PTL DEF Spec, FollowsLifecycle, Promise!Spec

-----------------------------------------------------------------------------
(* Gates                                                                   *)

\* What a run reports of a claim with prose assumptions is at most ASSUMPTION_DEPENDENT,
\* wherever the proof came from.
THEOREM AssumptionsLabelled == Spec => []AssumptionsSurface
<1> USE HarnessAssumption DEF AssumptionsSurface
<1>1. Init => AssumptionsSurface
  BY DEF Init
<1>2. Inductive /\ AssumptionsSurface /\ [Next]_vars => AssumptionsSurface'
  <2> SUFFICES ASSUME Inductive, AssumptionsSurface, [Next]_vars, phase' \in {"report", "done"}
               PROVE  AssumptionsSurface'
    OBVIOUS
  <2>1. LabelAssumptions \/ Report \/ UNCHANGED vars
    BY DEF Next, Step, StartRun, Propose, EndPropose, Verify, EndVerify, EnterProve, Adjudicate, Classified,
       ReportBug, BlameModel, DropClaim, RepairKnown, RepairWith, EndRound, ProveOpen, EndProve,
       Diagnose, EndDiagnose, SaveCache, Fail
  <2>2. CASE LabelAssumptions
    BY <2>2 DEF LabelAssumptions, Unconditional
  <2>3. CASE Report \/ UNCHANGED vars
    BY <2>3 DEF Report, vars, loopVars, resultVars
  <2> QED  BY <2>1, <2>2, <2>3
<1> QED  BY <1>1, <1>2, Invariance, PTL DEF Spec

\* Every result blamed on the model is on the list of diagnose until it is diagnosed.
Diagnosing ==
    /\ phase = "diagnose" =>
          \A c \in Selected : status[c] \in ModelStatuses => c \in todo \cup defect
    /\ ModelDefectsDiagnosed

\* No result attributed to the model is reported without a diagnosis.
THEOREM DefectsDiagnosed == Spec => []ModelDefectsDiagnosed
<1> USE DEF Diagnosing, ModelDefectsDiagnosed, Selected, Registered
<1>1. Init => Diagnosing
  BY DEF Init
<1>2. Inductive /\ Diagnosing /\ [Next]_vars => Diagnosing'
  <2> SUFFICES ASSUME Inductive, Diagnosing, [Next]_vars,
                      phase' \in {"diagnose", "save", "label", "report", "done"}
               PROVE  Diagnosing'
    OBVIOUS
  <2>1. \/ EndProve \/ (\E c \in Claims : Diagnose(c)) \/ EndDiagnose \/ SaveCache
        \/ LabelAssumptions \/ Report \/ UNCHANGED vars
    BY DEF Next, Step, StartRun, Propose, EndPropose, Verify, EndVerify, EnterProve, Adjudicate, Classified,
       ReportBug, BlameModel, DropClaim, RepairKnown, RepairWith, EndRound, ProveOpen, Fail
  <2>2. CASE EndProve
    BY <2>2 DEF EndProve, Undiagnosed, resultVars
  <2>3. ASSUME NEW c \in Claims, Diagnose(c) PROVE Diagnosing'
    BY <2>3 DEF Diagnose, resultVars
  <2>4. CASE EndDiagnose \/ SaveCache \/ Report \/ UNCHANGED vars
    BY <2>4 DEF EndDiagnose, SaveCache, Report, vars, loopVars, resultVars
  <2>5. CASE LabelAssumptions
    BY <2>5 DEF LabelAssumptions, ModelStatuses, Unconditional
  <2> QED  BY <2>1, <2>2, <2>3, <2>4, <2>5
<1>3. Diagnosing => ModelDefectsDiagnosed
  OBVIOUS
<1> QED  BY <1>1, <1>2, <1>3, Invariance, PTL DEF Spec

\* The gate on a marked claim: where REAL_BUG is possible at all it is not the only class, so
\* taking it away leaves the judge a choice.
LEMMA MarkedGate ==
  ASSUME NEW c \in marked, NEW nat, NEW otherSort
  PROVE  "REAL_BUG" \notin AllowedClasses(c, nat, otherSort)
<1> DEFINE facts == FactClasses(c, nat, otherSort)
<1>1. facts \in {{"REPAIRABLE"}, {"REAL_BUG", "REPAIRABLE"}, {"INCOMPLETE_MODEL"}}
  BY DEF FactClasses
<1>2. Cardinality({"REAL_BUG", "REPAIRABLE"}) = 2
  <2>1. IsFiniteSet({"REPAIRABLE"}) /\ Cardinality({"REPAIRABLE"}) = 1
    BY FS_Singleton
  <2>2. Cardinality({"REPAIRABLE"} \cup {"REAL_BUG"}) = 2
    BY <2>1, FS_AddElement
  <2>3. {"REPAIRABLE"} \cup {"REAL_BUG"} = {"REAL_BUG", "REPAIRABLE"}
    OBVIOUS
  <2> QED  BY <2>2, <2>3
<1>3. "REAL_BUG" \in facts => Cardinality(facts) > 1
  BY <1>1, <1>2
<1> QED  BY <1>1, <1>3 DEF AllowedClasses

\* A claim that contradicts the reading the judge chose is never reported as a defect.
THEOREM MarkedStaysOut == Spec => []MarkedIsNoFinding
<1> USE DEF MarkedIsNoFinding
<1>1. Init => MarkedIsNoFinding
  BY DEF Init, Blank
<1>2. Inductive /\ MarkedIsNoFinding /\ [Next]_vars => MarkedIsNoFinding'
  <2> SUFFICES ASSUME Inductive, MarkedIsNoFinding, [Next]_vars PROVE MarkedIsNoFinding'
    OBVIOUS
  <2>1. ASSUME NEW f \in Functions, Propose(f) PROVE MarkedIsNoFinding'
    BY <2>1 DEF Propose, ceVars, Inductive, LoopInv, Proposing, Untouched
  <2>2. ASSUME NEW c \in Claims, ReportBug(c) PROVE MarkedIsNoFinding'
    <3>1. c \notin marked
      BY <2>2, MarkedGate DEF ReportBug, Classified
    <3> QED  BY <2>2, <3>1 DEF ReportBug, Classified, Dispose, Inductive, Typed, TypeOK
  <2>3. ASSUME NEW c \in Claims, BlameModel(c) \/ DropClaim(c) \/ RepairKnown(c)
                                 \/ \E n \in Claims : RepairWith(c, n)
        PROVE MarkedIsNoFinding'
    BY <2>3 DEF BlameModel, DropClaim, RepairKnown, RepairWith, Classified, Dispose, Inductive, Typed, TypeOK
  <2>4. CASE StartRun
    BY <2>4 DEF StartRun, Blank
  <2>5. CASE UNCHANGED <<marked, disp>>
    BY <2>5
  <2> QED
    BY <2>1, <2>2, <2>3, <2>4, <2>5
    DEF Next, Step, vars, claimVars, ceVars, EndPropose, Verify, EndVerify, Adjudicate, EndRound,
        ProveOpen, EndProve, Diagnose, EndDiagnose, SaveCache, LabelAssumptions, Report, Fail
<1> QED  BY <1>1, <1>2, Invariance, PTL DEF Spec
=============================================================================
