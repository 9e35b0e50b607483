--------------------------- MODULE Assurance_proofs ---------------------------
(***************************************************************************)
(* What an assurance run guarantees for every set of mutants and theorems, *)
(* and wherever it fails, expires or is cancelled.                         *)
(***************************************************************************)
EXTENDS Assurance, TLAPS

-----------------------------------------------------------------------------
(* The gates: what each knows of the file and its backup                   *)

Points == {"off", "read", "checked", "marked", "baseline", "loop", "build", "putback", "rewrite",
           "unlink", "rebuild"}
\* From the backup to its removal.
Held == {"marked", "baseline", "loop", "build", "putback", "rewrite", "unlink"}
Verdicts == [kind : {"none", "inconclusive", "invalid", "typed"}, hit : SUBSET Theorems]
GateReports == [judged : SUBSET Mutations, teeth : SUBSET Theorems, targets : SUBSET Theorems]

GateTyped ==
    /\ model \in Text /\ backup \in MaybeText
    /\ pc \in [Gates -> Points] /\ orig \in [Gates -> MaybeText]
    /\ targets \in [Gates -> SUBSET Theorems] /\ todo \in [Gates -> SUBSET Mutations]
    /\ cur \in [Gates -> Mutations \cup {None}] /\ rec \in [Gates -> [Mutations -> Verdicts]]
    /\ report \in [Gates -> GateReports] /\ leaving \in [Gates -> {"done", "baseline", "interrupted"}]
    /\ effect \in [Mutations -> [ill : BOOLEAN, broken : SUBSET Theorems]]

\* A gate that read a mutant finds the backup of another; one that took a backup holds the text in it.
GateHolds(g) ==
    /\ pc[g] \in {"read", "checked"} => orig[g] \in Text /\ (backup = None => ~IsMutant(orig[g]))
    /\ pc[g] \in Held => orig[g] \in Text /\ ~IsMutant(orig[g]) /\ backup = orig[g]
    /\ pc[g] = "unlink" => ~IsMutant(model)

\* Only the gate of the stage that runs is there.
GateRuns ==
    \A g \in Gates : ~At(g, "off") => stage \in DOMAIN GateOf /\ GateOf[stage] = g /\ step = "gate"

\* The source stage goes on to render only when it found no backup.
Guarded == stage = "source" /\ step = "render" => backup = None

Files == GateTyped /\ Recoverable /\ (\A g \in Gates : GateHolds(g)) /\ GateRuns /\ Guarded

-----------------------------------------------------------------------------
(* The verdicts                                                            *)

\* No verdict counts a theorem as broken that the mutant does not break.
HonestVerdicts(g) ==
    /\ \A m \in Mutations : rec[g][m].kind = "typed" => rec[g][m].hit \subseteq effect[m].broken
    /\ At(g, "build") => cur[g] \in Mutations /\ model = Mutated(orig[g], cur[g])

HonestReports ==
    \A g \in Gates : \A t \in report[g].teeth :
        LET judged == {m \in report[g].judged : Decl(m) = Subject(t)}
        IN judged # {} /\ \A m \in judged : t \in effect[m].broken

-----------------------------------------------------------------------------
(* The evidence                                                            *)

\* What it may hold while the source stage runs: what this stage rendered, unless somebody writes then.
SourceTexts == IF "source" \in EditStages THEN Text ELSE {Clean}
ConfReports == [text : SourceTexts, digest : SourceTexts \cup {None}, stable : BOOLEAN]
SpecReports == [digest : SourceTexts, text : SourceTexts \cup {None}]

\* Until the source stage is over the file holds what its reports speak of.
Rendering == stage = "source" /\ step \in {"compile", "compare", "record", "prove", "proofs"} => model \in SourceTexts
Reported ==
    /\ conf = None \/ conf \in ConfReports
    /\ stage = "source" /\ step \in {"record", "prove", "proofs"} => conf \in ConfReports
    /\ stage = "source" => "source" \notin done
    /\ "source" \in done => conf \in ConfReports
Specified ==
    /\ specs = None \/ specs \in SpecReports
    /\ stage = "source" /\ step = "proofs" => specs \in SpecReports
    /\ specs # None /\ specs.text = None => stage = "source" /\ step = "proofs"

\* From the digest of an audit to its end.
AuditRuns == stage \in AuditStages /\ step \in {"build", "snapshot", "replay"}

AuditTyped ==
    /\ AuditRuns => noted \in [source : Text, built : MaybeText] /\ (step # "build" => noted.built \in Text)
    /\ DOMAIN audits = AuditStages
    /\ \A s \in AuditStages : audits[s] = None \/ audits[s] \in [text : Text, files : Text]

\* As long as the text is the one an audit digested, it is the one it built.
BuiltFromIt == AuditRuns /\ step # "build" /\ model = noted.source => noted.built = model

\* Who may still write while an audit runs has not written during it.
CanEdit == stage \in EditStages /\ edits < MaxEdits
EditedOnce == AuditRuns /\ CanEdit => model = noted.source

Staged == stage \in Stages \cup {"finish", "done"} /\ done \subseteq Stages
Claimed == claims \in [proved : SUBSET SecThms, digest : MaybeText]
Issued == cert # None => stage = "done"

-----------------------------------------------------------------------------
(* Texts and the operators of the gates                                    *)

LEMMA TextFacts ==
    /\ None \notin Text /\ None \notin Mutations
    /\ Clean \in Text /\ ~IsMutant(Clean)
    /\ \A t \in Text, m \in Mutations :
          /\ Mutated(t, m) \in Text /\ IsMutant(Mutated(t, m)) /\ Mutated(t, m).mut = m
          /\ ~IsMutant(t) => [Mutated(t, m) EXCEPT !.mut = None] = t
BY GateAssumption, AssuranceAssumption DEF Text, Clean, IsMutant, Mutated

LEMMA EndTyped ==
    ASSUME GateTyped, NEW g \in Gates, NEW ok, End(g, ok)
    PROVE  /\ pc' \in [Gates -> Points] /\ orig' \in [Gates -> MaybeText]
           /\ targets' \in [Gates -> SUBSET Theorems] /\ todo' \in [Gates -> SUBSET Mutations]
           /\ cur' \in [Gates -> Mutations \cup {None}] /\ rec' \in [Gates -> [Mutations -> Verdicts]]
           /\ leaving' \in [Gates -> {"done", "baseline", "interrupted"}]
           /\ pc'[g] = "off" /\ rec'[g] = Unjudged
           /\ \A h \in Gates \ {g} : pc'[h] = pc[h] /\ orig'[h] = orig[h] /\ cur'[h] = cur[h] /\ rec'[h] = rec[h]
<1>1. Unjudged \in [Mutations -> Verdicts]
  BY DEF Unjudged, NoVerdict, Verdicts
<1>2. /\ pc' \in [Gates -> Points] /\ pc'[g] = "off" /\ \A h \in Gates \ {g} : pc'[h] = pc[h]
  BY DEF End, Goto, GateTyped, Points
<1>3. orig' \in [Gates -> MaybeText] /\ \A h \in Gates \ {g} : orig'[h] = orig[h]
  BY DEF End, GateTyped, MaybeText
<1>4. targets' \in [Gates -> SUBSET Theorems] /\ todo' \in [Gates -> SUBSET Mutations]
  BY DEF End, GateTyped
<1>5. cur' \in [Gates -> Mutations \cup {None}] /\ \A h \in Gates \ {g} : cur'[h] = cur[h]
  BY DEF End, GateTyped
<1>6. /\ rec' \in [Gates -> [Mutations -> Verdicts]] /\ rec'[g] = Unjudged
      /\ \A h \in Gates \ {g} : rec'[h] = rec[h]
  BY <1>1 DEF End, GateTyped
<1>7. leaving' \in [Gates -> {"done", "baseline", "interrupted"}]
  BY DEF End, GateTyped
<1>8. QED
  BY <1>2, <1>3, <1>4, <1>5, <1>6, <1>7

\* One step of the gate g.
Move(g) ==
    \/ GateStep(g) \/ (\E matches \in BOOLEAN : GateCheck(g, matches))
    \/ (\E ts \in SUBSET Theorems : GateRead(g, ts)) \/ GateInterrupt(g) \/ GateKill(g)

LEMMA FoundTyped ==
    ASSUME GateTyped, NEW e \in Found(model)
    PROVE  e.broken \subseteq Theorems /\ e.ill \in BOOLEAN
<1>1. CASE IsMutant(model)
  <2>1. model.mut \in Mutations
    BY <1>1 DEF GateTyped, IsMutant, Text
  <2>2. effect[model.mut] \in [ill : BOOLEAN, broken : SUBSET Theorems]
    BY <2>1 DEF GateTyped
  <2>3. e = effect[model.mut]
    BY <1>1 DEF Found
  <2>4. QED
    BY <2>2, <2>3
<1>2. CASE ~IsMutant(model)
  <2>1. CASE model.base \in Foreign
    <3>1. e \in [ill : {FALSE}, broken : SUBSET Theorems]
      BY <1>2, <2>1 DEF Found
    <3>2. QED
      BY <3>1
  <2>2. CASE model.base \notin Foreign
    <3>1. e = [ill |-> FALSE, broken |-> {}]
      BY <1>2, <2>2 DEF Found
    <3>2. QED
      BY <3>1
  <2>3. QED
    BY <2>1, <2>2
<1>3. QED
  BY <1>1, <1>2

LEMMA MoveTyped ==
    ASSUME GateTyped, NEW g \in Gates, GateHolds(g), Move(g)
    PROVE  GateTyped'
<1> USE DEF Points, MaybeText
<1>h. pc[g] \in Held => orig[g] \in Text
  BY DEF GateHolds
<1>1. CASE GateStep(g)
  <2>1. CASE GateMark(g)
    <3>1. CASE backup = None
      BY <2>1, <3>1 DEF GateTyped, GateMark, Stay, Goto, memory
    <3>2. CASE backup # None
      BY <2>1, <3>2, EndTyped DEF GateTyped, GateMark
    <3>3. QED
      BY <3>1, <3>2
  <2>2. CASE GateGenerate(g)
    <3>1. PICK ms \in SUBSET Applicable(g) : todo' = [todo EXCEPT ![g] = ms]
      BY <2>2 DEF GateGenerate
    <3>2. ms \in SUBSET Mutations
      BY DEF Applicable
    <3>3. todo' \in [Gates -> SUBSET Mutations]
      BY <3>1, <3>2 DEF GateTyped
    <3>4. QED
      BY <2>2, <3>3 DEF GateTyped, GateGenerate, Goto, files
  <2>3. CASE GateWrite(g)
    <3>1. PICK m \in todo[g] : /\ cur' = [cur EXCEPT ![g] = m] /\ todo' = [todo EXCEPT ![g] = @ \ {m}]
                               /\ model' = Mutated(orig[g], m)
      BY <2>3 DEF GateWrite
    <3>2. m \in Mutations
      <4>1. todo[g] \in SUBSET Mutations
        BY DEF GateTyped
      <4>2. QED
        BY <4>1
    <3>3. orig[g] \in Text
      BY <1>h, <2>3 DEF GateWrite, At, Held
    <3>4. model' \in Text
      BY <3>1, <3>2, <3>3, TextFacts
    <3>5. QED
      BY <2>3, <3>1, <3>2, <3>4 DEF GateTyped, GateWrite, Goto
  <2>4. CASE GatePutBack(g)
    BY <1>h, <2>4 DEF GateTyped, GatePutBack, Goto, At, Held
  <2>5. CASE GateLoopDone(g)
    BY <2>5 DEF GateTyped, GateLoopDone, Leaving, Goto, files
  <2>6. CASE GateRewrite(g)
    BY <1>h, <2>6 DEF GateTyped, GateRewrite, Stay, Goto, memory, At, Held
  <2>7. CASE GateUnlink(g)
    BY <2>7, EndTyped DEF GateTyped, GateUnlink, Stay, Goto, memory
  <2>8. ASSUME NEW builds \in BOOLEAN, GateBaseline(g, builds) PROVE GateTyped'
    BY <2>8 DEF GateTyped, GateBaseline, Leaving, Goto, files
  <2>9. ASSUME NEW builds \in BOOLEAN, GateReport(g, builds) PROVE GateTyped'
    <3>1. [judged |-> Judged(g), teeth |-> Teeth(g), targets |-> targets[g]] \in GateReports
      <4>1. targets[g] \in SUBSET Theorems
        BY DEF GateTyped
      <4>2. Judged(g) \in SUBSET Mutations /\ Teeth(g) \in SUBSET Theorems
        BY <4>1 DEF Judged, Teeth
      <4>3. QED
        BY <4>1, <4>2 DEF GateReports
    <3>2. report' \in [Gates -> GateReports]
      BY <2>9, <3>1 DEF GateTyped, GateReport
    <3>3. \E ok : End(g, ok)
      BY <2>9 DEF GateReport
    <3>4. QED
      BY <2>9, <3>2, <3>3, EndTyped DEF GateTyped, GateReport, files
  <2>10. ASSUME NEW answer \in Answers, GateBuild(g, answer) PROVE GateTyped'
    <3>1. CASE answer = "silent" /\ tries[g] < Retries
      BY <2>10, <3>1 DEF GateTyped, GateBuild, files
    <3>2. CASE ~(answer = "silent" /\ tries[g] < Retries)
      <4>1. PICK e \in Found(model) : rec' = [rec EXCEPT ![g][cur[g]] = Verdict(g, answer, e)]
        BY <2>10, <3>2 DEF GateBuild
      <4>2. Verdict(g, answer, e) \in Verdicts
        BY FoundTyped DEF Verdict, Verdicts
      <4>3. rec' \in [Gates -> [Mutations -> Verdicts]]
        BY <4>1, <4>2 DEF GateTyped
      <4>4. QED
        BY <2>10, <3>2, <4>3 DEF GateTyped, GateBuild, Goto, files
    <3>3. QED
      BY <3>1, <3>2
  <2>11. QED
    BY <1>1, <2>1, <2>2, <2>3, <2>4, <2>5, <2>6, <2>7, <2>8, <2>9, <2>10 DEF GateStep
<1>2. ASSUME NEW matches \in BOOLEAN, GateCheck(g, matches) PROVE GateTyped'
  BY <1>2, EndTyped DEF GateTyped, GateCheck, Stay, Goto, memory, files
<1>3. ASSUME NEW ts \in SUBSET Theorems, GateRead(g, ts) PROVE GateTyped'
  BY <1>3 DEF GateTyped, GateRead, Goto, files
<1>4. CASE GateInterrupt(g)
  BY <1>4, EndTyped DEF GateTyped, GateInterrupt, Leaving, Goto, files
<1>5. CASE GateKill(g)
  BY <1>5, EndTyped DEF GateTyped, GateKill, files
<1>6. QED
  BY <1>1, <1>2, <1>3, <1>4, <1>5 DEF Move

\* A step of a gate leaves every backup where it can be found.
LEMMA MoveHolds ==
    ASSUME GateTyped, Recoverable, NEW g \in Gates, GateHolds(g),
           \A h \in Gates \ {g} : At(h, "off"), Move(g)
    PROVE  /\ Recoverable' /\ \A h \in Gates : GateHolds(h)'
           /\ \A h \in Gates \ {g} : At(h, "off")'
<1>0. pc \in [Gates -> Points] /\ orig \in [Gates -> MaybeText] /\ model \in Text
  BY DEF GateTyped
<1>1. \A h \in Gates \ {g} : pc'[h] = "off"
  <2>1. pc' = pc \/ \E there : Goto(g, there)
    <3>1. CASE GateUnlink(g)
      BY <3>1 DEF GateUnlink, Stay, End, GateTyped
    <3>2. CASE ~GateUnlink(g)
      BY <3>2 DEF Move, GateStep, GateMark, GateGenerate, GateWrite, GatePutBack, GateLoopDone, GateRewrite,
                  GateBaseline, GateReport, GateBuild, GateCheck, GateRead, GateInterrupt, GateKill,
                  Leaving, Stay, End
    <3>3. QED
      BY <3>1, <3>2
  <2>2. QED
    BY <1>0, <2>1 DEF Goto, At
<1>2. \A h \in Gates \ {g} : GateHolds(h)'
  BY <1>1 DEF GateHolds, Held
<1>3. ASSUME NEW ok, End(g, ok) PROVE GateHolds(g)'
  BY <1>0, <1>3 DEF End, Goto, GateHolds, Held
<1>4. Recoverable' /\ GateHolds(g)'
  <2>1. CASE GateMark(g)
    <3>1. CASE backup = None
      <4>1. pc[g] = "checked" /\ model' = model /\ orig' = orig /\ backup' = orig[g] /\ pc'[g] = "marked"
        BY <1>0, <2>1, <3>1 DEF GateMark, Stay, Goto, memory, At
      <4>2. ~IsMutant(model)
        BY <1>0, <3>1, TextFacts DEF Recoverable, IsMutant, Text
      <4>3. orig[g] \in Text /\ ~IsMutant(orig[g])
        BY <3>1, <4>1 DEF GateHolds
      <4>4. QED
        BY <4>1, <4>2, <4>3 DEF GateHolds, Held, Recoverable
    <3>2. CASE backup # None
      <4>1. End(g, FALSE) /\ backup' = backup /\ model' = model
        BY <2>1, <3>2 DEF GateMark
      <4>2. QED
        BY <1>3, <4>1 DEF Recoverable
    <3>3. QED
      BY <3>1, <3>2
  <2>2. CASE GateGenerate(g)
    BY <1>0, <2>2 DEF GateGenerate, Goto, files, At, GateHolds, Held, Recoverable
  <2>3. CASE GateWrite(g)
    <3>1. PICK m \in Mutations : model' = Mutated(orig[g], m)
      BY <2>3 DEF GateWrite, GateTyped
    <3>2. orig[g] \in Text /\ ~IsMutant(orig[g]) /\ backup = orig[g]
      BY <2>3 DEF GateWrite, At, GateHolds, Held
    <3>3. Recoverable'
      BY <2>3, <3>1, <3>2, TextFacts DEF GateWrite, Recoverable
    <3>4. QED
      BY <1>0, <2>3, <3>2, <3>3 DEF GateWrite, Goto, GateHolds, Held
  <2>4. CASE GatePutBack(g)
    BY <1>0, <2>4 DEF GatePutBack, Goto, At, GateHolds, Held, Recoverable
  <2>5. CASE GateLoopDone(g)
    BY <1>0, <2>5 DEF GateLoopDone, Leaving, Goto, files, At, GateHolds, Held, Recoverable
  <2>6. CASE GateRewrite(g)
    BY <1>0, <2>6 DEF GateRewrite, Stay, Goto, memory, At, GateHolds, Held, Recoverable
  <2>7. CASE GateUnlink(g)
    <3>1. ~IsMutant(model) /\ model' = model
      BY <2>7 DEF GateUnlink, At, GateHolds
    <3>2. Recoverable'
      BY <3>1 DEF Recoverable
    <3>3. Stay(g, "rebuild") \/ End(g, FALSE)
      BY <2>7 DEF GateUnlink, GateTyped
    <3>4. QED
      BY <1>0, <1>3, <3>2, <3>3 DEF Stay, Goto, memory, GateHolds, Held
  <2>8. ASSUME NEW builds \in BOOLEAN, GateBaseline(g, builds) PROVE Recoverable' /\ GateHolds(g)'
    BY <1>0, <2>8 DEF GateBaseline, Leaving, Goto, files, At, GateHolds, Held, Recoverable
  <2>9. ASSUME NEW builds \in BOOLEAN, GateReport(g, builds) PROVE Recoverable' /\ GateHolds(g)'
    BY <1>3, <2>9 DEF GateReport, files, Recoverable
  <2>10. ASSUME NEW answer \in Answers, GateBuild(g, answer) PROVE Recoverable' /\ GateHolds(g)'
    BY <1>0, <2>10 DEF GateBuild, Goto, files, At, GateHolds, Held, Recoverable
  <2>11. ASSUME NEW matches \in BOOLEAN, GateCheck(g, matches) PROVE Recoverable' /\ GateHolds(g)'
    BY <1>0, <1>3, <2>11 DEF GateCheck, Stay, Goto, memory, files, At, GateHolds, Held, Recoverable
  <2>12. ASSUME NEW ts \in SUBSET Theorems, GateRead(g, ts) PROVE Recoverable' /\ GateHolds(g)'
    <3>1. backup = None => ~IsMutant(model)
      BY <1>0, TextFacts DEF Recoverable, IsMutant, Text
    <3>2. QED
      BY <1>0, <2>12, <3>1 DEF GateRead, Goto, files, At, GateHolds, Held, Recoverable
  <2>13. CASE GateInterrupt(g)
    BY <1>0, <1>3, <2>13 DEF GateInterrupt, Leaving, Goto, files, At, GateHolds, Held, Recoverable, Points
  <2>14. CASE GateKill(g)
    BY <1>3, <2>14 DEF GateKill, files, Recoverable
  <2>15. QED
    BY <2>1, <2>2, <2>3, <2>4, <2>5, <2>6, <2>7, <2>8, <2>9, <2>10, <2>11, <2>12, <2>13, <2>14
       DEF Move, GateStep
<1>5. QED
  BY <1>1, <1>2, <1>4 DEF At

\* A gate only judges by what the build of its own mutant found, and reports what it judged.
LEMMA MoveHonest ==
    ASSUME GateTyped, NEW g \in Gates, GateHolds(g), \A h \in Gates \ {g} : At(h, "off"),
           \A h \in Gates : HonestVerdicts(h), HonestReports, Move(g)
    PROVE  (\A h \in Gates : HonestVerdicts(h)') /\ HonestReports'
<1>0. /\ pc \in [Gates -> Points] /\ rec \in [Gates -> [Mutations -> Verdicts]]
      /\ report \in [Gates -> GateReports]
  BY DEF GateTyped
<1>1. effect' = effect
  BY DEF Move, GateStep, GateMark, GateGenerate, GateWrite, GatePutBack, GateLoopDone, GateRewrite,
         GateUnlink, GateBaseline, GateReport, GateBuild, GateCheck, GateRead, GateInterrupt, GateKill
<1>2. ASSUME NEW ok, End(g, ok) PROVE \A h \in Gates : HonestVerdicts(h)'
  <2>1. Unjudged \in [Mutations -> Verdicts] /\ \A m \in Mutations : Unjudged[m].kind # "typed"
    BY DEF Unjudged, NoVerdict, Verdicts
  <2>2. \A h \in Gates : pc'[h] = "off"
    BY <1>2, EndTyped DEF At
  <2>3. \A h \in Gates : rec'[h] = Unjudged \/ rec'[h] = rec[h]
    BY <1>2, EndTyped
  <2>4. QED
    BY <1>1, <2>1, <2>2, <2>3 DEF HonestVerdicts, At
\* Whatever does not judge and does not start a build.
<1>3. ASSUME rec' = rec, \A h \in Gates : ~At(h, "build")' PROVE \A h \in Gates : HonestVerdicts(h)'
  BY <1>1, <1>3 DEF HonestVerdicts
<1>4. ASSUME NEW there \in Points \ {"build"}, Goto(g, there) PROVE \A h \in Gates : ~At(h, "build")'
  BY <1>0, <1>4 DEF Goto, At
<1>5. \A h \in Gates : HonestVerdicts(h)'
  <2>1. CASE GateWrite(g)
    <3>1. PICK m \in todo[g] : /\ cur' = [cur EXCEPT ![g] = m] /\ model' = Mutated(orig[g], m)
      BY <2>1 DEF GateWrite
    <3>2. m \in Mutations /\ cur'[g] = m /\ orig' = orig /\ rec' = rec
      BY <2>1, <3>1 DEF GateWrite, GateTyped
    <3>3. HonestVerdicts(g)'
      BY <1>1, <3>1, <3>2 DEF HonestVerdicts
    <3>4. \A h \in Gates \ {g} : pc'[h] = "off"
      BY <1>0, <2>1 DEF GateWrite, Goto, At
    <3>5. QED
      BY <1>1, <3>2, <3>3, <3>4 DEF HonestVerdicts, At
  <2>2. ASSUME NEW answer \in Answers, GateBuild(g, answer) PROVE \A h \in Gates : HonestVerdicts(h)'
    <3>1. CASE answer = "silent" /\ tries[g] < Retries
      BY <1>1, <2>2, <3>1 DEF GateBuild, HonestVerdicts, At, files
    <3>2. CASE ~(answer = "silent" /\ tries[g] < Retries)
      <4>1. PICK e \in Found(model) : rec' = [rec EXCEPT ![g][cur[g]] = Verdict(g, answer, e)]
        BY <2>2, <3>2 DEF GateBuild
      <4>2. cur[g] \in Mutations /\ model = Mutated(orig[g], cur[g]) /\ orig[g] \in Text
        BY <2>2 DEF GateBuild, HonestVerdicts, GateHolds, Held, At
      <4>3. e = effect[cur[g]]
        BY <4>2, TextFacts DEF Found
      <4>4. Verdict(g, answer, e).kind = "typed" => Verdict(g, answer, e).hit \subseteq effect[cur[g]].broken
        BY <4>3 DEF Verdict
      <4>5. /\ rec'[g][cur[g]] = Verdict(g, answer, e)
            /\ \A m \in Mutations \ {cur[g]} : rec'[g][m] = rec[g][m]
            /\ \A h \in Gates \ {g} : rec'[h] = rec[h]
        BY <1>0, <4>1, <4>2
      <4>6. \A h \in Gates : ~At(h, "build")'
        BY <1>4, <2>2, <3>2 DEF GateBuild, Points
      <4>7. \A m \in Mutations : rec'[g][m].kind = "typed" => rec'[g][m].hit \subseteq effect[m].broken
        BY <4>4, <4>5 DEF HonestVerdicts
      <4>8. QED
        BY <1>1, <4>5, <4>6, <4>7 DEF HonestVerdicts
    <3>3. QED
      BY <3>1, <3>2
  <2>3. CASE GateMark(g)
    <3>1. CASE backup = None
      BY <1>3, <1>4, <2>3, <3>1 DEF GateMark, Stay, memory, Points
    <3>2. CASE backup # None
      BY <1>2, <2>3, <3>2 DEF GateMark
    <3>3. QED
      BY <3>1, <3>2
  <2>4. CASE GateUnlink(g)
    <3>1. Stay(g, "rebuild") \/ End(g, FALSE)
      BY <2>4 DEF GateUnlink, GateTyped
    <3>2. QED
      BY <1>2, <1>3, <1>4, <3>1 DEF Stay, memory, Points
  <2>5. ASSUME NEW builds \in BOOLEAN, GateReport(g, builds) PROVE \A h \in Gates : HonestVerdicts(h)'
    BY <1>2, <2>5 DEF GateReport
  <2>6. ASSUME NEW matches \in BOOLEAN, GateCheck(g, matches) PROVE \A h \in Gates : HonestVerdicts(h)'
    BY <1>2, <1>3, <1>4, <2>6 DEF GateCheck, Stay, memory, Points
  <2>7. CASE GateInterrupt(g)
    BY <1>2, <1>3, <1>4, <2>7 DEF GateInterrupt, Leaving, Points
  <2>8. CASE GateKill(g)
    BY <1>2, <2>8 DEF GateKill
  <2>9. ASSUME NEW builds \in BOOLEAN, GateBaseline(g, builds) PROVE \A h \in Gates : HonestVerdicts(h)'
    BY <1>3, <1>4, <2>9 DEF GateBaseline, Leaving, Points
  <2>10. CASE GateGenerate(g) \/ GatePutBack(g) \/ GateLoopDone(g) \/ GateRewrite(g)
    BY <1>3, <1>4, <2>10 DEF GateGenerate, GatePutBack, GateLoopDone, GateRewrite, Leaving, Stay, memory, Points
  <2>11. ASSUME NEW ts \in SUBSET Theorems, GateRead(g, ts) PROVE \A h \in Gates : HonestVerdicts(h)'
    BY <1>3, <1>4, <2>11 DEF GateRead, Points
  <2>12. QED
    BY <2>1, <2>2, <2>3, <2>4, <2>5, <2>6, <2>7, <2>8, <2>9, <2>10, <2>11 DEF Move, GateStep
<1>6. HonestReports'
  <2>1. CASE report' = report
    BY <1>1, <2>1 DEF HonestReports
  <2>2. CASE report' # report
    <3>1. PICK builds \in BOOLEAN : GateReport(g, builds)
      BY <2>2 DEF Move, GateStep, GateMark, GateGenerate, GateWrite, GatePutBack, GateLoopDone, GateRewrite,
                  GateUnlink, GateBaseline, GateBuild, GateCheck, GateRead, GateInterrupt, GateKill
    <3> DEFINE new == [judged |-> Judged(g), teeth |-> Teeth(g), targets |-> targets[g]]
    <3>2. report' = [report EXCEPT ![g] = new]
      BY <2>2, <3>1 DEF GateReport
    <3>3. ASSUME NEW t \in new.teeth
          PROVE  LET judged == {m \in new.judged : Decl(m) = Subject(t)}
                 IN judged # {} /\ \A m \in judged : t \in effect[m].broken
      <4>1. t \in Teeth(g) /\ new.judged = Judged(g)
        OBVIOUS
      <4>2. \A m \in Judged(g) : rec[g][m].hit \subseteq effect[m].broken
        BY DEF Judged, HonestVerdicts
      <4>3. QED
        BY <4>1, <4>2 DEF Teeth
    <3> HIDE DEF new
    <3>4. report'[g] = new /\ \A h \in Gates \ {g} : report'[h] = report[h]
      BY <1>0, <3>2
    <3>5. QED
      BY <1>1, <3>3, <3>4 DEF HonestReports
  <2>3. QED
    BY <2>1, <2>2
<1>7. QED
  BY <1>5, <1>6

-----------------------------------------------------------------------------
(* The gates within the run                                                *)

LEMMA GateNames ==
    /\ DOMAIN GateOf = {"mutation", "security-mutation"} /\ DOMAIN GateOf \subseteq Stages
    /\ \A s \in DOMAIN GateOf : GateOf[s] \in Gates /\ First[s] = "gate"
    /\ GateOf["mutation"] = "conf" /\ GateOf["security-mutation"] = "sec"
    /\ First["source"] = "guard"
    /\ \A s \in AuditStages : First[s] = "digest" /\ s \in Stages /\ s \notin DOMAIN GateOf /\ s # "source"
BY AssuranceAssumption DEF GateOf, Stages, First, IsGate, AuditStages

\* While a gate runs, it, a signal to it, or somebody who writes takes the step.
LEMMA AtGate ==
    ASSUME stage \in DOMAIN GateOf, step = "gate", ANext
    PROVE  \/ Gate(stage) \/ Escalate(stage) \/ Edit
           \/ \E how \in {"deadline", "cancel"} : Signal(stage, how)
<1>1. ~Source /\ ~SecurityProperties /\ ~Finish /\ ~CancelIdle /\ ~Over
  BY GateNames DEF Source, Guard, Render, Compile, Compare, Record, Prove, Proofs, SourceFails, Step, Fail,
                   Running, SecurityProperties, Finish, CancelIdle, Over, Stages
<1>2. \A s \in WorkStages : ~Work(s)
  BY GateNames DEF Work, WorkStages, Step, Fail, Running
<1>3. \A s \in AuditStages : ~Audit(s)
  BY GateNames DEF AuditStages, Audit, Digest, Rebuild, Snapshot, Replay, AuditFails, Step, Fail, Running
<1>4. \A s \in Stages : ~Enter(s) /\ (Gate(s) => s = stage) /\ (Escalate(s) => s = stage)
                        /\ \A how \in {"deadline", "cancel"} : Signal(s, how) => s = stage
  BY DEF Enter, Gate, Escalate, Signal, Running
<1>5. QED
  BY <1>1, <1>2, <1>3, <1>4 DEF ANext, Driver, Signals

\* Otherwise a gate is entered, or no gate and no backup is touched.
LEMMA BesidesGate ==
    ASSUME ~(stage \in DOMAIN GateOf /\ step = "gate"), ANext, \A g \in Gates : At(g, "off"), Guarded
    PROVE  \/ \E s \in DOMAIN GateOf : /\ stage = s /\ stage' = s /\ step' = "gate"
                                       /\ GateRead(GateOf[s], Thms(s))
           \/ /\ UNCHANGED <<backup, gateVars, effect>>
              /\ stage' = "source" /\ step' = "render" => backup = None
              /\ model' = model \/ Render \/ Edit
<1> DEFINE Quiet == /\ UNCHANGED <<backup, gateVars, effect>>
                    /\ stage' = "source" /\ step' = "render" => backup = None
                    /\ model' = model \/ Render \/ Edit
<1> USE DEF vars
<1>1. CASE Source
  <2>1. CASE Render
    BY <2>1 DEF Render, Step
  <2>2. CASE ~Render
    BY <1>1, <2>2 DEF Source, Guard, Compile, Compare, Record, Prove, Proofs, SourceFails, Step, Fail, Leave, Running
  <2>3. QED
    BY <2>1, <2>2
<1>2. CASE SecurityProperties \/ Finish \/ CancelIdle \/ Over \/ Edit
  <2>1. CASE SecurityProperties \/ Finish \/ CancelIdle
    BY <2>1 DEF SecurityProperties, Finish, CancelIdle, Leave
  <2>2. CASE Over \/ Edit
    BY <2>2 DEF Over, Edit, Guarded, allVars, runVars
  <2>3. QED
    BY <1>2, <2>1, <2>2
<1>3. ASSUME NEW s \in WorkStages, Work(s) PROVE Quiet
  BY <1>3 DEF Work, Step, Fail, Leave, Running
<1>4. ASSUME NEW s \in AuditStages, Audit(s) PROVE Quiet
  BY <1>4, GateNames DEF Audit, Digest, Rebuild, Snapshot, Replay, AuditFails, Step, Fail, Leave, Running
<1>5. ASSUME NEW s \in Stages, Gate(s) PROVE Quiet
  <2>1. GateOf[s] \in Gates
    BY <1>5, GateNames DEF Gate, IsGate
  <2>2. At(GateOf[s], "off")
    BY <2>1
  <2>3. QED
    BY <1>5, <2>2 DEF Gate, Leave
<1>6. ASSUME NEW s \in Stages, Escalate(s) PROVE FALSE
  BY <1>6, GateNames DEF Escalate, IsGate, GateKill
<1>7. ASSUME NEW s \in Stages, NEW how \in {"deadline", "cancel"}, Signal(s, how) PROVE Quiet
  BY <1>7, GateNames DEF Signal, IsGate, GateInterrupt, Leave
<1>8. ASSUME NEW s \in Stages, Enter(s)
      PROVE  Quiet \/ (/\ s \in DOMAIN GateOf /\ stage = s /\ stage' = s /\ step' = "gate"
                       /\ GateRead(GateOf[s], Thms(s)))
  <2>1. First[s] # "render"
    BY DEF First
  <2>2. CASE Runnable(s) /\ IsGate(s)
    BY <1>8, <2>2, GateNames DEF Enter, IsGate
  <2>3. CASE ~(Runnable(s) /\ IsGate(s))
    BY <1>8, <2>1, <2>3 DEF Enter, Leave
  <2>4. QED
    BY <2>2, <2>3
<1>9. QED
  <2>1. CASE Driver
    BY <1>1, <1>2, <1>3, <1>4, <1>5, <1>8, <2>1 DEF Driver
  <2>2. CASE Signals
    BY <1>2, <1>6, <1>7, <2>2 DEF Signals
  <2>3. QED
    BY <1>2, <2>1, <2>2 DEF ANext

\* The theorems a stage builds are theorems.
LEMMA TheoremsOf ==
    ASSUME claims.proved \subseteq SecThms, NEW s \in DOMAIN GateOf
    PROVE  Thms(s) \subseteq Theorems
BY AssuranceAssumption, GateNames DEF Thms, SecStages

\* What a signal, the driver or the end of a deadline does to the gate that runs is a step of it.
LEMMA GateStage ==
    ASSUME GateTyped, stage \in DOMAIN GateOf, step = "gate", ANext
    PROVE  \/ UNCHANGED <<stage, step>> /\ Move(GateOf[stage])
           \/ At(GateOf[stage], "off") /\ UNCHANGED vars /\ step' = "idle"
           \/ Edit
<1>1. CASE Gate(stage)
  BY <1>1 DEF Gate, Move, runVars, Leave
<1>2. CASE Escalate(stage)
  BY <1>2 DEF Escalate, Move, runVars
<1>3. ASSUME NEW how \in {"deadline", "cancel"}, Signal(stage, how)
      PROVE  UNCHANGED <<stage, step>> /\ Move(GateOf[stage])
  BY <1>3 DEF Signal, IsGate, Move
<1>4. QED
  BY <1>1, <1>2, <1>3, AtGate

LEMMA FilesInit == ASSUME AInit PROVE Files
<1>1. Unjudged \in [Mutations -> Verdicts] /\ NoReport \in GateReports
  BY DEF Unjudged, NoVerdict, Verdicts, NoReport, GateReports
<1>2. model \in Text /\ backup \in MaybeText /\ Recoverable
  BY TextFacts DEF AInit, MaybeText, Recoverable, Clean
<1>3. effect \in [Mutations -> [ill : BOOLEAN, broken : SUBSET Theorems]]
  <2>1. \A m \in Mutations : Effects(m) \subseteq [ill : BOOLEAN, broken : SUBSET Theorems]
    BY DEF Effects, Outcome
  <2>2. QED
    BY <2>1 DEF AInit, Init
<1>4. GateTyped
  BY <1>1, <1>2, <1>3 DEF AInit, Init, GateTyped, Points, MaybeText
<1>5. \A g \in Gates : At(g, "off")
  BY DEF AInit, Init, At
<1>6. QED
  BY <1>2, <1>4, <1>5 DEF Files, GateHolds, Held, GateRuns, Guarded, AInit, At

LEMMA FilesStep == ASSUME Files, Claimed, [ANext]_allVars PROVE Files'
<1> USE DEF Files
<1>0. claims.proved \subseteq SecThms
  BY DEF Claimed
<1>1. CASE UNCHANGED allVars
  BY <1>1 DEF allVars, runVars, vars, gateVars, GateTyped, Recoverable, GateHolds, GateRuns, Guarded, At
\* Nothing but the text is touched, and it is no mutant.
<1>2. ASSUME UNCHANGED <<backup, gateVars, effect>>, model' \in Text,
             model' = model \/ (~IsMutant(model') /\ \A g \in Gates : pc[g] # "unlink" \/ ~IsMutant(model'))
      PROVE  GateTyped' /\ Recoverable' /\ \A g \in Gates : GateHolds(g)'
  BY <1>2 DEF gateVars, GateTyped, Recoverable, GateHolds
<1>3. CASE Edit
  <2>1. model' \in Text /\ ~IsMutant(model') /\ UNCHANGED <<backup, gateVars, effect, stage, step>>
    BY <1>3, GateAssumption DEF Edit, Text, IsMutant
  <2>2. GateRuns' /\ Guarded'
    BY <2>1 DEF GateRuns, Guarded, At, gateVars
  <2>3. QED
    BY <1>2, <2>1, <2>2
<1>4. CASE stage \in DOMAIN GateOf /\ step = "gate" /\ ANext /\ ~Edit
  <2> DEFINE g == GateOf[stage]
  <2>1. g \in Gates /\ stage # "source" /\ \A h \in Gates \ {g} : At(h, "off")
    BY <1>4, GateNames DEF GateRuns
  <2>2. CASE UNCHANGED <<stage, step>> /\ Move(g)
    <3>1. GateTyped' /\ Recoverable' /\ \A h \in Gates : GateHolds(h)'
      BY <2>1, <2>2, MoveTyped, MoveHolds
    <3>2. \A h \in Gates \ {g} : At(h, "off")'
      BY <2>1, <2>2, MoveHolds
    <3>3. GateRuns' /\ Guarded'
      BY <1>4, <2>1, <2>2, <3>2 DEF GateRuns, Guarded
    <3>4. QED
      BY <3>1, <3>3
  <2>3. CASE At(g, "off") /\ UNCHANGED vars /\ step' = "idle"
    <3>1. \A h \in Gates : At(h, "off")'
      BY <2>1, <2>3 DEF At, vars, gateVars
    <3>2. GateTyped' /\ Recoverable' /\ \A h \in Gates : GateHolds(h)'
      BY <1>2, <2>3 DEF vars, GateTyped
    <3>3. QED
      BY <2>3, <3>1, <3>2 DEF GateRuns, Guarded
  <2>4. QED
    BY <1>4, <2>2, <2>3, GateStage
<1>5. CASE ~(stage \in DOMAIN GateOf /\ step = "gate") /\ ANext /\ ~Edit
  <2>1. \A g \in Gates : At(g, "off")
    BY <1>5 DEF GateRuns
  <2>2. ASSUME NEW s \in DOMAIN GateOf, stage = s, stage' = s, step' = "gate", GateRead(GateOf[s], Thms(s))
        PROVE  Files'
    <3> DEFINE g == GateOf[s]
    <3>1. g \in Gates /\ s # "source" /\ Move(g)
      BY <1>0, <2>2, GateNames, TheoremsOf DEF Move
    <3>2. /\ GateTyped' /\ Recoverable' /\ \A h \in Gates : GateHolds(h)'
          /\ \A h \in Gates \ {g} : At(h, "off")'
      BY <2>1, <3>1, MoveTyped, MoveHolds
    <3>3. GateRuns' /\ Guarded'
      BY <2>2, <3>1, <3>2 DEF GateRuns, Guarded
    <3>4. QED
      BY <3>2, <3>3
  <2>3. ASSUME UNCHANGED <<backup, gateVars, effect>>, model' = model \/ Render,
               stage' = "source" /\ step' = "render" => backup = None
        PROVE  Files'
    <3>1. model' = model \/ model' = Clean
      BY <2>3 DEF Render
    <3>2. GateTyped' /\ Recoverable' /\ \A g \in Gates : GateHolds(g)'
      BY <1>2, <2>3, <3>1, TextFacts DEF GateTyped
    <3>3. GateRuns' /\ Guarded'
      BY <2>1, <2>3 DEF GateRuns, Guarded, At, gateVars
    <3>4. QED
      BY <3>2, <3>3
  <2>4. QED
    BY <1>5, <2>1, <2>2, <2>3, BesidesGate
<1>6. QED
  BY <1>1, <1>3, <1>4, <1>5

-----------------------------------------------------------------------------
(* The order of the stages                                                 *)

LEMMA StageOrder ==
    /\ \A s \in Stages : Next_[s] \in Stages \cup {"finish"} /\ Next_[s] # "source"
    /\ AuditStages \subseteq Stages /\ "source" \in Stages /\ "security-properties" \in Stages
    /\ WorkStages \subseteq Stages /\ "source" \notin WorkStages /\ WorkStages \cap AuditStages = {}
    /\ "done" \notin Stages /\ "finish" \notin Stages /\ "source" \notin AuditStages
BY DEF Stages, Next_, AuditStages, WorkStages

\* Nothing happens any more once a run is over.
LEMMA OverIsOver == ASSUME stage = "done", ANext PROVE UNCHANGED allVars
<1>1. ~Source /\ ~SecurityProperties /\ ~Finish /\ ~CancelIdle /\ ~Edit
  BY AssuranceAssumption, StageOrder
     DEF Source, Guard, Render, Compile, Compare, Record, Prove, Proofs, SourceFails, Step, Fail,
         Running, SecurityProperties, Finish, CancelIdle, Edit
<1>2. \A s \in WorkStages : ~Work(s)
  BY StageOrder DEF Work, Step, Fail, Running
<1>3. \A s \in AuditStages : ~Audit(s)
  BY StageOrder DEF Audit, Digest, Rebuild, Snapshot, Replay, AuditFails, Step, Fail, Running
<1>4. \A s \in Stages : /\ ~Enter(s) /\ ~Gate(s) /\ ~Escalate(s)
                        /\ \A how \in {"deadline", "cancel"} : ~Signal(s, how)
  BY StageOrder DEF Enter, Gate, Escalate, Signal, Running
<1>5. QED
  BY <1>1, <1>2, <1>3, <1>4 DEF ANext, Driver, Signals, Over

LEMMA LeaveTyped ==
    ASSUME Staged, NEW s \in Stages, NEW how, Leave(s, how)
    PROVE  Staged' /\ stage' # "source" /\ step' = "idle" /\ done' \subseteq done \cup {s}
BY StageOrder DEF Leave, Staged

LEMMA StagedStep == ASSUME Staged, Claimed, GateTyped, [ANext]_allVars PROVE Staged' /\ Claimed'
<1>1. CASE UNCHANGED allVars
  BY <1>1 DEF allVars, runVars, Staged, Claimed
<1>2. CASE Source
  <2>1. UNCHANGED claims
    BY <1>2 DEF Source, Guard, Render, Compile, Compare, Record, Prove, Proofs, SourceFails
  <2>2. UNCHANGED <<stage, done>> \/ \E how : Leave("source", how)
    BY <1>2 DEF Source, Guard, Render, Compile, Compare, Record, Prove, Proofs, SourceFails, Step, Fail
  <2>3. QED
    BY <2>1, <2>2, LeaveTyped, StageOrder DEF Staged, Claimed
<1>3. CASE SecurityProperties
  <2>1. claims' \in [proved : SUBSET SecThms, digest : MaybeText]
    BY <1>3 DEF SecurityProperties, GateTyped, MaybeText
  <2>2. QED
    BY <1>3, <2>1, LeaveTyped, StageOrder DEF SecurityProperties, Claimed
<1>4. CASE Finish \/ CancelIdle \/ Edit \/ Over
  BY <1>4 DEF Finish, CancelIdle, Edit, Over, allVars, runVars, Staged, Claimed
<1>5. ASSUME NEW s \in WorkStages, Work(s) PROVE Staged' /\ Claimed'
  <2>1. UNCHANGED <<stage, done>> \/ \E how : Leave(s, how)
    BY <1>5 DEF Work, Step, Fail
  <2>2. QED
    BY <1>5, <2>1, LeaveTyped, StageOrder DEF Work, Staged, Claimed
<1>6. ASSUME NEW s \in AuditStages, Audit(s) PROVE Staged' /\ Claimed'
  <2>1. UNCHANGED claims /\ (UNCHANGED <<stage, done>> \/ \E how : Leave(s, how))
    BY <1>6 DEF Audit, Digest, Rebuild, Snapshot, Replay, AuditFails, Step, Fail
  <2>2. QED
    BY <2>1, LeaveTyped, StageOrder DEF Staged, Claimed
<1>7. ASSUME NEW s \in Stages, Enter(s) \/ Gate(s) PROVE Staged' /\ Claimed'
  <2>1. UNCHANGED claims /\ (UNCHANGED <<stage, done>> \/ \E how : Leave(s, how))
    BY <1>7 DEF Enter, Gate, runVars
  <2>2. QED
    BY <2>1, LeaveTyped DEF Staged, Claimed
<1>8. ASSUME NEW s \in Stages, Escalate(s) \/ \E how \in {"deadline", "cancel"} : Signal(s, how)
      PROVE  Staged' /\ Claimed'
  <2>1. UNCHANGED claims /\ (UNCHANGED <<stage, done>> \/ \E how : Leave(s, how))
    BY <1>8 DEF Escalate, Signal, runVars
  <2>2. QED
    BY <2>1, LeaveTyped DEF Staged, Claimed
<1>9. QED
  BY <1>1, <1>2, <1>3, <1>4, <1>5, <1>6, <1>7, <1>8 DEF ANext, Driver, Signals

-----------------------------------------------------------------------------
(* The source stage and its reports                                        *)

\* Only the source stage writes its reports and completes it; whatever else happens, it is at its
\* beginning or stays where it is.
LEMMA OutsideSource ==
    ASSUME Staged, ANext, ~Source, \A how \in {"deadline", "cancel"} : ~Signal("source", how)
    PROVE  /\ UNCHANGED <<conf, specs>> /\ ("source" \in done' => "source" \in done)
           /\ stage' = "source" => stage = "source" /\ done' = done /\ (step' = "guard" \/ Edit)
           /\ stage = "source" => step = "idle" \/ Edit
<1> DEFINE Kept == /\ UNCHANGED <<conf, specs>> /\ ("source" \in done' => "source" \in done)
                   /\ stage' = "source" => stage = "source" /\ done' = done /\ (step' = "guard" \/ Edit)
                   /\ stage = "source" => step = "idle" \/ Edit
<1>0. ASSUME NEW s \in Stages, NEW how, s # "source" \/ how # "completed", stage = s,
             s = "source" => step = "idle", Leave(s, how), UNCHANGED <<conf, specs>>
      PROVE  Kept
  BY <1>0, StageOrder DEF Leave
<1>1. CASE SecurityProperties
  BY <1>0, <1>1, StageOrder DEF SecurityProperties, Running
<1>2. CASE Finish \/ CancelIdle \/ Edit \/ Over
  <2>1. CASE Finish \/ CancelIdle \/ Over
    BY <2>1, StageOrder DEF Finish, CancelIdle, Over, allVars, runVars
  <2>2. CASE Edit
    BY <2>2 DEF Edit
  <2>3. QED
    BY <1>2, <2>1, <2>2
<1>3. ASSUME NEW s \in WorkStages, Work(s) PROVE Kept
  <2>1. s \in Stages /\ s # "source" /\ UNCHANGED <<conf, specs>> /\ stage = s
    BY <1>3, StageOrder DEF Work, Step, Fail, Running
  <2>2. Leave(s, "completed") \/ Leave(s, "failed")
    BY <1>3 DEF Work, Step, Fail
  <2>3. QED
    BY <1>0, <2>1, <2>2
<1>4. ASSUME NEW s \in AuditStages, Audit(s) PROVE Kept
  <2>1. s \in Stages /\ s # "source" /\ UNCHANGED <<conf, specs>> /\ stage = s
    BY <1>4, StageOrder DEF Audit, Digest, Rebuild, Snapshot, Replay, AuditFails, Step, Fail, Running
  <2>2. UNCHANGED <<stage, done>> \/ \E how : Leave(s, how)
    BY <1>4 DEF Audit, Digest, Rebuild, Snapshot, Replay, AuditFails, Step, Fail
  <2>3. QED
    BY <1>0, <2>1, <2>2
<1>5. ASSUME NEW s \in Stages, Enter(s) PROVE Kept
  <2>1. UNCHANGED <<conf, specs>> /\ stage = s /\ step = "idle"
    BY <1>5 DEF Enter
  <2>2. (UNCHANGED <<stage, done>> /\ step' = First[s]) \/ Leave(s, "blocked")
    BY <1>5 DEF Enter
  <2>3. QED
    BY <1>0, <2>1, <2>2, GateNames
<1>6. ASSUME NEW s \in Stages, Gate(s) \/ Escalate(s) PROVE Kept
  <2>1. s # "source" /\ stage = s
    BY <1>6, GateNames DEF Gate, Escalate, IsGate, Running
  <2>2. UNCHANGED runVars \/ (UNCHANGED <<conf, specs>> /\ \E how : Leave(s, how))
    BY <1>6 DEF Gate, Escalate
  <2>3. CASE UNCHANGED runVars
    BY <2>1, <2>3 DEF runVars
  <2>4. QED
    BY <1>0, <2>1, <2>2, <2>3
<1>7. ASSUME NEW s \in Stages, NEW how \in {"deadline", "cancel"}, Signal(s, how) PROVE Kept
  <2>1. s # "source" /\ stage = s /\ UNCHANGED <<conf, specs>>
    BY <1>7 DEF Signal, Running
  <2>2. UNCHANGED <<stage, done>> \/ Leave(s, how)
    BY <1>7 DEF Signal
  <2>3. QED
    BY <1>0, <2>1, <2>2
<1>8. QED
  <2>1. CASE Driver
    BY <1>1, <1>2, <1>3, <1>4, <1>5, <1>6, <2>1 DEF Driver
  <2>2. CASE Signals
    BY <1>2, <1>6, <1>7, <2>2 DEF Signals
  <2>3. QED
    BY <1>2, <2>1, <2>2 DEF ANext

SourceEvidence == Rendering /\ Reported /\ Specified

LEMMA SourceStep ==
    ASSUME GateTyped', Staged, SourceEvidence, [ANext]_allVars
    PROVE  SourceEvidence'
<1> USE DEF SourceEvidence
<1>0. Clean \in SourceTexts /\ SourceTexts \subseteq Text /\ None \notin SourceTexts
  BY TextFacts DEF SourceTexts
<1>1. CASE UNCHANGED allVars
  BY <1>1 DEF allVars, runVars, vars, Rendering, Reported, Specified
<1>2. CASE ANext /\ ~Source /\ \A how \in {"deadline", "cancel"} : ~Signal("source", how)
  <2>1. CASE Edit
    <3>1. stage = "source" => model' \in SourceTexts
      BY <2>1 DEF Edit, SourceTexts, GateTyped
    <3>2. UNCHANGED <<stage, step, done, conf, specs>>
      BY <2>1 DEF Edit
    <3>3. QED
      BY <3>1, <3>2 DEF Rendering, Reported, Specified
  <2>2. CASE ~Edit
    <3>1. /\ UNCHANGED <<conf, specs>> /\ ("source" \in done' => "source" \in done)
          /\ stage' = "source" => step' = "guard" /\ done' = done /\ stage = "source"
          /\ stage = "source" => step = "idle"
      BY <1>2, <2>2, OutsideSource
    <3>2. QED
      BY <3>1 DEF Rendering, Reported, Specified
  <2>3. QED
    BY <2>1, <2>2
<1>3. ASSUME NEW how \in {"deadline", "cancel"}, Signal("source", how) PROVE SourceEvidence'
  <2>1. Leave("source", how) /\ specs' = None /\ (conf' = None \/ conf' = conf)
    BY <1>3, GateNames DEF Signal, IsGate
  <2>2. stage' # "source" /\ done' = done
    BY <2>1, StageOrder DEF Leave
  <2>3. stage = "source" /\ "source" \notin done
    BY <1>3 DEF Signal, Running, Reported
  <2>4. QED
    BY <2>1, <2>2, <2>3 DEF Rendering, Reported, Specified
\* A step of the source stage that ends it in failure.
<1>4. ASSUME Fail("source"), conf' = None \/ conf' = conf, specs' = None \/ specs' = specs,
             specs # None => specs.text # None
      PROVE  SourceEvidence'
  <2>1. stage' # "source" /\ done' = done /\ stage = "source"
    BY <1>4, StageOrder DEF Fail, Running, Leave
  <2>2. QED
    BY <1>4, <2>1 DEF Rendering, Reported, Specified
\* A step within it.
<1>5. ASSUME NEW from, NEW to, to # "end", Step("source", from, to) PROVE stage = "source" /\ step = from /\ UNCHANGED <<stage, done>> /\ step' = to
  BY <1>5 DEF Step, Running
<1>6. CASE Guard
  <2>1. CASE backup = None
    BY <1>5, <1>6, <2>1 DEF Guard, Rendering, Reported, Specified
  <2>2. CASE backup # None
    BY <1>4, <1>6, <2>2 DEF Guard, Specified
  <2>3. QED
    BY <2>1, <2>2
<1>7. CASE Render
  BY <1>0, <1>5, <1>7 DEF Render, Rendering, Reported, Specified
<1>8. CASE Compile
  BY <1>5, <1>8 DEF Compile, vars, Rendering, Reported, Specified
<1>9. CASE Compare
  <2>1. stage = "source" /\ step = "compare" /\ UNCHANGED <<stage, done, model, specs>> /\ step' = "record"
    BY <1>5, <1>9 DEF Compare, vars
  <2>2. conf' \in ConfReports
    BY <1>9, <2>1 DEF Compare, Rendering, ConfReports
  <2>3. QED
    BY <2>1, <2>2 DEF Rendering, Reported, Specified
<1>10. ASSUME NEW agree \in BOOLEAN, Record(agree) PROVE SourceEvidence'
  <2>1. stage = "source" /\ step = "record" /\ UNCHANGED <<model, specs>>
    BY <1>10 DEF Record, Running, vars
  <2>2. conf \in ConfReports /\ model \in SourceTexts
    BY <2>1 DEF Rendering, Reported
  <2>3. CASE agree /\ conf.stable
    <3>1. conf' \in ConfReports
      BY <1>10, <2>2, <2>3 DEF Record, ConfReports
    <3>2. UNCHANGED <<stage, done>> /\ step' = "prove"
      BY <1>5, <1>10, <2>3 DEF Record
    <3>3. QED
      BY <2>1, <3>1, <3>2 DEF Rendering, Reported, Specified
  <2>4. CASE ~(agree /\ conf.stable)
    <3>1. conf' = None \/ conf' \in ConfReports
      BY <1>10, <2>2 DEF Record, ConfReports
    <3>2. Fail("source")
      BY <1>10, <2>4 DEF Record
    <3>3. stage' # "source" /\ done' = done
      BY <3>2, StageOrder DEF Fail, Leave
    <3>4. QED
      BY <2>1, <3>1, <3>3 DEF Rendering, Reported, Specified
  <2>5. QED
    BY <2>3, <2>4
<1>11. CASE Prove
  <2>1. stage = "source" /\ step = "prove" /\ UNCHANGED <<model, conf>>
    BY <1>11 DEF Prove, Running, vars
  <2>2. conf \in ConfReports /\ model \in SourceTexts
    BY <2>1 DEF Rendering, Reported
  <2>3. CASE backup = None /\ conf.digest = model
    <3>1. specs' \in SpecReports /\ UNCHANGED <<stage, done>> /\ step' = "proofs"
      BY <1>5, <1>11, <2>2, <2>3 DEF Prove, SpecReports
    <3>2. QED
      BY <2>1, <2>2, <3>1 DEF Rendering, Reported, Specified
  <2>4. CASE ~(backup = None /\ conf.digest = model)
    BY <1>4, <1>11, <2>1, <2>4 DEF Prove, Specified
  <2>5. QED
    BY <2>3, <2>4
<1>12. CASE Proofs
  <2>1. stage = "source" /\ step = "proofs" /\ Leave("source", "completed") /\ UNCHANGED <<model, conf>>
    BY <1>12 DEF Proofs, Step, Running, vars
  <2>2. specs \in SpecReports /\ conf \in ConfReports /\ model \in SourceTexts
    BY <2>1 DEF Rendering, Reported, Specified
  <2>3. specs' \in SpecReports /\ specs'.text # None
    BY <1>0, <1>12, <2>2 DEF Proofs, SpecReports
  <2>4. stage' # "source"
    BY <2>1, StageOrder DEF Leave
  <2>5. QED
    BY <2>1, <2>2, <2>3, <2>4 DEF Rendering, Reported, Specified
<1>13. CASE SourceFails
  <2>1. stage' # "source" /\ done' = done /\ specs' = None /\ (conf' = None \/ conf' = conf)
    BY <1>13, StageOrder DEF SourceFails, Fail, Leave
  <2>2. stage = "source"
    BY <1>13 DEF SourceFails, Fail, Running
  <2>3. QED
    BY <2>1, <2>2 DEF Rendering, Reported, Specified
<1>14. QED
  BY <1>1, <1>2, <1>3, <1>6, <1>7, <1>8, <1>9, <1>10, <1>11, <1>12, <1>13 DEF Source

-----------------------------------------------------------------------------
(* The audits                                                              *)

\* Only an audit writes its result and its notes, and nothing else goes on within one.
LEMMA OutsideAudit ==
    ASSUME ANext, \A s \in AuditStages : ~Audit(s)
    PROVE  /\ UNCHANGED audits
           /\ AuditRuns' => Edit
<1> DEFINE Kept == UNCHANGED audits /\ (AuditRuns' => Edit)
<1>0. ASSUME step' = "idle" PROVE ~AuditRuns'
  BY <1>0 DEF AuditRuns
<1>1. CASE Source
  <2>1. stage = "source" /\ UNCHANGED audits
    BY <1>1 DEF Source, Guard, Render, Compile, Compare, Record, Prove, Proofs, SourceFails, Step, Fail, Running
  <2>2. stage' = stage \/ step' = "idle"
    BY <1>1 DEF Source, Guard, Render, Compile, Compare, Record, Prove, Proofs, SourceFails, Step, Fail, Leave
  <2>3. QED
    BY <1>0, <2>1, <2>2, StageOrder DEF AuditRuns
<1>2. CASE SecurityProperties
  BY <1>0, <1>2 DEF SecurityProperties, Leave
<1>3. CASE Finish \/ CancelIdle \/ Over
  BY <1>3, StageOrder DEF Finish, CancelIdle, Over, allVars, runVars, AuditRuns
<1>4. CASE Edit
  BY <1>4 DEF Edit
<1>5. ASSUME NEW s \in WorkStages, Work(s) PROVE Kept
  <2>1. UNCHANGED audits /\ step' = "idle"
    BY <1>5 DEF Work, Step, Fail, Leave
  <2>2. QED
    BY <1>0, <2>1
<1>6. ASSUME NEW s \in Stages, Enter(s) PROVE Kept
  <2>1. UNCHANGED audits /\ (step' = First[s] \/ step' = "idle")
    BY <1>6 DEF Enter, Leave
  <2>2. First[s] \notin {"build", "snapshot", "replay"}
    BY DEF First
  <2>3. QED
    BY <2>1, <2>2 DEF AuditRuns
<1>7. ASSUME NEW s \in Stages, Gate(s) \/ Escalate(s) \/ \E how \in {"deadline", "cancel"} : Signal(s, how)
      PROVE  Kept
  <2>1. UNCHANGED audits /\ stage = s
    BY <1>7 DEF Gate, Escalate, Signal, runVars, Running
  <2>2. step' = "idle" \/ (s \in DOMAIN GateOf /\ stage' = stage)
    BY <1>7 DEF Gate, Escalate, Signal, runVars, IsGate, Leave
  <2>3. QED
    BY <1>0, <2>1, <2>2, GateNames DEF AuditRuns
<1>8. QED
  <2>1. CASE Driver
    BY <1>1, <1>2, <1>3, <1>5, <1>6, <1>7, <2>1 DEF Driver
  <2>2. CASE Signals
    BY <1>3, <1>7, <2>2 DEF Signals
  <2>3. QED
    BY <1>3, <1>4, <2>1, <2>2 DEF ANext

\* Nobody restores the text that an audit digested while the audit runs.
NotRestored == Edit /\ AuditRuns => model' # noted.source
NeverRestored == [][NotRestored]_allVars

LEMMA AuditTypedStep == ASSUME GateTyped, AuditTyped, [ANext]_allVars PROVE AuditTyped'
<1>1. CASE UNCHANGED allVars
  BY <1>1 DEF allVars, runVars, vars, AuditTyped, AuditRuns
<1>2. CASE Edit
  BY <1>2 DEF Edit, AuditTyped, AuditRuns
<1>3. CASE ANext /\ ~Edit /\ \A s \in AuditStages : ~Audit(s)
  BY <1>3, OutsideAudit DEF AuditTyped
<1>4. ASSUME NEW s \in AuditStages, Audit(s) PROVE AuditTyped'
  <2>1. CASE Digest(s)
    BY <2>1 DEF Digest, Step, Running, AuditTyped, AuditRuns, GateTyped, MaybeText
  <2>2. CASE Rebuild(s)
    BY <2>2 DEF Rebuild, Step, Running, AuditTyped, AuditRuns, GateTyped, MaybeText
  <2>3. CASE Snapshot(s)
    BY <2>3 DEF Snapshot, Step, Running, AuditTyped, AuditRuns
  <2>4. CASE Replay(s)
    <3>1. /\ step = "replay" /\ step' = "idle" /\ stage = s
          /\ audits' = [audits EXCEPT ![s] = [text |-> noted.built, files |-> noted.source]]
      BY <2>4 DEF Replay, Step, Running, Leave
    <3>2. noted.built \in Text /\ noted.source \in Text
      BY <3>1 DEF AuditTyped, AuditRuns
    <3>3. QED
      BY <3>1, <3>2 DEF AuditTyped, AuditRuns
  <2>5. CASE AuditFails(s)
    BY <2>5 DEF AuditFails, Fail, Leave, AuditTyped, AuditRuns
  <2>6. QED
    BY <1>4, <2>1, <2>2, <2>3, <2>4, <2>5 DEF Audit
<1>5. QED
  BY <1>1, <1>2, <1>3, <1>4

AuditBound == BuiltFromIt /\ ReplayOfSnapshot

LEMMA AuditBoundStep ==
    ASSUME AuditTyped, AuditBound, [ANext]_allVars, [NotRestored]_allVars
    PROVE  AuditBound'
<1> USE DEF AuditBound
<1>1. CASE UNCHANGED allVars
  BY <1>1 DEF allVars, runVars, vars, BuiltFromIt, ReplayOfSnapshot, AuditRuns
<1>2. CASE ANext /\ ~Edit /\ \A s \in AuditStages : ~Audit(s)
  BY <1>2, OutsideAudit DEF BuiltFromIt, ReplayOfSnapshot
<1>3. CASE Edit
  <2>1. UNCHANGED <<stage, step, noted, audits>> /\ model' # model
    BY <1>3 DEF Edit
  <2>2. AuditRuns => model' # noted.source
    BY <1>3, <2>1 DEF NotRestored, allVars, vars
  <2>3. QED
    BY <2>1, <2>2 DEF BuiltFromIt, ReplayOfSnapshot, AuditRuns
<1>4. ASSUME NEW s \in AuditStages, Audit(s) PROVE AuditBound'
  <2>1. CASE Digest(s)
    BY <2>1 DEF Digest, Step, BuiltFromIt, ReplayOfSnapshot
  <2>2. CASE Rebuild(s)
    <3>1. UNCHANGED <<audits, model>> /\ noted' = [noted EXCEPT !.built = model]
      BY <2>2 DEF Rebuild, vars
    <3>2. AuditRuns
      BY <2>2 DEF Rebuild, Step, Running, AuditRuns
    <3>3. noted'.built = model
      BY <3>1, <3>2 DEF AuditTyped
    <3>4. QED
      BY <3>1, <3>3 DEF BuiltFromIt, ReplayOfSnapshot
  <2>3. CASE Snapshot(s)
    BY <2>3 DEF Snapshot, Step, Running, BuiltFromIt, ReplayOfSnapshot, AuditRuns, vars
  <2>4. CASE Replay(s)
    <3>1. /\ step = "replay" /\ model = noted.source /\ step' = "idle" /\ stage = s
          /\ audits' = [audits EXCEPT ![s] = [text |-> noted.built, files |-> noted.source]]
      BY <2>4 DEF Replay, Step, Running, Leave
    <3>2. noted.built = noted.source /\ DOMAIN audits = AuditStages
      BY <3>1 DEF BuiltFromIt, AuditRuns, AuditTyped
    <3>3. QED
      BY <3>1, <3>2 DEF BuiltFromIt, ReplayOfSnapshot, AuditRuns
  <2>5. CASE AuditFails(s)
    BY <2>5 DEF AuditFails, Fail, Leave, BuiltFromIt, ReplayOfSnapshot, AuditRuns
  <2>6. QED
    BY <1>4, <2>1, <2>2, <2>3, <2>4, <2>5 DEF Audit
<1>5. QED
  BY <1>1, <1>2, <1>3, <1>4

\* With one edit at most it cannot be restored.
LEMMA EditedOnceStep ==
    ASSUME MaxEdits <= 1, edits \in Nat, EditedOnce, [ANext]_allVars
    PROVE  EditedOnce' /\ edits' \in Nat
<1>0. MaxEdits \in Nat
  BY AssuranceAssumption
<1>1. CASE UNCHANGED allVars
  BY <1>1 DEF allVars, runVars, vars, EditedOnce, AuditRuns, CanEdit
<1>2. CASE Edit
  BY <1>0, <1>2 DEF Edit, EditedOnce, CanEdit
<1>3. CASE ANext /\ ~Edit
  <2>1. edits' = edits
    BY <1>3 DEF ANext, Driver, Signals, Source, Guard, Render, Compile, Compare, Record, Prove, Proofs, SourceFails,
                SecurityProperties, Finish, CancelIdle, Work, Audit, Digest, Rebuild, Snapshot, Replay, AuditFails,
                Enter, Gate, Escalate, Signal, runVars, Over, allVars
  <2>2. CASE \A s \in AuditStages : ~Audit(s)
    BY <1>3, <2>1, <2>2, OutsideAudit DEF EditedOnce
  <2>3. ASSUME NEW s \in AuditStages, Audit(s) PROVE EditedOnce'
    <3>1. UNCHANGED model /\ stage = s
      BY <2>3 DEF Audit, Digest, Rebuild, Snapshot, Replay, AuditFails, Step, Fail, Running, vars
    <3>2. CASE Digest(s)
      BY <3>1, <3>2 DEF Digest, EditedOnce
    <3>3. CASE Rebuild(s)
      BY <2>1, <3>1, <3>3 DEF Rebuild, Step, Running, EditedOnce, AuditRuns, CanEdit
    <3>4. CASE Snapshot(s)
      BY <2>1, <3>1, <3>4 DEF Snapshot, Step, Running, EditedOnce, AuditRuns, CanEdit
    <3>5. CASE Replay(s) \/ AuditFails(s)
      BY <3>5 DEF Replay, AuditFails, Step, Fail, Leave, EditedOnce, AuditRuns
    <3>6. QED
      BY <2>3, <3>2, <3>3, <3>4, <3>5 DEF Audit
  <2>4. QED
    BY <1>3, <2>1, <2>2, <2>3
<1>4. QED
  BY <1>1, <1>2, <1>3

-----------------------------------------------------------------------------
(* The certificate                                                         *)

LEMMA IssuedStep == ASSUME Issued, [ANext]_allVars PROVE Issued' /\ (~Finish => cert' = cert)
<1>1. CASE UNCHANGED allVars
  BY <1>1 DEF allVars, runVars, Issued
<1>2. CASE stage = "done" /\ ANext
  BY <1>2, OverIsOver DEF allVars, runVars, Issued
<1>3. CASE ANext /\ ~Finish
  <2>1. cert' = cert
    BY <1>3 DEF ANext, Driver, Signals, Source, Guard, Render, Compile, Compare, Record, Prove, Proofs, SourceFails,
                SecurityProperties, CancelIdle, Work, Audit, Digest, Rebuild, Snapshot, Replay, AuditFails,
                Enter, Gate, Escalate, Signal, runVars, Over, allVars, Edit
  <2>2. QED
    BY <1>2, <1>3, <2>1 DEF Issued
<1>4. CASE Finish
  BY <1>4 DEF Finish, Issued
<1>5. QED
  BY <1>1, <1>3, <1>4

LEMMA CertifiedStep ==
    ASSUME "source" \notin EditStages, GateTyped, SourceEvidence, ReplayOfSnapshot, Issued, CertifiedModel,
           [ANext]_allVars
    PROVE  CertifiedModel'
<1>1. CASE UNCHANGED allVars
  BY <1>1 DEF allVars, runVars, CertifiedModel
<1>2. CASE ANext /\ stage = "done"
  BY <1>2, OverIsOver DEF allVars, runVars, CertifiedModel
<1>3. CASE ANext /\ stage # "done" /\ ~Finish
  BY <1>3, IssuedStep DEF Issued, CertifiedModel
<1>4. CASE Finish
  <2> SUFFICES ASSUME Certified
               PROVE  /\ ~IsMutant(model)
                      /\ conf.text = model /\ specs.text = model /\ audits["audit"].text = model
                      /\ requested => audits["security-audit"].text = model
    BY <1>4 DEF Finish, CertifiedModel
  <2>1. conf \in ConfReports /\ conf.digest = model /\ model \in Text
    BY DEF Certified, Done, SourceEvidence, Reported, GateTyped
  <2>2. model = Clean /\ conf.text = model
    BY <2>1, TextFacts DEF ConfReports, SourceTexts
  <2>3. specs \in SpecReports /\ specs.text # None
    BY <1>4 DEF Certified, SourceEvidence, Specified, Finish
  <2>4. specs.text = model
    BY <2>2, <2>3 DEF SpecReports, SourceTexts
  <2>5. audits["audit"].text = model
    BY DEF Certified, Replayed, ReplayOfSnapshot, AuditStages
  <2>6. requested => audits["security-audit"].text = model
    BY DEF Certified, SecCertified, Replayed, ReplayOfSnapshot, AuditStages
  <2>7. QED
    BY <2>2, <2>4, <2>5, <2>6, TextFacts
<1>5. QED
  BY <1>1, <1>2, <1>3, <1>4

-----------------------------------------------------------------------------
(* The verdicts within the run                                             *)

Honest == (\A g \in Gates : HonestVerdicts(g)) /\ HonestReports

\* Nobody writes the file while a mutant in it is built.
Undisturbed == Edit => \A g \in Gates : ~At(g, "build")
NeverDisturbed == [][Undisturbed]_allVars

LEMMA HonestStep ==
    ASSUME Files, Claimed, Honest, [ANext]_allVars, [Undisturbed]_allVars
    PROVE  Honest'
<1> USE DEF Files, Honest
<1>0. claims.proved \subseteq SecThms
  BY DEF Claimed
<1>1. CASE UNCHANGED allVars
  BY <1>1 DEF allVars, vars, gateVars, HonestVerdicts, HonestReports, At
\* Nothing but the text is touched, and no mutant is built.
<1>2. ASSUME UNCHANGED <<gateVars, effect>>, \A g \in Gates : ~At(g, "build") PROVE Honest'
  BY <1>2 DEF gateVars, HonestVerdicts, HonestReports, At
<1>3. CASE Edit
  <2>1. model' # model /\ UNCHANGED <<gateVars, effect>>
    BY <1>3 DEF Edit
  <2>2. \A g \in Gates : ~At(g, "build")
    BY <1>3, <2>1 DEF Undisturbed, allVars, vars
  <2>3. QED
    BY <1>2, <2>1, <2>2
<1>4. CASE stage \in DOMAIN GateOf /\ step = "gate" /\ ANext /\ ~Edit
  <2> DEFINE g == GateOf[stage]
  <2>1. g \in Gates /\ \A h \in Gates \ {g} : At(h, "off")
    BY <1>4, GateNames DEF GateRuns
  <2>2. CASE Move(g)
    BY <2>1, <2>2, MoveHonest
  <2>3. CASE At(g, "off") /\ UNCHANGED vars
    BY <1>2, <2>1, <2>3 DEF vars, At
  <2>4. QED
    BY <1>4, <2>2, <2>3, GateStage
<1>5. CASE ~(stage \in DOMAIN GateOf /\ step = "gate") /\ ANext /\ ~Edit
  <2>1. \A g \in Gates : At(g, "off")
    BY <1>5 DEF GateRuns
  <2>2. ASSUME NEW s \in DOMAIN GateOf, GateRead(GateOf[s], Thms(s)) PROVE Honest'
    <3>1. GateOf[s] \in Gates /\ Move(GateOf[s])
      BY <1>0, <2>2, GateNames, TheoremsOf DEF Move
    <3>2. QED
      BY <2>1, <3>1, MoveHonest
  <2>3. CASE UNCHANGED <<gateVars, effect>>
    BY <1>2, <2>1, <2>3 DEF At
  <2>4. QED
    BY <1>5, <2>1, <2>2, <2>3, BesidesGate
<1>6. QED
  BY <1>1, <1>3, <1>4, <1>5

\* What a certificate requires of the reports of the gates.
CertifiedReports ==
    cert # None /\ cert.verified =>
        \A g \in {"conf"} \cup (IF requested THEN {"sec"} ELSE {}) : report[g].targets \subseteq report[g].teeth

LEMMA CertifiedReportsStep ==
    ASSUME Issued, CertifiedReports, [ANext]_allVars
    PROVE  CertifiedReports'
<1>1. CASE UNCHANGED allVars
  BY <1>1 DEF allVars, runVars, vars, gateVars, CertifiedReports
<1>2. CASE ANext /\ stage = "done"
  BY <1>2, OverIsOver DEF allVars, runVars, vars, gateVars, CertifiedReports
<1>3. CASE ANext /\ stage # "done" /\ ~Finish
  BY <1>3, IssuedStep DEF Issued, CertifiedReports
<1>4. CASE Finish
  BY <1>4 DEF Finish, Certified, SecCertified, Adequate, CertifiedReports, vars, gateVars
<1>5. QED
  BY <1>1, <1>2, <1>3, <1>4

-----------------------------------------------------------------------------
(* Theorems                                                                *)

Invariant == Files /\ Staged /\ Claimed /\ SourceEvidence /\ AuditTyped /\ Issued

LEMMA InvariantInit == ASSUME AInit PROVE Invariant
<1>1. Staged /\ Claimed
  BY DEF AInit, Staged, Claimed, Stages, NoClaims, MaybeText
<1>2. SourceEvidence
  BY DEF AInit, SourceEvidence, Rendering, Reported, Specified
<1>3. AuditTyped
  BY DEF AInit, AuditTyped, AuditRuns, AuditStages
<1>4. Issued
  BY DEF AInit, Issued
<1>5. QED
  BY <1>1, <1>2, <1>3, <1>4, FilesInit DEF Invariant

LEMMA InvariantStep == ASSUME Invariant, [ANext]_allVars PROVE Invariant'
<1> USE DEF Invariant
<1>1. GateTyped /\ GateTyped'
  BY FilesStep DEF Files
<1>2. QED
  BY <1>1, FilesStep, StagedStep, SourceStep, AuditTypedStep, IssuedStep

LEMMA Invariance == Spec => []Invariant
<1>1. AInit => Invariant
  BY InvariantInit
<1>2. Invariant /\ [ANext]_allVars => Invariant'
  BY InvariantStep
<1>3. QED
  BY <1>1, <1>2, PTL DEF Spec

\* The file, its backup, the order of the stages and every piece of evidence have their form:
\* run.json and the reports of scripts/assure.py.
THEOREM TypeCorrect == Spec => []TypeOK
<1>1. Invariant => TypeOK
  <2>1. SourceTexts \subseteq Text
    BY TextFacts DEF SourceTexts
  <2>2. ASSUME Invariant PROVE conf = None \/ conf \in [text : Text, digest : MaybeText, stable : BOOLEAN]
    BY <2>1, <2>2 DEF Invariant, SourceEvidence, Reported, ConfReports, MaybeText
  <2>3. ASSUME Invariant PROVE specs = None \/ specs \in [digest : Text, text : MaybeText]
    BY <2>1, <2>3 DEF Invariant, SourceEvidence, Specified, SpecReports, MaybeText
  <2>4. QED
    BY <2>2, <2>3 DEF Invariant, Files, GateTyped, Staged, Claimed, AuditTyped, TypeOK
<1>2. QED
  BY <1>1, Invariance, PTL

\* While a mutant is in the file its original is in the backup, wherever a gate or a run is stopped,
\* killed or cancelled, and whatever somebody else writes (mutate.py: restore_source).
THEOREM BackupRecovers == Spec => []Recoverable
<1>1. Invariant => Recoverable
  BY DEF Invariant, Files
<1>2. QED
  BY <1>1, Invariance, PTL

\* An audit that passed replayed the source it bound, for any number of writes, as long as nobody
\* restores the digested text within it (audit_all.py: prepare_replay; proof_artifacts.py: snapshot).
THEOREM ReplayBinds == Spec /\ NeverRestored => []ReplayOfSnapshot
<1>1. AInit => AuditBound
  BY DEF AInit, AuditBound, BuiltFromIt, ReplayOfSnapshot, AuditRuns, AuditStages
<1>2. Invariant /\ AuditBound /\ [ANext]_allVars /\ [NotRestored]_allVars => AuditBound'
  BY AuditBoundStep DEF Invariant
<1>3. AuditBound => ReplayOfSnapshot
  BY DEF AuditBound
<1>4. QED
  BY <1>1, <1>2, <1>3, Invariance, PTL DEF Spec, NeverRestored

\* One write is too few to restore anything.
THEOREM OneWriteRestoresNothing == ASSUME MaxEdits <= 1 PROVE Spec => NeverRestored
<1>1. AInit => EditedOnce /\ edits \in Nat
  BY DEF AInit, EditedOnce, AuditRuns
<1>2. EditedOnce /\ edits \in Nat /\ [ANext]_allVars => (EditedOnce /\ edits \in Nat)'
  BY EditedOnceStep
<1>3. EditedOnce /\ [ANext]_allVars => [NotRestored]_allVars
  BY DEF EditedOnce, CanEdit, NotRestored, Edit
<1>4. QED
  BY <1>1, <1>2, <1>3, PTL DEF Spec, NeverRestored

\* A certificate speaks of one text, and no mutant, wherever a stage fails, expires or is cancelled,
\* whatever an earlier run left, and whoever writes the model once the source stage is over
\* (guarantee.py: the digests it requires).
THEOREM CertificateOfOneText ==
    ASSUME "source" \notin EditStages
    PROVE  Spec /\ NeverRestored => []CertifiedModel
<1>1. AInit => CertifiedModel
  BY DEF AInit, CertifiedModel
<1>2. Invariant /\ ReplayOfSnapshot /\ CertifiedModel /\ [ANext]_allVars => CertifiedModel'
  BY CertifiedStep DEF Invariant, Files
<1>3. QED
  BY <1>1, <1>2, Invariance, ReplayBinds, PTL DEF Spec

\* A theorem certified as adequate was broken by every well-typed mutant of its subject that was
\* built, and by one at least, for any mutants, theorems and effects, and any failing or expiring
\* builds (mutate.py: classification; guarantee.py: mutation_adequate).
THEOREM TeethAreReal == Spec /\ NeverDisturbed => []AdequateMeansNoticed
<1>1. AInit => Honest
  BY DEF AInit, Init, Honest, HonestVerdicts, HonestReports, Unjudged, NoVerdict, NoReport, At
<1>2. Invariant /\ Honest /\ [ANext]_allVars /\ [Undisturbed]_allVars => Honest'
  BY HonestStep DEF Invariant
<1>3. AInit => CertifiedReports
  BY DEF AInit, CertifiedReports
<1>4. Invariant /\ CertifiedReports /\ [ANext]_allVars => CertifiedReports'
  BY CertifiedReportsStep DEF Invariant
<1>5. Honest /\ CertifiedReports => AdequateMeansNoticed
  <2> SUFFICES ASSUME HonestReports, CertifiedReports, cert # None, cert.verified,
                      NEW g \in {"conf"} \cup (IF requested THEN {"sec"} ELSE {}), NEW t \in report[g].targets
               PROVE  LET judged == {m \in report[g].judged : Decl(m) = Subject(t)}
                      IN judged # {} /\ \A m \in judged : t \in effect[m].broken
    BY DEF Honest, AdequateMeansNoticed
  <2>1. g \in Gates /\ t \in report[g].teeth
    BY AssuranceAssumption DEF CertifiedReports
  <2>2. QED
    BY <2>1 DEF HonestReports
<1>6. QED
  BY <1>1, <1>2, <1>3, <1>4, <1>5, Invariance, PTL DEF Spec, NeverDisturbed

\* Who writes between the gates disturbs none.
THEOREM WritesBetweenGates == ASSUME EditStages \cap DOMAIN GateOf = {} PROVE Spec => NeverDisturbed
<1>1. Invariant /\ [ANext]_allVars => [Undisturbed]_allVars
  BY DEF Invariant, Files, GateRuns, At, Edit, Undisturbed
<1>2. QED
  BY <1>1, Invariance, PTL DEF Spec, NeverDisturbed
=============================================================================
