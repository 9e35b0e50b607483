------------------------------ MODULE Assurance ------------------------------
(***************************************************************************)
(* One assurance run of one module (scripts/assure.py): its stages, the    *)
(* evidence each leaves, and the certificate that guarantee.py and         *)
(* security_specs.py issue from it.  The two mutation stages are the gates *)
(* of MutationGate; somebody else may rewrite the model meanwhile.         *)
(***************************************************************************)
EXTENDS MutationGate

CONSTANTS
    Rendered,     \* the base render_lean.py writes
    ConfThms,     \* theorems of Autoform/SpecsGen/<M>.lean
    SecThms,      \* of Autoform/Security/<M>.lean
    EditStages,   \* bound: the stages somebody else writes the model in
    MaxEdits      \* bound: how often

Stages == {"source", "core-oracle", "mutation", "restore-build", "security-properties",
           "security-mutation", "security-restore", "security-audit", "audit", "emit"}
Next_ == [s \in Stages |->
    CASE s = "source" -> "core-oracle" [] s = "core-oracle" -> "mutation"
      [] s = "mutation" -> "restore-build" [] s = "restore-build" -> "security-properties"
      [] s = "security-properties" -> "security-mutation"
      [] s = "security-mutation" -> "security-restore"
      [] s = "security-restore" -> "security-audit" [] s = "security-audit" -> "audit"
      [] s = "audit" -> "emit" [] OTHER -> "finish"]
SecStages == {"security-properties", "security-mutation", "security-restore", "security-audit"}
GateOf == [s \in {"mutation", "security-mutation"} |-> IF s = "mutation" THEN "conf" ELSE "sec"]
IsGate(s) == s \in DOMAIN GateOf

ASSUME AssuranceAssumption ==
    /\ Rendered \in Bases \ Foreign /\ Foreign # {} /\ Gates = {"conf", "sec"}
    /\ Theorems = ConfThms \cup SecThms /\ ConfThms # {} /\ SecThms # {}
    /\ EditStages \subseteq Stages \cup {"finish"} /\ MaxEdits \in Nat

VARIABLES
    stage, step,  \* the stage that runs or is next ("finish", "done"), where it is ("idle")
    done,         \* the stages run.json calls completed; all other outcomes count alike
    sent,         \* SIGINT sent to the running stage: "no", at its "deadline", to "cancel"
    requested,    \* security properties were asked for: never changes
    fresh,        \* pipeline.json: this run rendered and compiled the model
    conf,         \* conformance.json
    specs,        \* specs.json
    claims,       \* security-claims.json: the properties proved, the model they were proved over
    noted,        \* what the running audit digested before its build, and built
    audits,       \* audit.json, security-audit.json
    cert,         \* guarantee.json
    edits         \* bound: writes by somebody else so far

runVars == <<stage, step, done, sent, requested, fresh, conf, specs, claims, noted, audits, cert, edits>>
allVars == <<vars, runVars>>

Clean == [base |-> Rendered, mut |-> None]
NoClaims == [proved |-> {}, digest |-> None]

AInit ==
    /\ Init
    /\ \/ model = Clean /\ backup = None
       \* an earlier gate was killed
       \/ model \in {Mutated(Clean, m) : m \in Mutations} /\ backup = Clean
    /\ stage = "source" /\ step = "idle" /\ done = {} /\ sent = "no"
    /\ requested \in BOOLEAN /\ fresh = FALSE
    /\ conf = None /\ specs = None /\ claims = NoClaims /\ noted = None /\ audits = [s \in {"audit", "security-audit"} |-> None]
    /\ cert = None /\ edits = 0

-----------------------------------------------------------------------------
(* The driver                                                              *)

Done(s) == s \in done
ProofsReady == Done("source") /\ specs # None
\* The theorems a stage builds.
Thms(s) == CASE s = "security-restore" -> claims.proved \cup (IF ProofsReady THEN ConfThms ELSE {})
             [] s \in SecStages -> claims.proved [] OTHER -> ConfThms
Runnable(s) ==
    CASE s = "source" -> TRUE
      [] s = "core-oracle" -> fresh /\ conf # None
      [] s \in {"mutation", "restore-build"} -> ProofsReady
      [] s = "security-properties" -> requested /\ fresh
      [] s \in {"security-mutation", "security-restore"} -> claims.proved # {}
      [] s = "security-audit" -> Done("security-restore")
      [] s = "audit" -> Done("restore-build")
      [] OTHER -> TRUE

Running(s) == stage = s /\ step # "idle"
Leave(s, how) ==
    /\ done' = IF how = "completed" THEN done \cup {s} ELSE done
    /\ step' = "idle" /\ sent' = "no"
    /\ stage' = IF how = "cancel" THEN "finish" ELSE Next_[s]
Step(s, from, to) ==
    /\ Running(s) /\ step = from
    /\ IF to = "end" THEN Leave(s, "completed") ELSE step' = to /\ UNCHANGED <<stage, done, sent>>
Fail(s) == Running(s) /\ Leave(s, "failed")

First == [s \in Stages |-> CASE s = "source" -> "guard" [] IsGate(s) -> "gate"
                             [] s \in {"audit", "security-audit"} -> "digest" [] OTHER -> "work"]

\* Mutant: a stage that cannot run ends the driver.
EnterOrStop(s) ==
    /\ stage = s /\ step = "idle" /\ s \in Stages
    /\ IF Runnable(s)
       THEN /\ step' = First[s] /\ UNCHANGED <<stage, done, sent>>
            /\ IF IsGate(s) THEN GateRead(GateOf[s], Thms(s)) ELSE UNCHANGED vars
       ELSE stage' = "done" /\ UNCHANGED <<vars, step, done, sent>>
    /\ UNCHANGED <<requested, fresh, conf, specs, claims, noted, audits, cert, edits>>
Enter(s) ==
    /\ stage = s /\ step = "idle" /\ s \in Stages
    /\ IF Runnable(s)
       THEN /\ step' = First[s] /\ UNCHANGED <<stage, done, sent>>
            /\ IF IsGate(s) THEN GateRead(GateOf[s], Thms(s)) ELSE UNCHANGED vars
       ELSE Leave(s, "blocked") /\ UNCHANGED vars
    /\ UNCHANGED <<requested, fresh, conf, specs, claims, noted, audits, cert, edits>>

\* The deadline of a stage, or the user: SIGINT, and two seconds later SIGKILL.
Signal(s, how) ==
    /\ Running(s) /\ sent = "no"
    /\ IF IsGate(s)
       THEN GateInterrupt(GateOf[s]) /\ sent' = how /\ UNCHANGED <<stage, step, done, fresh, specs, conf>>
       ELSE /\ UNCHANGED vars /\ Leave(s, how)
            /\ IF s = "source"
               THEN fresh' \in {fresh, FALSE} /\ specs' = None /\ conf' = IF step = "record" THEN None ELSE conf
               ELSE UNCHANGED <<fresh, specs, conf>>
    /\ noted' = None /\ UNCHANGED <<requested, claims, audits, cert, edits>>
Escalate(s) ==
    /\ Running(s) /\ IsGate(s) /\ sent # "no" /\ GateKill(GateOf[s])
    /\ UNCHANGED runVars

\* The same between two stages, where nothing runs that a signal could reach; an exception of the
\* driver, or a property input that cannot be read, ends it alike.
CancelIdle ==
    /\ stage \in Stages /\ step = "idle" /\ stage' = "finish"
    /\ UNCHANGED <<vars, step, done, sent, requested, fresh, conf, specs, claims, noted, audits, cert, edits>>

-----------------------------------------------------------------------------
(* source: autoform.sh                                                     *)

Guard ==
    /\ Running("source") /\ step = "guard"
    /\ IF backup = None THEN Step("source", "guard", "render") ELSE Fail("source")
    /\ UNCHANGED <<vars, requested, fresh, conf, specs, claims, noted, audits, cert, edits>>

Render ==
    /\ Step("source", "render", "compile") /\ model' = Clean
    /\ UNCHANGED <<backup, gateVars, effect, requested, fresh, conf, specs, claims, noted, audits, cert, edits>>

Compile ==
    /\ Step("source", "compile", "compare") /\ fresh' = TRUE
    /\ UNCHANGED <<vars, requested, conf, specs, claims, noted, audits, cert, edits>>

\* differential.py: build, look for a gate, evaluate a private copy of what was built ...
Compare ==
    /\ Step("source", "compare", "record")
    /\ conf' = [text |-> model, stable |-> backup = None, digest |-> None]
    /\ UNCHANGED <<vars, requested, fresh, specs, claims, noted, audits, cert, edits>>

\* ... and digest the model for the report.  The pipeline goes on only from agreement; a report of
\* a divergence counts for nothing.
Record(agree) ==
    /\ Running("source") /\ step = "record"
    /\ conf' = IF agree THEN [conf EXCEPT !.digest = model] ELSE None
    /\ IF agree /\ conf.stable THEN Step("source", "record", "prove") ELSE Fail("source")
    /\ UNCHANGED <<vars, requested, fresh, specs, claims, noted, audits, cert, edits>>

\* synth_specs.py: refuse over a gate or evidence about another model, digest, then prove.
Prove ==
    /\ Running("source") /\ step = "prove"
    /\ IF backup = None /\ conf.digest = model
       THEN Step("source", "prove", "proofs") /\ specs' = [digest |-> model, text |-> None]
       ELSE Fail("source") /\ UNCHANGED specs
    /\ UNCHANGED <<vars, requested, fresh, conf, claims, noted, audits, cert, edits>>

Proofs ==
    /\ CanBuild(ConfThms) /\ Step("source", "proofs", "end") /\ specs' = [specs EXCEPT !.text = model]
    /\ UNCHANGED <<vars, requested, fresh, conf, claims, noted, audits, cert, edits>>

SourceFails ==
    /\ Fail("source")
    /\ specs' = None /\ conf' = IF step = "record" THEN None ELSE conf
    /\ UNCHANGED <<vars, requested, fresh, claims, noted, audits, cert, edits>>

Source == Guard \/ Render \/ Compile \/ Compare \/ Prove \/ Proofs \/ SourceFails
          \/ \E agree \in BOOLEAN : Record(agree)

-----------------------------------------------------------------------------
(* The other stages                                                        *)

\* mutate.py; --spec-report only binds the conformance theorems.
Gate(s) ==
    /\ Running(s) /\ IsGate(s)
    /\ LET g == GateOf[s] IN
       \/ ~At(g, "off") /\ UNCHANGED runVars
          /\ (GateStep(g) \/ GateCheck(g, s = "mutation" => specs.digest = model))
       \/ /\ At(g, "off") /\ UNCHANGED <<vars, requested, fresh, conf, specs, claims, noted, audits, cert, edits>>
          /\ Leave(s, IF sent # "no" THEN sent ELSE IF passed[g] THEN "completed" ELSE "failed")

\* security_specs.py generate: each property is proved or stays open, which fails the stage.
SecurityProperties ==
    /\ Running("security-properties") /\ step = "work"
    /\ \E ts \in SUBSET SecThms :
         /\ (ts # {} => CanBuild(ts)) /\ claims' = [proved |-> ts, digest |-> model]
         /\ Leave("security-properties", IF ts = SecThms THEN "completed" ELSE "failed")
    /\ UNCHANGED <<vars, requested, fresh, conf, specs, noted, audits, cert, edits>>

\* lake build, the core oracle, the emitters.
Work(s) ==
    /\ \/ /\ s \in {"restore-build", "security-restore"} => CanBuild(Thms(s))
          /\ Step(s, "work", "end")
       \/ step = "work" /\ Fail(s)
    /\ UNCHANGED <<vars, requested, fresh, conf, specs, claims, noted, audits, cert, edits>>

AuditStages == {"audit", "security-audit"}

\* audit_all.py: digest the sources, build them, ...
Digest(s) ==
    /\ Step(s, "digest", "build") /\ noted' = [source |-> model, built |-> None]
    /\ UNCHANGED <<vars, requested, fresh, conf, specs, claims, audits, cert, edits>>
Rebuild(s) ==
    /\ Step(s, "build", "snapshot") /\ CanBuild(Thms(s)) /\ noted' = [noted EXCEPT !.built = model]
    /\ UNCHANGED <<vars, requested, fresh, conf, specs, claims, audits, cert, edits>>

AuditFails(s) ==
    /\ step \in {"digest", "build", "snapshot", "replay"} /\ Fail(s) /\ noted' = None
    /\ UNCHANGED <<vars, requested, fresh, conf, specs, claims, audits, cert, edits>>

\* Mutant: what is there after the build is what was built.
SnapshotLater(s) ==
    /\ Step(s, "snapshot", "replay") /\ noted' = [noted EXCEPT !.source = model]
    /\ UNCHANGED <<vars, requested, fresh, conf, specs, claims, audits, cert, edits>>
\* ... require that they have not changed, replay what was built, ...
Snapshot(s) ==
    /\ Step(s, "snapshot", "replay") /\ model = noted.source
    /\ UNCHANGED <<vars, requested, fresh, conf, specs, claims, noted, audits, cert, edits>>
\* ... and require it again.  An audit that fails leaves nothing that counts.
Replay(s) ==
    /\ Step(s, "replay", "end") /\ model = noted.source /\ noted' = None
    /\ audits' = [audits EXCEPT ![s] = [text |-> noted.built, files |-> noted.source]]
    /\ UNCHANGED <<vars, requested, fresh, conf, specs, claims, cert, edits>>

Audit(s) == Digest(s) \/ Rebuild(s) \/ Snapshot(s) \/ Replay(s) \/ AuditFails(s)

-----------------------------------------------------------------------------
(* The certificate                                                         *)

Adequate(g) == report[g] # NoReport /\ report[g].targets \subseteq report[g].teeth
Replayed(s) == audits[s] # None /\ audits[s].files = model

SecCertified ==
    /\ \A s \in SecStages : Done(s)
    /\ claims.digest = model /\ Replayed("security-audit") /\ Adequate("sec")

\* Mutant: the stages' exit codes are enough.
ExitCodes ==
    /\ \A s \in {"source", "core-oracle", "mutation", "restore-build", "audit"} : Done(s)
    /\ Adequate("conf") /\ (requested => Adequate("sec"))
Certified ==
    /\ \A s \in {"source", "core-oracle", "mutation", "restore-build", "audit"} : Done(s)
    /\ specs # None /\ specs.digest = model
    /\ Replayed("audit") /\ Adequate("conf")
    /\ conf.digest = model /\ conf.stable
    /\ requested => SecCertified

Finish ==
    /\ stage = "finish" /\ stage' = "done" /\ cert' = [verified |-> Certified, text |-> model]
    /\ UNCHANGED <<vars, step, done, sent, requested, fresh, conf, specs, claims, noted, audits, edits>>

-----------------------------------------------------------------------------
(* Somebody else writes the model: an editor, git, another render.         *)

Edit ==
    /\ stage \in EditStages /\ edits < MaxEdits /\ edits' = edits + 1
    /\ model' \in {[base |-> b, mut |-> None] : b \in Foreign} \ {model}
    /\ UNCHANGED <<backup, gateVars, effect, stage, step, done, sent, requested, fresh, conf, specs,
                   claims, noted, audits, cert>>

WorkStages == Stages \ ({"source", "security-properties"} \cup AuditStages \cup DOMAIN GateOf)
Driver == Source \/ SecurityProperties \/ (\E s \in Stages : Enter(s) \/ Gate(s)) \/ (\E s \in WorkStages : Work(s))
          \/ (\E s \in AuditStages : Audit(s)) \/ Finish
Signals == CancelIdle \/ \E s \in Stages : Escalate(s) \/ \E how \in {"deadline", "cancel"} : Signal(s, how)
Over == stage = "done" /\ UNCHANGED allVars

ANext == Driver \/ Signals \/ Edit \/ Over

\* Every stage has a deadline: what runs ends, by itself or at its deadline.
Spec == AInit /\ [][ANext]_allVars /\ WF_allVars(Driver)
-----------------------------------------------------------------------------
(* Properties                                                              *)

MaybeText == Text \cup {None}
\* What the variables range over.
TypeOK ==
    /\ model \in Text /\ backup \in MaybeText /\ stage \in Stages \cup {"finish", "done"}
    /\ done \subseteq Stages
    /\ conf = None \/ conf \in [text : Text, digest : MaybeText, stable : BOOLEAN]
    /\ claims \in [proved : SUBSET SecThms, digest : MaybeText]
    /\ specs = None \/ specs \in [digest : Text, text : MaybeText]
    /\ \A s \in AuditStages : audits[s] = None \/ audits[s] \in [text : Text, files : Text]

\* A certificate speaks of one text: what was compared with the runtime, what the proofs were built
\* over, what the kernel replayed and what lies in the file when it is issued are the same, and no
\* mutant -- after any failure, deadline or cancellation of any stage, over whatever an earlier run
\* left, and with somebody writing the model once the source stage is over.
CertifiedModel ==
    cert # None /\ cert.verified =>
        /\ ~IsMutant(cert.text)
        /\ conf.text = cert.text /\ specs.text = cert.text /\ audits["audit"].text = cert.text
        /\ requested => audits["security-audit"].text = cert.text

\* A theorem certified as adequate was broken by every well-typed mutant of its subject that was
\* built, and by one at least: no failure or deadline of a build is taken for a theorem noticing.
AdequateMeansNoticed ==
    cert # None /\ cert.verified =>
        \A g \in {"conf"} \cup (IF requested THEN {"sec"} ELSE {}) :
          \A t \in report[g].targets :
            LET judged == {m \in report[g].judged : Decl(m) = Subject(t)}
            IN judged # {} /\ \A m \in judged : t \in effect[m].broken

\* An audit that passed replayed the very source it bound, whoever wrote meanwhile.
ReplayOfSnapshot == \A s \in AuditStages : audits[s] # None => audits[s].text = audits[s].files

\* While a mutant is in the file, by a running gate or one that was killed, in this run or before,
\* the backup beside it is the text it was made from.
Recoverable == IsMutant(model) => backup = [model EXCEPT !.mut = None]

\* Whatever fails, expires or is cancelled, a run ends with a certificate, verified or not.
RunFinishes == <>(stage = "done" /\ cert # None)
=============================================================================
