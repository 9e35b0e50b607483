------------------------------ MODULE Monitor ------------------------------
(***************************************************************************)
(* The actuation reference monitor of gridsentinel (gs/monitor.py): every  *)
(* command for the plant, whoever sends it, is granted or vetoed against   *)
(* a process report and the memory of what was granted before.             *)
(*                                                                         *)
(* The guards that read nothing but the command and the report (signature, *)
(* time quality, provenance of the channels, direction, envelope,          *)
(* residual, feasibility, custody) are one input, sound; the differential  *)
(* is the highest sensitivity level it exceeds, because the level needed   *)
(* depends on the mode.  A call without a report is one that is not sound, *)
(* with the sequence number NoSeq.                                         *)
(***************************************************************************)
EXTENDS Integers, Sequences, FiniteSets

CONSTANTS
    Commands,   \* [source, kind, target, seq, nonce] that may be submitted
    Reports,    \* [t, seq, sound, level, cert] that may come with them
    PROTECTIVE_SOURCES,
    MAX_GRANTS, WINDOW_MS, VETO_LIMIT, CLOCK_FAULT_LIMIT, CLOCK_SKEW_MS,
    LATCH_SLOTS, REPLAY_SLOTS,
    Grants,     \* bound of the model: grants of a run
    None

NoSeq == -1
ActuatingKinds == {"TRIP", "CLOSE", "SETPOINT", "SWITCH"}
AllKinds == ActuatingKinds \cup {"PRIVILEGED"}
NORMAL == 0
RESTRICTED == 1
BASELINE_ONLY == 2

ASSUME MonitorAssumption ==
    /\ \A c \in Commands : c.kind \in AllKinds /\ c.seq \in Nat
    /\ \A r \in Reports : /\ r.t \in Nat /\ r.seq \in Nat \cup {NoSeq} /\ r.level \in Nat
                          /\ r.sound \in BOOLEAN /\ r.cert \in BOOLEAN
    /\ MAX_GRANTS \in Nat \ {0} /\ WINDOW_MS \in Nat \ {0} /\ VETO_LIMIT \in Nat \ {0, 1}
    /\ CLOCK_FAULT_LIMIT \in Nat \ {0} /\ CLOCK_SKEW_MS \in Nat
    /\ LATCH_SLOTS \in Nat \ {0} /\ REPLAY_SLOTS \in Nat \ {0} /\ Grants \in Nat
    /\ None \notin Int \cup AllKinds

VARIABLES
    mode, vetoes, clock_faults,   \* clock_faults: counted to CLOCK_FAULT_LIMIT
    latched,          \* targets in the latch table
    last_ms, win,     \* win: the grants it holds, without the sentinels
    replay,           \* associations in the replay table, with the last accepted frame
    last_report_seq,
    granted,          \* history: all grants
    tripped           \* history: targets tripped and not released since

state == <<mode, vetoes, clock_faults, latched, last_ms, win, replay, last_report_seq>>
vars == <<state, granted, tripped>>

Larger(a, b) == IF a > b THEN a ELSE b
Smaller(a, b) == IF a < b THEN a ELSE b

Init ==
    /\ mode = NORMAL /\ vetoes = 0 /\ clock_faults = 0 /\ latched = {}
    /\ last_ms = None /\ win = <<>> /\ replay = <<>> /\ last_report_seq = NoSeq
    /\ granted = <<>> /\ tripped = {}

-----------------------------------------------------------------------------
(* The reduction of a call to what the decision reads                      *)

\* A breaker-open of an operator console is operational switching.
EffectiveKind(c) == IF c.kind = "TRIP" /\ c.source \notin PROTECTIVE_SOURCES THEN "SWITCH" ELSE c.kind

Assoc(c) == <<c.source, c.target>>

\* An unknown association is fresh while the table has room.
\* Mutant: whatever differs from the last frame is fresh.
AnyOther(c) == IF Assoc(c) \in DOMAIN replay
               THEN [seq |-> c.seq, nonce |-> c.nonce] # replay[Assoc(c)]
               ELSE Cardinality(DOMAIN replay) < REPLAY_SLOTS
Fresh(c) == IF Assoc(c) \in DOMAIN replay
            THEN c.seq > replay[Assoc(c)].seq /\ c.nonce # replay[Assoc(c)].nonce
            ELSE Cardinality(DOMAIN replay) < REPLAY_SLOTS

\* An unknown target is latched when the table is full.
\* Mutant: it is not.
OnlyListed(target) == target \in latched
IsLatched(target) == target \in latched \/ Cardinality(latched) >= LATCH_SLOTS

ClockMonotone(t) == last_ms # None => t >= last_ms - CLOCK_SKEW_MS
MonoNow(t) == IF last_ms = None \/ t > last_ms THEN t ELSE last_ms

\* Adaptive sensitivity (level 1) needs the certificate and full trust.
DiffOk(r) == r.level >= (IF r.cert /\ mode = NORMAL THEN 1 ELSE 2)

-----------------------------------------------------------------------------
(* The decision                                                            *)

RateOk(now) == Len(win) < MAX_GRANTS \/ now - win[1] >= WINDOW_MS

Allowed(c, r) ==
    /\ r.sound /\ ClockMonotone(r.t) /\ Fresh(c) /\ r.seq > last_report_seq
    /\ mode # BASELINE_ONLY
    /\ EffectiveKind(c) = "PRIVILEGED" => mode = NORMAL
    /\ EffectiveKind(c) \in ActuatingKinds => RateOk(MonoNow(r.t))
    /\ EffectiveKind(c) = "TRIP" => ~IsLatched(c.target) /\ DiffOk(r)

-----------------------------------------------------------------------------
(* The update                                                              *)

\* Mutant: only protective trips count.
TripsOnly == {"TRIP"}
Budgeted == ActuatingKinds

Slide(now) == IF Len(win) = MAX_GRANTS THEN Append(Tail(win), now) ELSE Append(win, now)

NextMode(v) == IF v >= VETO_LIMIT THEN BASELINE_ONLY
               ELSE IF v >= VETO_LIMIT \div 2 /\ mode = NORMAL THEN RESTRICTED ELSE mode

Vetoed == IF vetoes < VETO_LIMIT THEN vetoes + 1 ELSE vetoes

\* A frame of an unknown association is not remembered when the table is full.
Remember(c) ==
    IF Assoc(c) \in DOMAIN replay \/ Cardinality(DOMAIN replay) < REPLAY_SLOTS
    THEN [a \in DOMAIN replay \cup {Assoc(c)} |->
            IF a = Assoc(c) THEN [seq |-> c.seq, nonce |-> c.nonce] ELSE replay[a]]
    ELSE replay

\* A table of latches after a reclose authorisation and a grant of kind k for the target.
Released(table, target, reclose, k) ==
    IF reclose \/ k \in {"CLOSE", "SWITCH"} THEN table \ {target} ELSE table
Relatch(target, reclose, k) ==
    LET cleared == Released(latched, target, reclose, k)
    IN IF k = "TRIP" /\ Cardinality(cleared) < LATCH_SLOTS THEN cleared \cup {target} ELSE cleared

\* What a grant leaves in the history; rearmed: it was carried by a reinstating call.
Log(grant, c, r, rearmed) ==
    granted' = IF grant
               THEN Append(granted, [kind |-> EffectiveKind(c), assoc |-> Assoc(c), seq |-> c.seq,
                                     t |-> MonoNow(r.t), rearmed |-> rearmed])
               ELSE granted

\* An operator re-arms the monitor: the command that carries it is decided, but not committed.
Reinstate(grant, c, r, reclose) ==
    /\ mode' = NORMAL /\ vetoes' = 0 /\ clock_faults' = 0 /\ last_ms' = r.t
    /\ latched' = Relatch(c.target, reclose, None)
    /\ tripped' = Released(tripped, c.target, reclose, None)
    /\ Log(grant, c, r, TRUE)
    /\ UNCHANGED <<win, replay, last_report_seq>>

\* A timestamp too far behind is counted and nothing else.
ClockFault(r) ==
    /\ ~ClockMonotone(r.t)
    /\ clock_faults' = Smaller(clock_faults + 1, CLOCK_FAULT_LIMIT)
    /\ mode' = IF clock_faults' >= CLOCK_FAULT_LIMIT THEN BASELINE_ONLY ELSE mode
    /\ UNCHANGED <<vetoes, latched, last_ms, win, replay, last_report_seq, granted, tripped>>

Mediate(grant, c, r, reclose) ==
    LET k == IF grant THEN EffectiveKind(c) ELSE None
        now == MonoNow(r.t)
    IN
    /\ ClockMonotone(r.t)
    /\ last_ms' = now
    /\ replay' = IF grant THEN Remember(c) ELSE replay
    /\ last_report_seq' = Larger(last_report_seq, r.seq)
    /\ latched' = Relatch(c.target, reclose, k)
    /\ tripped' = Released(tripped, c.target, reclose, k) \cup (IF k = "TRIP" THEN {c.target} ELSE {})
    /\ win' = IF k \in Budgeted THEN Slide(now) ELSE win
    /\ vetoes' = IF grant THEN 0 ELSE Vetoed
    /\ mode' = NextMode(vetoes')
    /\ Log(grant, c, r, FALSE)
    /\ UNCHANGED clock_faults

Submit(c, r, reclose, reinstate) ==
    LET grant == Allowed(c, r) IN
    /\ grant => Len(granted) < Grants
    /\ \/ reinstate /\ Reinstate(grant, c, r, reclose)
       \/ ~reinstate /\ ClockFault(r)
       \/ ~reinstate /\ Mediate(grant, c, r, reclose)

Next == \E c \in Commands, r \in Reports, reclose \in BOOLEAN, reinstate \in BOOLEAN :
           Submit(c, r, reclose, reinstate)

Spec == Init /\ [][Next]_vars
-----------------------------------------------------------------------------
(* Correctness                                                             *)

Associations == {Assoc(c) : c \in Commands}
Targets == {c.target : c \in Commands}
Times == {r.t : r \in Reports}
Frames == {[seq |-> c.seq, nonce |-> c.nonce] : c \in Commands}
GrantRecords == [kind : AllKinds, assoc : Associations, seq : Nat, t : Times, rearmed : BOOLEAN]

TypeOK ==
    /\ mode \in NORMAL..BASELINE_ONLY /\ vetoes \in 0..VETO_LIMIT
    /\ clock_faults \in 0..CLOCK_FAULT_LIMIT
    /\ latched \subseteq Targets /\ Cardinality(latched) <= LATCH_SLOTS
    /\ last_ms \in Times \cup {None} /\ win \in Seq(Times) /\ Len(win) <= MAX_GRANTS
    /\ DOMAIN replay \subseteq Associations /\ Cardinality(DOMAIN replay) <= REPLAY_SLOTS
    /\ \A a \in DOMAIN replay : replay[a] \in Frames
    /\ last_report_seq \in Nat \cup {NoSeq}
    /\ granted \in Seq(GrantRecords) /\ tripped \subseteq Targets

\* More than MAX_GRANTS of these grants lie within one window.
Crowded(I) == Cardinality(I) > MAX_GRANTS
              /\ \A i, k \in I : granted[i].t - granted[k].t < WINDOW_MS

Actuations == {i \in DOMAIN granted : granted[i].kind \in ActuatingKinds}

\* I2 and E2: the actuations of all sources on all targets share one budget per window, through
\* jitter, clock faults and reinstatements; those a reinstating call carries are not counted.
RateLimited == \A I \in SUBSET {i \in Actuations : ~granted[i].rearmed} : ~Crowded(I)

\* E5: the frames accepted of an association strictly increase, so that none actuates twice,
\* also when the replay table is full, after vetoes and across reinstatements.
FramesOnce ==
    \A i, k \in DOMAIN granted :
        i < k /\ ~granted[i].rearmed /\ granted[i].assoc = granted[k].assoc
           => granted[i].seq < granted[k].seq

\* I3: a target that was tripped is not tripped again before it is released, however many
\* targets share the latch table.
TripOnce ==
    [][granted' # granted =>
          LET g == granted'[Len(granted')] IN g.kind = "TRIP" => g.assoc[2] \notin tripped]_vars

-----------------------------------------------------------------------------
(* What the documents say and the code does not do                         *)

\* "actuations per window, ACROSS ALL SOURCES", and a reinstatement "preserves the replay table,
\* the latch table and the rate window" (monitor.py).
BudgetSurvives == \A I \in SUBSET Actuations : ~Crowded(I)
=============================================================================
