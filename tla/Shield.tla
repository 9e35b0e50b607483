------------------------------- MODULE Shield -------------------------------
(***************************************************************************)
(* The runtime shield of gridsentinel (gs/shield.py): every sample of the  *)
(* protected line comes with a proposal of an untrusted model, and the     *)
(* shield grants or vetoes the accelerated trip the model asks for.  The   *)
(* timestamps are whatever the clock of the plant delivers.                *)
(*                                                                         *)
(* A differential is reduced to the highest sensitivity level it exceeds   *)
(* (0 when it exceeds none or is not finite), the requested settings to    *)
(* the level they ask for; of the supervision inputs only the first one    *)
(* that fails matters.                                                     *)
(***************************************************************************)
EXTENDS Integers, Sequences, FiniteSets

CONSTANTS
    MAX_GRANTS, WINDOW_MS,   \* accelerated trips per window
    VETO_LIMIT, EXCURSION_LIMIT, DWELL_MS, MAX_CLOCK_STEP_MS,
    Times,      \* timestamps of the samples
    Levels,     \* levels the differential may exceed
    Requests,   \* levels the model may ask for; a request that is not finite asks for Adaptive
    Flaws,      \* supervision inputs that may fail
    Certs,      \* what the model may say of its certificate
    Grants,     \* bound of the model: grants of a run
    None

Adaptive == 1   \* P0_MIN and K_MIN
Nominal  == 2   \* P0_NOM and K_NOM
Supervision == {"time", "remote", "local", "direction"}

ASSUME ShieldAssumption ==
    /\ MAX_GRANTS \in Nat \ {0} /\ WINDOW_MS \in Nat \ {0}
    /\ VETO_LIMIT \in Nat \ {0, 1} /\ EXCURSION_LIMIT \in Nat \ {0} /\ DWELL_MS \in Nat \ {0}
    /\ MAX_CLOCK_STEP_MS \in Nat /\ Times \subseteq Nat
    /\ Levels \subseteq Nat /\ Requests \subseteq Nat
    /\ Flaws \subseteq Supervision /\ Certs \subseteq BOOLEAN
    /\ Grants \in Nat /\ None \notin Nat \cup Supervision

NORMAL == 0
RESTRICTED == 1
BASELINE_ONLY == 2

VARIABLES
    mode, latched, grant_times, vetoes, excursions, last_seen_ms,
    diff_run,    \* counted to DWELL_MS, beyond which nothing depends on it
    reason,      \* what decide answered, "start" before the first sample
    granted,     \* history: the times of all grants
    peak,        \* history: highest value of vetoes since the last reinstatement
    strong,      \* history: consecutive samples above the most sensitive level, to DWELL_MS
    sound,       \* history: consecutive justified requests, to DWELL_MS
    prev,        \* history: timestamp of the last sample
    leaps,       \* history: timestamps that did not follow from the one before, to 2
    asked        \* history: the model has asked for a trip

state == <<mode, latched, grant_times, vetoes, excursions, last_seen_ms, diff_run>>
vars == <<state, reason, granted, peak, strong, sound, prev, leaps, asked>>

Init ==
    /\ mode = NORMAL /\ latched = FALSE /\ grant_times = <<>>
    /\ vetoes = 0 /\ excursions = 0 /\ last_seen_ms = None /\ diff_run = 0
    /\ reason = "start" /\ granted = <<>> /\ peak = 0 /\ strong = 0 /\ sound = 0
    /\ prev = None /\ leaps = 0 /\ asked = FALSE

Larger(a, b) == IF a > b THEN a ELSE b
Smaller(a, b) == IF a < b THEN a ELSE b

-----------------------------------------------------------------------------
(* Numeric layer                                                           *)

\* The certificate buys sensitivity, and only in full trust.
Floor(cert) == IF cert /\ mode = NORMAL THEN Adaptive ELSE Nominal

\* The model may ask for less sensitivity than the floor, never for more.
\* Mutant: the request is taken as it is.
AsRequested(level, req, cert) == level >= req
DiffOk(level, req, cert) == level >= Larger(req, Floor(cert))

-----------------------------------------------------------------------------
(* The decision                                                            *)

Implausible(t, seen) == seen # None /\ (t < seen \/ t - seen > MAX_CLOCK_STEP_MS)
\* Mutant: a repeated timestamp is a step back.
EqualIsBack(t) == last_seen_ms # None /\ (t <= last_seen_ms \/ t - last_seen_ms > MAX_CLOCK_STEP_MS)
Excursion(t) == Implausible(t, last_seen_ms)

\* The oldest of the last MAX_GRANTS grants is still inside the window.
\* Mutant: one grant more before the window is looked at.
OneMore(t) == Len(grant_times) > MAX_GRANTS /\ t - grant_times[1] < WINDOW_MS
BudgetSpent(t) == Len(grant_times) >= MAX_GRANTS /\ t - grant_times[1] < WINDOW_MS

\* Mutant: the sample itself is not counted.
DwellWithoutIt == diff_run < DWELL_MS
DwellMissing == diff_run + 1 < DWELL_MS

\* A sample in: its time, whether the model asks, the first supervision input that fails, whether
\* the differential is corroborated.
Refuses(why, in) ==
    CASE why = "no-request"     -> ~in.want
      [] why = "mode"           -> mode = BASELINE_ONLY
      [] why = "latched"        -> latched
      [] why = "time-backwards" -> Excursion(in.t) /\ in.t < last_seen_ms
      [] why = "time-jump"      -> Excursion(in.t) /\ in.t > last_seen_ms
      [] why = "rate"           -> BudgetSpent(in.t)
      [] why \in Supervision    -> in.flaw = why
      [] why = "physics"        -> ~in.diff_ok
      [] why = "dwell"          -> DwellMissing

Order == <<"no-request", "mode", "latched", "time-backwards", "time-jump", "rate",
           "time", "remote", "local", "direction", "physics", "dwell">>

Granted(in) == \A i \in DOMAIN Order : ~Refuses(Order[i], in)

Reason(in) ==
    IF Granted(in) THEN "grant"
    ELSE Order[CHOOSE i \in DOMAIN Order :
                 Refuses(Order[i], in) /\ \A k \in 1..(i - 1) : ~Refuses(Order[k], in)]

-----------------------------------------------------------------------------
(* The update                                                              *)

Watermark(seen, t) == IF ~Excursion(t) /\ (seen = None \/ t > seen) THEN t ELSE seen

Remember(t) == LET all == Append(grant_times, t)
               IN IF Len(all) > MAX_GRANTS THEN Tail(all) ELSE all

\* Mutant: a distrusted model recovers when its vetoes are cleared.
ModeOfCounts(m, v, e) == IF v >= VETO_LIMIT \/ e >= EXCURSION_LIMIT THEN BASELINE_ONLY
                         ELSE IF v >= VETO_LIMIT \div 2 THEN RESTRICTED ELSE NORMAL
NextMode(m, v, e) == IF v >= VETO_LIMIT \/ e >= EXCURSION_LIMIT THEN BASELINE_ONLY
                     ELSE IF v >= VETO_LIMIT \div 2 /\ m = NORMAL THEN RESTRICTED ELSE m

Vetoed(v, in) == IF in.want /\ v < VETO_LIMIT THEN v + 1 ELSE v

Commit(in, reclose, reinstate) ==
    LET grant == Granted(in)
        v == IF reinstate THEN 0 ELSE vetoes
    IN
    /\ vetoes' = IF grant THEN 0 ELSE Vetoed(v, in)
    /\ excursions' = IF reinstate THEN 0
                     ELSE IF Excursion(in.t) THEN Smaller(excursions + 1, EXCURSION_LIMIT)
                     ELSE excursions
    /\ last_seen_ms' = Watermark(IF reinstate THEN None ELSE last_seen_ms, in.t)
    /\ diff_run' = IF in.diff_ok THEN Smaller(diff_run + 1, DWELL_MS) ELSE 0
    /\ latched' = (grant \/ (latched /\ ~reclose))
    /\ grant_times' = IF grant THEN Remember(in.t) ELSE grant_times
    /\ mode' = NextMode(IF reinstate THEN NORMAL ELSE mode, vetoes', excursions')
    /\ reason' = Reason(in)
    /\ granted' = IF grant THEN Append(granted, in.t) ELSE granted
    /\ peak' = IF reinstate THEN vetoes' ELSE Larger(peak, vetoes')

\* One sample.  Reclose and reinstatement are authorised by an operator, not by the model.
Sample(t, want, flaw, level, req, cert, reclose, reinstate) ==
    LET in == [t |-> t, want |-> want, flaw |-> flaw, diff_ok |-> DiffOk(level, req, cert)] IN
    /\ Granted(in) => Len(granted) < Grants
    /\ Commit(in, reclose, reinstate)
    /\ strong' = IF level >= Adaptive THEN Smaller(strong + 1, DWELL_MS) ELSE 0
    /\ sound' = IF /\ want /\ flaw = None /\ ~Excursion(t)
                   /\ level >= Larger(req, Nominal)
                THEN Smaller(sound + 1, DWELL_MS) ELSE 0
    /\ prev' = t /\ leaps' = IF Implausible(t, prev) THEN Smaller(leaps + 1, 2) ELSE leaps
    /\ asked' = (asked \/ want)

Next ==
    \E t \in Times, want \in BOOLEAN, flaw \in Flaws \cup {None}, level \in Levels, req \in Requests,
       cert \in Certs, reclose \in BOOLEAN, reinstate \in BOOLEAN :
          Sample(t, want, flaw, level, req, cert, reclose, reinstate)

Spec == Init /\ [][Next]_vars
-----------------------------------------------------------------------------
(* Correctness                                                             *)

TypeOK ==
    /\ mode \in NORMAL..BASELINE_ONLY /\ latched \in BOOLEAN
    /\ grant_times \in Seq(Times) /\ Len(grant_times) <= MAX_GRANTS
    /\ vetoes \in 0..VETO_LIMIT /\ excursions \in 0..EXCURSION_LIMIT
    /\ last_seen_ms \in Times \cup {None} /\ diff_run \in 0..DWELL_MS
    /\ reason \in {Order[i] : i \in DOMAIN Order} \cup {"start", "grant"}
    /\ granted \in Seq(Times) /\ peak \in 0..VETO_LIMIT /\ strong \in 0..DWELL_MS
    /\ sound \in 0..DWELL_MS /\ prev \in Times \cup {None} /\ leaps \in 0..2 /\ asked \in BOOLEAN

\* I2, "true sliding window": no MAX_GRANTS + 1 grants ever lie within one window, whatever the
\* clock does, steps back and reinstatements with a resynchronised clock included.
RateLimited ==
    \A I \in SUBSET DOMAIN granted :
        Cardinality(I) > MAX_GRANTS => \E i, k \in I : granted[i] - granted[k] >= WINDOW_MS

\* I7, S4 and S5: the mode is the worst record since the last reinstatement.  Trust is never
\* regained otherwise, and only the model's own vetoes, not the clock, restrict it.
ModeIsRecord ==
    mode = IF peak >= VETO_LIMIT \/ excursions >= EXCURSION_LIMIT THEN BASELINE_ONLY
           ELSE IF peak >= VETO_LIMIT \div 2 THEN RESTRICTED ELSE NORMAL

\* I1 and the dwell: a grant follows DWELL_MS consecutive samples above the hard floor, whatever
\* the model asked for and whatever became of the mode and the certificate meanwhile.
PhysicsSustained == [][granted' # granted => strong' = DWELL_MS]_vars

\* The dwell "is a delay and not a veto" (TRANSPARENCY_SUSTAINED): the last of DWELL_MS justified
\* requests is granted, but for the mode, the latch and the rate limit.
Served ==
    [][sound' = DWELL_MS /\ mode # BASELINE_ONLY /\ ~latched /\ ~BudgetSpent(prev')
         => reason' = "grant"]_vars

\* A clock without leaps is never counted as an excursion, also across reinstatements.
RegularClockTrusted == leaps = 0 => excursions = 0

-----------------------------------------------------------------------------
(* What the documents say and the code does not do                         *)

\* "a PTP failover cannot disown a blameless model" (README.md).
FailoverDisownsNobody == leaps <= 1 /\ ~asked => mode # BASELINE_ONLY
=============================================================================
