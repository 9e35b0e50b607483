---------------------------- MODULE Relay_proofs ----------------------------
(***************************************************************************)
(* Theorems about Relay, for every choice of its delays.                   *)
(***************************************************************************)
EXTENDS Relay, TLAPS

USE DEF Outside, Starter, Zone3, Zone2, Zone1, Balanced, Sensitive, Insensitive

\* The count exceeds the evidence of the visit by what the visits before it left, and the next
\* sample without evidence drops both.
Counts ==
    /\ proof <= unblock_count
    /\ visit = None => proof = 0
    /\ visit # None /\ proof = 0 => unblock_count = 0
    /\ ~carried => unblock_count = IF visit = None THEN 0 ELSE proof

\* What the relay remembers of a visit is what the samples say, as long as nothing vouched for a
\* fault and nothing was left of the visits before it.
Visits ==
    /\ pace = "away" => visit = None /\ out_since = None
    /\ ~vouched /\ ~carried => out_since = visit
    /\ pace = "slow" /\ ~vouched /\ ~carried => swing_blocked

\* Until it trips, the timers are the lengths of the runs of samples they stand for.
TimersExact ==
    trip_element = None =>
        /\ z1_count = within[Zone1] /\ within[Zone1] < Z1_CONFIRM_MS
        /\ within[Zone2] <= Z2_DELAY_MS /\ z2_since = IF within[Zone2] = 0 THEN None ELSE within[Zone2] - 1
        /\ within[Zone3] <= Z3_DELAY_MS /\ z3_since = IF within[Zone3] = 0 THEN None ELSE within[Zone3] - 1
        /\ diff_count = apart /\ apart < DIFF_CONFIRM_MS

\* Evidence held for its confirmation has lifted the block, and zone 2 has been timed since.
HeldTimed ==
    trip_element = None =>
        /\ held <= proof \/ proof = UNBLOCK_CONFIRM_MS
        /\ held >= UNBLOCK_CONFIRM_MS => within[Zone2] > held - UNBLOCK_CONFIRM_MS

IInv == TypeOK /\ Counts /\ Visits /\ TimersExact /\ HeldTimed /\ FreshSwingNeverTrips /\ TripsSustained

-----------------------------------------------------------------------------
LEMMA Constants ==
    /\ Z1_CONFIRM_MS \in Nat \ {0} /\ Z2_DELAY_MS \in Nat \ {0} /\ Z3_DELAY_MS \in Nat \ {0}
    /\ DIFF_CONFIRM_MS \in Nat \ {0} /\ SWING_TRANSIT_MS \in Nat \ {0} /\ UNBLOCK_CONFIRM_MS \in Nat \ {0}
    /\ None \notin Nat /\ None \notin {"21-Z1", "21-Z2", "21-Z3", "87L"}
<1>1. \A ms \in {Z1_CONFIRM_MS, Z2_DELAY_MS, Z3_DELAY_MS, DIFF_CONFIRM_MS, SWING_TRANSIT_MS,
                 UNBLOCK_CONFIRM_MS} : ms \in Nat \ {0}
  BY RelayAssumption
<1>2. None \notin Nat /\ None \notin {"21-Z1", "21-Z2", "21-Z3", "87L"}
  BY RelayAssumption DEF Elements, Distance
<1>3. QED
  BY <1>1, <1>2

LEMMA SinceType ==
    ASSUME NEW cap \in Nat, NEW since \in 0..cap \cup {None}
    PROVE  Since(since, cap) \in 0..cap
BY Constants DEF Since, Smaller

\* The timer of a zone counts the samples of an unblocked run in it.
LEMMA InputType ==
    ASSUME NEW in \in Inputs
    PROVE  /\ in.depth \in 0..4 /\ in.forward \in BOOLEAN /\ in.load \in BOOLEAN
           /\ in.diff \in 0..2 /\ in.jump \in BOOLEAN
BY DEF Inputs

LEMMA CountType ==
    ASSUME NEW in \in Inputs, TypeOK
    PROVE  Count(in) \in 0..UNBLOCK_CONFIRM_MS
BY Constants DEF Count, Smaller, TypeOK

\* What a sample does to the counts of evidence.
LEMMA CountStep ==
    ASSUME TypeOK, Counts, NEW in \in Inputs, Swing(in), Observe(in)
    PROVE  /\ Counts'
           /\ In(in, Starter) /\ proof' = UNBLOCK_CONFIRM_MS => Confirmed(in)
           /\ In(in, Starter) /\ Confirmed(in) /\ ~carried => proof' = UNBLOCK_CONFIRM_MS
<1>1. /\ proof \in Nat /\ unblock_count \in Nat /\ unblock_count <= UNBLOCK_CONFIRM_MS
      /\ proof <= UNBLOCK_CONFIRM_MS
  BY Constants DEF TypeOK
<1>2. CASE ~In(in, Starter)
  <2>1. visit' = None /\ proof' = 0 /\ unblock_count' = unblock_count
    BY <1>2 DEF Swing, Observe
  <2>2. ASSUME ~carried' PROVE unblock_count' = 0
    <3>1. CASE visit = None
      BY <1>2, <2>1, <2>2, <3>1 DEF Observe, Counts
    <3>2. CASE visit # None
      <4>1. ~(proof > 0)
        BY <1>2, <2>2, <3>2 DEF Observe
      <4>2. QED
        BY <1>1, <2>1, <3>2, <4>1 DEF Counts
    <3>3. QED
      BY <3>1, <3>2
  <2>3. QED
    BY <1>1, <1>2, <2>1, <2>2 DEF Counts
<1>3. CASE In(in, Starter)
  <2>1. unblock_count' = Count(in) /\ carried' = carried
    BY <1>3 DEF Swing, Observe
  <2>2. visit' # None
    <3>1. visit' = Since(visit, SWING_TRANSIT_MS) /\ visit \in 0..SWING_TRANSIT_MS \cup {None}
      BY <1>3 DEF Observe, TypeOK, Timers
    <3>2. visit' \in 0..SWING_TRANSIT_MS
      BY <3>1, SinceType, Constants
    <3>3. QED
      BY <3>2, Constants
  <2>3. CASE Evidence(in)
    <3>1. /\ proof' = Smaller(proof + 1, UNBLOCK_CONFIRM_MS)
          /\ Count(in) = Smaller(unblock_count + 1, UNBLOCK_CONFIRM_MS)
      BY <1>3, <2>3 DEF Observe, Count
    <3>2. proof <= unblock_count /\ (~carried => unblock_count = proof)
      BY <1>1 DEF Counts
    <3>3. proof' <= Count(in) /\ proof' # 0 /\ Count(in) <= UNBLOCK_CONFIRM_MS
      BY <1>1, <3>1, <3>2, Constants DEF Smaller
    <3>4. ~carried => Count(in) = proof'
      BY <3>1, <3>2
    <3>5. Counts'
      BY <2>1, <2>2, <3>3, <3>4 DEF Counts
    <3>6. proof' = UNBLOCK_CONFIRM_MS => Count(in) = UNBLOCK_CONFIRM_MS
      BY <1>1, <3>1, <3>2, Constants DEF Smaller
    <3>7. QED
      BY <3>4, <3>5, <3>6 DEF Confirmed
  <2>4. CASE ~Evidence(in)
    <3>1. proof' = 0 /\ Count(in) = 0
      BY <2>4 DEF Observe, Count
    <3>2. QED
      BY <2>1, <2>2, <3>1, Constants DEF Counts, Confirmed
  <2>5. QED
    BY <2>3, <2>4
<1>4. QED
  BY <1>2, <1>3

\* What a sample does to the visit.
LEMMA VisitStep ==
    ASSUME TypeOK, Counts, Visits, NEW in \in Inputs, Swing(in), Observe(in)
    PROVE  Visits'
<1>1. CASE ~In(in, Starter)
  BY <1>1 DEF Swing, Observe, Visits
<1>2. CASE In(in, Starter)
  <2>1. pace' # "away" /\ carried' = carried
    BY <1>2 DEF Observe
  <2>2. ASSUME ~vouched', ~carried'
        PROVE  /\ out_since' = visit' /\ visit' = Since(out_since, SWING_TRANSIT_MS)
               /\ ~vouched /\ ~carried /\ ~Confirmed(in)
    <3>1. ~vouched /\ ~carried /\ ~Confirmed(in)
      <4>1. ~vouched /\ proof' # UNBLOCK_CONFIRM_MS
        BY <1>2, <2>2 DEF Observe
      <4>2. ~carried
        BY <2>1, <2>2
      <4>3. QED
        BY <1>2, <4>1, <4>2, CountStep
    <3>2. QED
      BY <1>2, <3>1 DEF Swing, Observe, Visits, Lift
  <2>3. ASSUME pace' = "slow", ~vouched', ~carried'
        PROVE  swing_blocked'
    <3>1. CASE pace = "slow"
      BY <1>2, <2>2, <2>3, <3>1 DEF Swing, Visits, Blocked
    <3>2. CASE pace # "slow"
      <4>1. In(in, Zone3) /\ visit' = SWING_TRANSIT_MS
        BY <1>2, <2>3, <3>2 DEF Observe
      <4>2. Slow(in)
        BY <4>1, <2>2, <2>3, Constants DEF Slow
      <4>3. QED
        BY <1>2, <2>2, <2>3, <4>2 DEF Swing, Blocked
    <3>3. QED
      BY <3>1, <3>2
  <2>4. QED
    BY <2>1, <2>2, <2>3 DEF Visits
<1>3. QED
  BY <1>1, <1>2

\* A sample lengthens the run of a zone exactly if the zone picks it.
LEMMA RunStep ==
    ASSUME NEW in \in Inputs, Swing(in), Observe(in), NEW z \in Zone3..Zone1
    PROVE  within'[z] = IF Picks(in, z) THEN Smaller(within[z] + 1, Patience[z]) ELSE 0
<1>1. within'[z] = IF In(in, z) /\ ~in.load /\ ~swing_blocked'
                   THEN Smaller(within[z] + 1, Patience[z]) ELSE 0
  BY DEF Observe
<1>2. Picks(in, z) <=> In(in, z) /\ ~in.load /\ ~swing_blocked'
  BY InputType DEF Picks, Enabled, In, Swing
<1>3. QED
  BY <1>1, <1>2

LEMMA PatienceIs ==
    /\ Patience[Zone1] = Z1_CONFIRM_MS /\ Patience[Zone2] = Z2_DELAY_MS + 1
    /\ Patience[Zone3] = Z3_DELAY_MS + 1
    /\ \A z \in Zone3..Zone1 : Patience[z] \in Nat
BY Constants DEF Patience

LEMMA FiresType ==
    ASSUME NEW in \in Inputs
    PROVE  Fires(in) \in Elements \cup {None}
BY DEF Fires, Elements, Distance
-----------------------------------------------------------------------------
LEMMA TypeInit == Init => TypeOK
<1> SUFFICES ASSUME Init PROVE TypeOK
  OBVIOUS
<1>1. within \in [Zone3..Zone1 -> Nat]
  BY DEF Init
<1>2. None \in Timers(Z2_DELAY_MS) /\ None \in Timers(Z3_DELAY_MS) /\ None \in Timers(SWING_TRANSIT_MS)
  BY DEF Timers
<1>3. /\ z1_count \in 0..Z1_CONFIRM_MS /\ diff_count \in 0..DIFF_CONFIRM_MS /\ apart \in 0..DIFF_CONFIRM_MS
      /\ unblock_count \in 0..UNBLOCK_CONFIRM_MS /\ proof \in 0..UNBLOCK_CONFIRM_MS /\ held \in Nat
  BY Constants DEF Init
<1>4. /\ z2_since \in Timers(Z2_DELAY_MS) /\ z3_since \in Timers(Z3_DELAY_MS)
      /\ out_since \in Timers(SWING_TRANSIT_MS) /\ visit \in Timers(SWING_TRANSIT_MS)
  BY <1>2 DEF Init
<1>5. trip_element \in Elements \cup {None}
  BY DEF Init
<1>6. /\ swing_blocked \in BOOLEAN /\ vouched \in BOOLEAN /\ carried \in BOOLEAN
      /\ pace \in {"away", "near", "fast", "slow"}
  BY DEF Init
<1>7. QED
  BY <1>1, <1>3, <1>4, <1>5, <1>6 DEF TypeOK

LEMMA TypeStep ==
    ASSUME TypeOK, TimersExact, NEW in \in Inputs, Step(in), Observe(in)
    PROVE  TypeOK'
<1>1. /\ out_since' \in Timers(SWING_TRANSIT_MS) /\ visit' \in Timers(SWING_TRANSIT_MS)
      /\ z2_since' \in Timers(Z2_DELAY_MS) /\ z3_since' \in Timers(Z3_DELAY_MS)
  <2>1. \A since \in Timers(SWING_TRANSIT_MS) : Since(since, SWING_TRANSIT_MS) \in Timers(SWING_TRANSIT_MS)
    BY SinceType, Constants DEF Timers
  <2>2. out_since' \in Timers(SWING_TRANSIT_MS) /\ visit' \in Timers(SWING_TRANSIT_MS)
    BY <2>1 DEF TypeOK, Step, Swing, Observe, Timers, Lift
  <2>3. z2_since' \in Timers(Z2_DELAY_MS) /\ z3_since' \in Timers(Z3_DELAY_MS)
    <3>1. /\ Timer(in, Zone2, z2_since, Z2_DELAY_MS) \in Timers(Z2_DELAY_MS)
          /\ Timer(in, Zone3, z3_since, Z3_DELAY_MS) \in Timers(Z3_DELAY_MS)
      BY SinceType, Constants DEF Timer, Timers, TypeOK
    <3>2. QED
      BY <3>1 DEF Step, TypeOK
  <2>4. QED
    BY <2>2, <2>3
<1>2. unblock_count' \in 0..UNBLOCK_CONFIRM_MS /\ proof' \in 0..UNBLOCK_CONFIRM_MS
  BY CountType, Constants DEF TypeOK, Step, Swing, Observe, Smaller
<1>3. swing_blocked' \in BOOLEAN /\ vouched' \in BOOLEAN /\ carried' \in BOOLEAN
  <2>1. swing_blocked' \in BOOLEAN /\ vouched' \in BOOLEAN
    BY InputType DEF TypeOK, Step, Swing, Observe, Blocked, In, Slow, Confirmed
  <2>2. (proof > 0) \in BOOLEAN /\ carried \in BOOLEAN
    BY Constants DEF TypeOK
  <2>3. carried' \in BOOLEAN
    BY <2>2 DEF Observe
  <2>4. QED
    BY <2>1, <2>3
<1>4. /\ z1_count' \in 0..Z1_CONFIRM_MS /\ diff_count' \in 0..DIFF_CONFIRM_MS
      /\ apart' \in 0..DIFF_CONFIRM_MS
  BY Constants DEF TypeOK, Step, TimersExact, Observe, Differs, Smaller
<1>5. pace' \in {"away", "near", "fast", "slow"}
  BY DEF TypeOK, Observe
<1>6. trip_element' \in Elements \cup {None}
  BY FiresType DEF Step
<1>7. within' \in [Zone3..Zone1 -> Nat] /\ held' \in Nat
  BY Constants, PatienceIs DEF TypeOK, Observe, Smaller
<1>8. QED
  BY <1>1, <1>2, <1>3, <1>4, <1>5, <1>6, <1>7 DEF TypeOK

LEMMA TimersStep ==
    ASSUME TypeOK, TimersExact, NEW in \in Inputs, Step(in), Observe(in)
    PROVE  TimersExact' /\ TripsSustained'
<1> DEFINE Run(z) == IF Picks(in, z) THEN Smaller(within[z] + 1, Patience[z]) ELSE 0
<1>1. within'[Zone1] = Run(Zone1) /\ within'[Zone2] = Run(Zone2) /\ within'[Zone3] = Run(Zone3)
  BY RunStep DEF Step
<1>2. trip_element' = Fires(in) /\ trip_element = None
  BY DEF Step
<1>3. /\ z1_count = within[Zone1] /\ within[Zone1] < Z1_CONFIRM_MS
      /\ within[Zone2] <= Z2_DELAY_MS /\ z2_since = IF within[Zone2] = 0 THEN None ELSE within[Zone2] - 1
      /\ within[Zone3] <= Z3_DELAY_MS /\ z3_since = IF within[Zone3] = 0 THEN None ELSE within[Zone3] - 1
      /\ diff_count = apart /\ apart < DIFF_CONFIRM_MS
  BY <1>2 DEF TimersExact
<1>4. /\ within[Zone1] \in Nat /\ within[Zone2] \in Nat /\ within[Zone3] \in Nat /\ apart \in Nat
  BY DEF TypeOK
<1>5. CASE trip_element' = None
  <2>1. /\ ~(Picks(in, Zone1) /\ z1_count + 1 >= Z1_CONFIRM_MS)
        /\ ~Elapsed(in, Zone2, z2_since, Z2_DELAY_MS) /\ ~Elapsed(in, Zone3, z3_since, Z3_DELAY_MS)
        /\ ~(Differs(in) >= DIFF_CONFIRM_MS)
    BY <1>2, <1>5, Constants DEF Fires
  <2>2. /\ z2_since' = Timer(in, Zone2, z2_since, Z2_DELAY_MS)
        /\ z3_since' = Timer(in, Zone3, z3_since, Z3_DELAY_MS) /\ diff_count' = Differs(in)
    BY <1>2, <1>5, Constants DEF Step, Distance
  <2>3. z1_count' = within'[Zone1] /\ within'[Zone1] < Z1_CONFIRM_MS
    BY <1>1, <1>3, <1>4, <2>1, PatienceIs, Constants DEF Step, Smaller
  <2>4. within'[Zone2] <= Z2_DELAY_MS /\ z2_since' = IF within'[Zone2] = 0 THEN None ELSE within'[Zone2] - 1
    BY <1>1, <1>3, <1>4, <2>1, <2>2, PatienceIs, Constants DEF Timer, Elapsed, Since, Smaller
  <2>5. within'[Zone3] <= Z3_DELAY_MS /\ z3_since' = IF within'[Zone3] = 0 THEN None ELSE within'[Zone3] - 1
    BY <1>1, <1>3, <1>4, <2>1, <2>2, PatienceIs, Constants DEF Timer, Elapsed, Since, Smaller
  <2>6. diff_count' = apart' /\ apart' < DIFF_CONFIRM_MS
    BY <1>3, <1>4, <2>1, <2>2, Constants DEF Differs, Observe, Smaller
  <2>7. QED
    BY <1>5, <2>3, <2>4, <2>5, <2>6, Constants DEF TimersExact, TripsSustained
<1>6. CASE trip_element' # None
  <2>1. ASSUME trip_element' = "21-Z1" PROVE within'[Zone1] = Patience[Zone1]
    <3>1. Picks(in, Zone1) /\ z1_count + 1 >= Z1_CONFIRM_MS
      BY <1>2, <2>1, Constants DEF Fires
    <3>2. QED
      BY <1>1, <1>3, <1>4, <3>1, PatienceIs, Constants DEF Smaller
  <2>2. ASSUME trip_element' = "21-Z2" PROVE within'[Zone2] = Patience[Zone2]
    <3>1. Elapsed(in, Zone2, z2_since, Z2_DELAY_MS)
      BY <1>2, <2>2, Constants DEF Fires
    <3>2. QED
      BY <1>1, <1>3, <1>4, <3>1, PatienceIs, Constants DEF Smaller, Elapsed
  <2>3. ASSUME trip_element' = "21-Z3" PROVE within'[Zone3] = Patience[Zone3]
    <3>1. Elapsed(in, Zone3, z3_since, Z3_DELAY_MS)
      BY <1>2, <2>3, Constants DEF Fires
    <3>2. QED
      BY <1>1, <1>3, <1>4, <3>1, PatienceIs, Constants DEF Smaller, Elapsed
  <2>4. ASSUME trip_element' = "87L" PROVE apart' = DIFF_CONFIRM_MS
    <3>1. Differs(in) >= DIFF_CONFIRM_MS
      BY <1>2, <2>4, Constants DEF Fires
    <3>2. QED
      BY <1>3, <1>4, <3>1, Constants DEF Differs, Observe, Smaller
  <2>5. QED
    BY <1>6, <2>1, <2>2, <2>3, <2>4 DEF TimersExact, TripsSustained
<1>7. QED
  BY <1>5, <1>6

\* A slow visit that nothing vouches for and nothing was left to is blocked, so no zone picks its
\* samples.
LEMMA SwingStep ==
    ASSUME TypeOK, Counts, Visits, NEW in \in Inputs, Step(in), Observe(in)
    PROVE  FreshSwingNeverTrips'
<1> SUFFICES ASSUME pace' = "slow", ~vouched', ~carried'
             PROVE  trip_element' \notin Distance
  BY DEF FreshSwingNeverTrips
<1>1. swing_blocked'
  BY VisitStep DEF Step, Visits
<1>2. \A z \in Zone3..Zone1 : ~Picks(in, z)
  BY <1>1 DEF Picks, Enabled, Step, Swing
<1>3. Fires(in) \in {"87L", None}
  BY <1>2 DEF Fires, Elapsed
<1>4. QED
  BY <1>3, Constants DEF Step, Distance

\* Evidence held for its confirmation keeps the block away and zone 2 timed.
LEMMA HeldStep ==
    ASSUME TypeOK, Counts, HeldTimed, TimersExact, NEW in \in Inputs, Step(in), Observe(in)
    PROVE  HeldTimed'
<1>1. held \in Nat /\ proof \in 0..UNBLOCK_CONFIRM_MS /\ within[Zone2] \in Nat
  BY DEF TypeOK
<1>2. /\ held <= proof \/ proof = UNBLOCK_CONFIRM_MS
      /\ held >= UNBLOCK_CONFIRM_MS => within[Zone2] > held - UNBLOCK_CONFIRM_MS
      /\ within[Zone2] <= Z2_DELAY_MS
  BY DEF HeldTimed, TimersExact, Step
<1>3. CASE In(in, Zone2) /\ ~in.load /\ Evidence(in)
  <2>1. held' = Smaller(held + 1, UNBLOCK_CONFIRM_MS + Z2_DELAY_MS)
    BY <1>3 DEF Observe
  <2>2. In(in, Starter) /\ proof' = Smaller(proof + 1, UNBLOCK_CONFIRM_MS)
    BY <1>3, InputType DEF Observe, In
  <2>3. held' <= proof' \/ proof' = UNBLOCK_CONFIRM_MS
    BY <1>1, <1>2, <2>1, <2>2, Constants DEF Smaller
  <2>4. ASSUME held' >= UNBLOCK_CONFIRM_MS
        PROVE  within'[Zone2] > held' - UNBLOCK_CONFIRM_MS
    <3>1. proof' = UNBLOCK_CONFIRM_MS
      <4>1. held + 1 >= UNBLOCK_CONFIRM_MS
        BY <1>1, <2>1, <2>4, Constants DEF Smaller
      <4>2. QED
        BY <1>1, <1>2, <2>2, <4>1, Constants DEF Smaller
    <3>2. Confirmed(in)
      BY <3>1, <2>2, CountStep DEF Step
    <3>3. Picks(in, Zone2)
      BY <1>3, <3>2 DEF Picks, Enabled, Blocked, In
    <3>4. within'[Zone2] = within[Zone2] + 1
      BY <1>1, <1>2, <3>3, RunStep, PatienceIs, Constants DEF Smaller, Step
    <3>5. QED
      BY <1>1, <1>2, <2>1, <2>4, <3>4, Constants DEF Smaller
  <2>5. QED
    BY <2>3, <2>4 DEF HeldTimed
<1>4. CASE ~(In(in, Zone2) /\ ~in.load /\ Evidence(in))
  <2>1. held' = 0 /\ proof' \in Nat
    BY <1>1, <1>4, Constants DEF Observe, Smaller
  <2>2. QED
    BY <2>1, Constants DEF HeldTimed
<1>5. QED
  BY <1>3, <1>4

-----------------------------------------------------------------------------
LEMMA InvInit == Init => IInv
<1> SUFFICES ASSUME Init PROVE IInv
  OBVIOUS
<1>1. Counts /\ Visits /\ FreshSwingNeverTrips /\ HeldTimed
  BY Constants DEF Init, Counts, Visits, FreshSwingNeverTrips, HeldTimed
<1>2. TimersExact /\ TripsSustained
  BY Constants DEF Init, TimersExact, TripsSustained
<1>3. QED
  BY <1>1, <1>2, TypeInit DEF IInv

LEMMA InvStep == IInv /\ [Next]_vars => IInv'
<1> SUFFICES ASSUME IInv, [Next]_vars PROVE IInv'
  OBVIOUS
<1>1. ASSUME NEW in \in Inputs, Step(in), Observe(in)
      PROVE  IInv'
  <2>1. TypeOK' /\ TimersExact' /\ TripsSustained' /\ HeldTimed' /\ FreshSwingNeverTrips'
    BY <1>1, TypeStep, TimersStep, HeldStep, SwingStep DEF IInv
  <2>2. Counts' /\ Visits'
    BY <1>1, CountStep, VisitStep DEF IInv, Step
  <2>3. QED
    BY <2>1, <2>2 DEF IInv
<1>2. CASE UNCHANGED vars
  BY <1>2 DEF vars, timers, history, IInv, TypeOK, Timers, Counts, Visits, TimersExact,
              HeldTimed, FreshSwingNeverTrips, TripsSustained
<1>3. QED
  BY <1>1, <1>2 DEF Next

LEMMA InvHolds == Spec => []IInv
<1>1. Init => IInv
  BY InvInit
<1>2. IInv /\ [Next]_vars => IInv'
  BY InvStep
<1>3. QED
  BY <1>1, <1>2, PTL DEF Spec

\* Whatever the samples, the counts and timers of the relay stay within their delays.
THEOREM TypeCorrect == Spec => []TypeOK
<1>1. IInv => TypeOK
  BY DEF IInv
<1>2. QED
  BY <1>1, InvHolds, PTL

\* No distance element of BaselineRelay trips on a power swing without UNBLOCK_CONFIRM_MS consecutive
\* samples of that very visit with a fault evident, unless the visit before it ended with evidence.
THEOREM SwingsBlocked == Spec => []FreshSwingNeverTrips
<1>1. IInv => FreshSwingNeverTrips
  BY DEF IInv
<1>2. QED
  BY <1>1, InvHolds, PTL

\* Every trip of BaselineRelay follows its whole, unbroken confirmation.
THEOREM Confirmations == Spec => []TripsSustained
<1>1. IInv => TripsSustained
  BY DEF IInv
<1>2. QED
  BY <1>1, InvHolds, PTL

\* A sustained differential and a fault in zone 2 that stays evident always trip BaselineRelay.
THEOREM Dependable == Spec => []EvidenceTrips
<1>1. IInv => EvidenceTrips
  <2> SUFFICES ASSUME IInv, trip_element = None
               PROVE  apart < DIFF_CONFIRM_MS /\ held < UNBLOCK_CONFIRM_MS + Z2_DELAY_MS
    BY DEF EvidenceTrips
  <2>1. /\ held \in Nat /\ within[Zone2] \in Nat /\ apart < DIFF_CONFIRM_MS /\ within[Zone2] <= Z2_DELAY_MS
        /\ held >= UNBLOCK_CONFIRM_MS => within[Zone2] > held - UNBLOCK_CONFIRM_MS
    BY DEF IInv, TypeOK, TimersExact, HeldTimed
  <2>2. QED
    BY <2>1, Constants
<1>2. QED
  BY <1>1, InvHolds, PTL
=============================================================================
