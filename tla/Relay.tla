-------------------------------- MODULE Relay --------------------------------
(***************************************************************************)
(* The conventional protection of gridsentinel (gs/relay.py): distance     *)
(* zones, swing blocking and line differential over the samples of a line, *)
(* one per millisecond.                                                    *)
(*                                                                         *)
(* The characteristics are nested, so an impedance is reduced to the       *)
(* innermost one it lies in, the differential to the threshold it exceeds. *)
(* An instant the code keeps is kept as the time since, in milliseconds.   *)
(***************************************************************************)
EXTENDS Integers

CONSTANTS
    Z1_CONFIRM_MS, Z2_DELAY_MS, Z3_DELAY_MS, DIFF_CONFIRM_MS,
    SWING_TRANSIT_MS, UNBLOCK_CONFIRM_MS,
    None

Outside == 0   \* of the starter characteristic
Starter == 1
Zone3 == 2
Zone2 == 3
Zone1 == 4

\* Of a differential whose remote end is fresh and authentic; without one it is Balanced.
Balanced == 0
Sensitive == 1   \* above P0_MIN and K_MIN
Insensitive == 2 \* above P0_NOM and K_NOM

Distance == {"21-Z1", "21-Z2", "21-Z3"}
Elements == Distance \cup {"87L"}

ASSUME RelayAssumption ==
    /\ \A ms \in {Z1_CONFIRM_MS, Z2_DELAY_MS, Z3_DELAY_MS, DIFF_CONFIRM_MS, SWING_TRANSIT_MS,
                  UNBLOCK_CONFIRM_MS} : ms \in Nat \ {0}
    /\ None \notin Nat \cup Elements

\* What a sample tells the relay.  Load never lies within zone 1.
Inputs == {in \in [depth : Outside..Zone1, forward : BOOLEAN, load : BOOLEAN,
                   diff : Balanced..Insensitive, jump : BOOLEAN] : in.load => in.depth < Zone1}

VARIABLES
    z1_count, z2_since, z3_since, diff_count, out_since, swing_blocked, unblock_count,
    trip_element,  \* None until the relay trips
    visit,         \* history: time since the impedance entered the starter characteristic
    pace,          \* history: how it came to zone 3 during this visit
    proof,         \* history: consecutive samples of this visit with a fault evident
    vouched,       \* history: they were UNBLOCK_CONFIRM_MS during this visit
    carried,       \* history: the visit before this one ended with a fault evident
    within,        \* history: consecutive unblocked samples in zones 1, 2 and 3
    held,          \* history: consecutive samples in zone 2 with a fault evident
    apart          \* history: consecutive samples with an insensitive differential

timers == <<z1_count, z2_since, z3_since, diff_count, out_since, swing_blocked, unblock_count>>
history == <<visit, pace, proof, vouched, carried, within, held, apart>>
vars == <<timers, trip_element, history>>

Init ==
    /\ z1_count = 0 /\ z2_since = None /\ z3_since = None /\ diff_count = 0
    /\ out_since = None /\ swing_blocked = FALSE /\ unblock_count = 0
    /\ trip_element = None
    /\ visit = None /\ pace = "away" /\ proof = 0
    /\ vouched = FALSE /\ carried = FALSE
    /\ within = [z \in Zone3..Zone1 |-> 0] /\ held = 0 /\ apart = 0

-----------------------------------------------------------------------------
(* Power swings (68)                                                       *)

Smaller(a, b) == IF a < b THEN a ELSE b
\* The time since, now that it is one millisecond later.
Since(since, cap) == IF since = None THEN 0 ELSE Smaller(since + 1, cap)

In(in, zone) == in.forward /\ in.depth >= zone
Evidence(in) == in.diff >= Sensitive \/ in.jump

\* Mutant: a sample without evidence does not start the count again.
CountsAll(in) == IF Evidence(in) THEN Smaller(unblock_count + 1, UNBLOCK_CONFIRM_MS) ELSE unblock_count
Count(in) == IF Evidence(in) THEN Smaller(unblock_count + 1, UNBLOCK_CONFIRM_MS) ELSE 0
Confirmed(in) == Count(in) = UNBLOCK_CONFIRM_MS

Slow(in) == In(in, Zone3) /\ Since(out_since, SWING_TRANSIT_MS) >= SWING_TRANSIT_MS

\* Confirmed evidence lifts the block and has the transit timed anew.
Lift(in) == IF Confirmed(in) THEN None ELSE Since(out_since, SWING_TRANSIT_MS)
Blocked(in) == In(in, Starter) /\ (swing_blocked \/ Slow(in)) /\ ~Confirmed(in)
Swing(in) ==
    /\ swing_blocked' = Blocked(in)
    /\ out_since' = IF In(in, Starter) THEN Lift(in) ELSE None
    /\ unblock_count' = IF In(in, Starter) THEN Count(in) ELSE unblock_count

-----------------------------------------------------------------------------
(* The elements                                                            *)

Enabled(in) == in.forward /\ ~Blocked(in) /\ ~in.load
\* The sample counts for the zone.
Picks(in, zone) == Enabled(in) /\ in.depth >= zone

\* Mutant: a zone that is left keeps its timer.
Kept(in, zone, since, delay) == IF Picks(in, zone) THEN Since(since, delay) ELSE since
Timer(in, zone, since, delay) == IF Picks(in, zone) THEN Since(since, delay) ELSE None
\* The sample that starts the timer never trips.
Elapsed(in, zone, since, delay) == Picks(in, zone) /\ since # None /\ since + 1 >= delay

\* Mutant: the load blinder also holds the differential.
Blinded(in) == IF in.diff = Insensitive /\ ~in.load THEN diff_count + 1 ELSE 0
Differs(in) == IF in.diff = Insensitive THEN diff_count + 1 ELSE 0

\* The elements are looked at in order.
Fires(in) ==
    IF Picks(in, Zone1) /\ z1_count + 1 >= Z1_CONFIRM_MS THEN "21-Z1"
    ELSE IF Elapsed(in, Zone2, z2_since, Z2_DELAY_MS) THEN "21-Z2"
    ELSE IF Elapsed(in, Zone3, z3_since, Z3_DELAY_MS) THEN "21-Z3"
    ELSE IF Differs(in) >= DIFF_CONFIRM_MS THEN "87L"
    ELSE None

\* One that fires leaves the timers of the later ones as they were.
Step(in) ==
    /\ trip_element = None
    /\ Swing(in)
    /\ trip_element' = Fires(in)
    /\ z1_count' = IF Picks(in, Zone1) THEN z1_count + 1 ELSE 0
    /\ z2_since' = IF Fires(in) \in {"21-Z1", "21-Z2"} THEN z2_since ELSE Timer(in, Zone2, z2_since, Z2_DELAY_MS)
    /\ z3_since' = IF Fires(in) \in Distance THEN z3_since ELSE Timer(in, Zone3, z3_since, Z3_DELAY_MS)
    /\ diff_count' = IF Fires(in) \in Distance THEN diff_count ELSE Differs(in)

\* The samples in a row that trip it, the one that starts a timer included.
Patience == [z \in Zone3..Zone1 |-> CASE z = Zone1 -> Z1_CONFIRM_MS
                                       [] z = Zone2 -> Z2_DELAY_MS + 1 [] z = Zone3 -> Z3_DELAY_MS + 1]

\* What happened, told from the samples.
Observe(in) ==
    /\ visit' = IF In(in, Starter) THEN Since(visit, SWING_TRANSIT_MS) ELSE None
    /\ pace' = IF ~In(in, Starter) THEN "away"
               ELSE IF pace \in {"fast", "slow"} THEN pace
               ELSE IF ~In(in, Zone3) THEN "near"
               ELSE IF visit' = SWING_TRANSIT_MS THEN "slow" ELSE "fast"
    /\ proof' = IF In(in, Starter) /\ Evidence(in) THEN Smaller(proof + 1, UNBLOCK_CONFIRM_MS) ELSE 0
    /\ vouched' = (In(in, Starter) /\ (vouched \/ proof' = UNBLOCK_CONFIRM_MS))
    /\ carried' = IF visit # None /\ ~In(in, Starter) THEN proof > 0 ELSE carried
    /\ within' = [z \in Zone3..Zone1 |-> IF In(in, z) /\ ~in.load /\ ~swing_blocked'
                                         THEN Smaller(within[z] + 1, Patience[z]) ELSE 0]
    /\ held' = IF In(in, Zone2) /\ ~in.load /\ Evidence(in)
               THEN Smaller(held + 1, UNBLOCK_CONFIRM_MS + Z2_DELAY_MS) ELSE 0
    /\ apart' = IF in.diff = Insensitive THEN Smaller(apart + 1, DIFF_CONFIRM_MS) ELSE 0

Next == \E in \in Inputs : Step(in) /\ Observe(in)

Spec == Init /\ [][Next]_vars
-----------------------------------------------------------------------------
(* Correctness                                                             *)

Timers(delay) == 0..delay \cup {None}

TypeOK ==
    /\ z1_count \in 0..Z1_CONFIRM_MS /\ diff_count \in 0..DIFF_CONFIRM_MS
    /\ z2_since \in Timers(Z2_DELAY_MS) /\ z3_since \in Timers(Z3_DELAY_MS)
    /\ out_since \in Timers(SWING_TRANSIT_MS) /\ visit \in Timers(SWING_TRANSIT_MS)
    /\ swing_blocked \in BOOLEAN /\ vouched \in BOOLEAN /\ carried \in BOOLEAN
    /\ unblock_count \in 0..UNBLOCK_CONFIRM_MS /\ proof \in 0..UNBLOCK_CONFIRM_MS
    /\ trip_element \in Elements \cup {None}
    /\ pace \in {"away", "near", "fast", "slow"}
    /\ within \in [Zone3..Zone1 -> Nat] /\ held \in Nat /\ apart \in 0..DIFF_CONFIRM_MS

\* Security: a swing, which takes longer to zone 3 than a fault ever could, trips no distance
\* element, unless a fault was evident for UNBLOCK_CONFIRM_MS in a row while it lasted, or the
\* visit before it ended with one; single anomalous samples do not lift the block, however many.
FreshSwingNeverTrips == trip_element \in Distance => ~(pace = "slow" /\ ~vouched /\ ~carried)

\* Dependability: an insensitive differential trips after its confirmation, whatever the load and
\* the swing blocking say, and so does a fault in zone 2 that stays evident, however the impedance
\* got there.
EvidenceTrips ==
    trip_element = None => apart < DIFF_CONFIRM_MS /\ held < UNBLOCK_CONFIRM_MS + Z2_DELAY_MS

\* Every trip follows its whole confirmation without a gap: no timer survives a sample outside
\* the zone, against the direction, under load or under the swing block.
TripsSustained ==
    /\ trip_element = "21-Z1" => within[Zone1] = Patience[Zone1]
    /\ trip_element = "21-Z2" => within[Zone2] = Patience[Zone2]
    /\ trip_element = "21-Z3" => within[Zone3] = Patience[Zone3]
    /\ trip_element = "87L" => apart = DIFF_CONFIRM_MS

-----------------------------------------------------------------------------
(* What comments say and the code does not do                              *)

\* "Both unblock paths are confirmed over a few milliseconds, like every other element here: a
\* single anomalous sample must not be able to lift the block": nor one sample of this swing and
\* those of an earlier visit to the characteristic, which the code's count does not forget.
SwingNeverTrips == trip_element \in Distance => ~(pace = "slow" /\ ~vouched)

\* "Declare a swing only if the transit from the outer characteristic into zone 3 took longer
\* than a fault ever could."
FaultsAreNoSwings == swing_blocked => pace = "slow"
=============================================================================
