---------------------------- MODULE Monitor_proofs ----------------------------
(***************************************************************************)
(* What the reference monitor guarantees for every setting of its limits,  *)
(* every size of its tables, every set of sources and targets, and every   *)
(* clock.                                                                  *)
(***************************************************************************)
EXTENDS Monitor, FiniteSetTheorems, TLAPS

-----------------------------------------------------------------------------
(* Inputs and tables                                                       *)

LEMMA Limits ==
    /\ MAX_GRANTS \in Nat \ {0} /\ WINDOW_MS \in Nat \ {0} /\ VETO_LIMIT \in Nat \ {0, 1}
    /\ CLOCK_FAULT_LIMIT \in Nat \ {0} /\ CLOCK_SKEW_MS \in Nat
    /\ LATCH_SLOTS \in Nat \ {0} /\ REPLAY_SLOTS \in Nat \ {0}
    /\ None \notin Int /\ None \notin AllKinds
BY MonitorAssumption

LEMMA TimesAreNat == Times \subseteq Nat
BY MonitorAssumption DEF Times

LEMMA CallTyped ==
    ASSUME NEW c \in Commands, NEW r \in Reports
    PROVE  /\ r.t \in Times /\ r.t \in Nat /\ r.seq \in Nat \cup {NoSeq}
           /\ c.target \in Targets /\ Assoc(c) \in Associations /\ c.seq \in Nat
           /\ [seq |-> c.seq, nonce |-> c.nonce] \in Frames
           /\ EffectiveKind(c) \in AllKinds
BY MonitorAssumption DEF Times, Targets, Associations, Frames, EffectiveKind, AllKinds, ActuatingKinds

LEMMA NowTyped ==
    ASSUME TypeOK, NEW r \in Reports
    PROVE  MonoNow(r.t) \in Times
<1>1. r.t \in Times /\ last_ms \in Times \cup {None}
  BY DEF Times, TypeOK
<1>2. QED
  BY <1>1 DEF MonoNow

\* A release only takes from a table.
LEMMA ReleaseTakes ==
    ASSUME NEW table, NEW target, NEW reclose \in BOOLEAN, NEW k
    PROVE  /\ Released(table, target, reclose, k) \subseteq table
           /\ table \ {target} \subseteq Released(table, target, reclose, k)
BY DEF Released

\* The latch table stays within its slots.
LEMMA RelatchFits ==
    ASSUME TypeOK, IsFiniteSet(latched), NEW target \in Targets, NEW reclose \in BOOLEAN, NEW k
    PROVE  /\ Relatch(target, reclose, k) \subseteq Targets
           /\ IsFiniteSet(Relatch(target, reclose, k))
           /\ Cardinality(Relatch(target, reclose, k)) <= LATCH_SLOTS
<1> DEFINE cleared == Released(latched, target, reclose, k)
<1>1. cleared \subseteq latched
  BY ReleaseTakes
<1> HIDE DEF cleared
<1>2. latched \subseteq Targets /\ Cardinality(latched) <= LATCH_SLOTS
  BY DEF TypeOK
<1>3. IsFiniteSet(cleared) /\ Cardinality(cleared) <= Cardinality(latched)
  BY <1>1, FS_Subset
<1>4. Cardinality(cleared) \in Nat /\ Cardinality(latched) \in Nat
  BY <1>3, FS_CardinalityType
<1>5. IsFiniteSet(cleared \cup {target}) /\ Cardinality(cleared \cup {target}) <= Cardinality(cleared) + 1
  <2>1. /\ IsFiniteSet(cleared \cup {target})
        /\ Cardinality(cleared \cup {target}) =
             IF target \in cleared THEN Cardinality(cleared) ELSE Cardinality(cleared) + 1
    BY <1>3, FS_AddElement
  <2>2. QED
    BY <1>4, <2>1
<1>6. Cardinality(cleared \cup {target}) \in Nat
  BY <1>5, FS_CardinalityType
<1>7. CASE k = "TRIP" /\ Cardinality(cleared) < LATCH_SLOTS
  <2>1. Relatch(target, reclose, k) = cleared \cup {target}
    BY <1>7 DEF Relatch, cleared
  <2>2. Cardinality(cleared \cup {target}) <= LATCH_SLOTS
    BY <1>4, <1>5, <1>6, <1>7, Limits
  <2>3. cleared \cup {target} \subseteq Targets
    BY <1>1, <1>2
  <2>4. QED
    BY <1>5, <2>1, <2>2, <2>3
<1>8. CASE ~(k = "TRIP" /\ Cardinality(cleared) < LATCH_SLOTS)
  <2>1. Relatch(target, reclose, k) = cleared
    BY <1>8 DEF Relatch, cleared
  <2>2. Cardinality(cleared) <= LATCH_SLOTS
    BY <1>2, <1>3, <1>4, Limits
  <2>3. QED
    BY <1>1, <1>2, <1>3, <2>1, <2>2
<1>9. QED
  BY <1>7, <1>8

\* The replay table stays within its slots, and a fresh frame is always remembered.
LEMMA RememberFits ==
    ASSUME TypeOK, IsFiniteSet(DOMAIN replay), NEW c \in Commands
    PROVE  /\ DOMAIN Remember(c) \subseteq Associations
           /\ IsFiniteSet(DOMAIN Remember(c)) /\ Cardinality(DOMAIN Remember(c)) <= REPLAY_SLOTS
           /\ \A a \in DOMAIN Remember(c) : Remember(c)[a] \in Frames
           /\ Fresh(c) =>
                /\ DOMAIN Remember(c) = DOMAIN replay \cup {Assoc(c)}
                /\ Remember(c)[Assoc(c)].seq = c.seq
                /\ \A a \in DOMAIN replay \ {Assoc(c)} : Remember(c)[a] = replay[a]
<1> DEFINE with == DOMAIN replay \cup {Assoc(c)}
           table == [a \in with |-> IF a = Assoc(c) THEN [seq |-> c.seq, nonce |-> c.nonce] ELSE replay[a]]
<1>1. /\ DOMAIN replay \subseteq Associations /\ Cardinality(DOMAIN replay) <= REPLAY_SLOTS
      /\ \A a \in DOMAIN replay : replay[a] \in Frames
  BY DEF TypeOK
<1>2. Assoc(c) \in Associations /\ [seq |-> c.seq, nonce |-> c.nonce] \in Frames
  BY DEF Associations, Frames
<1>3. CASE Assoc(c) \in DOMAIN replay \/ Cardinality(DOMAIN replay) < REPLAY_SLOTS
  <2>1. Remember(c) = table
    BY <1>3 DEF Remember
  <2>2. IsFiniteSet(with) /\ Cardinality(with) = IF Assoc(c) \in DOMAIN replay THEN Cardinality(DOMAIN replay)
                                                 ELSE Cardinality(DOMAIN replay) + 1
    BY FS_AddElement
  <2>3. Cardinality(DOMAIN replay) \in Nat
    BY FS_CardinalityType
  <2>4. Cardinality(with) <= REPLAY_SLOTS
    <3> HIDE DEF with
    <3>1. QED
      BY <1>1, <1>3, <2>2, <2>3, Limits
  <2>5. DOMAIN table = with /\ \A a \in with : table[a] \in Frames
    BY <1>1, <1>2
  <2>6. /\ table[Assoc(c)].seq = c.seq
        /\ \A a \in DOMAIN replay \ {Assoc(c)} : table[a] = replay[a]
    OBVIOUS
  <2>7. with \subseteq Associations
    BY <1>1, <1>2
  <2> HIDE DEF table
  <2>8. QED
    BY <2>1, <2>2, <2>4, <2>5, <2>6, <2>7
<1>4. CASE ~(Assoc(c) \in DOMAIN replay \/ Cardinality(DOMAIN replay) < REPLAY_SLOTS)
  BY <1>1, <1>4 DEF Remember, Fresh
<1>5. QED
  BY <1>3, <1>4

-----------------------------------------------------------------------------
(* The rate window                                                         *)

\* The window after a grant is the end of the one before with the grant appended.
LEMMA SlideTyped ==
    ASSUME TypeOK, NEW now \in Times
    PROVE  /\ Slide(now) \in Seq(Times)
           /\ Len(Slide(now)) = Smaller(Len(win) + 1, MAX_GRANTS)
           /\ \A i \in 1..Len(Slide(now)) :
                 Slide(now)[i] = Append(win, now)[Len(win) + 1 - Len(Slide(now)) + i]
<1>1. win \in Seq(Times) /\ Len(win) \in Nat /\ Len(win) <= MAX_GRANTS /\ MAX_GRANTS \in Nat \ {0}
  BY Limits DEF TypeOK
<1>2. CASE Len(win) = MAX_GRANTS
  <2>1. Slide(now) = Append(Tail(win), now)
    BY <1>2 DEF Slide
  <2>2. Tail(win) \in Seq(Times) /\ Len(Tail(win)) = Len(win) - 1
        /\ \A i \in 1..(Len(win) - 1) : Tail(win)[i] = win[i + 1]
    BY <1>1, <1>2
  <2>3. Slide(now) \in Seq(Times) /\ Len(Slide(now)) = Len(win)
    BY <1>1, <2>1, <2>2
  <2>4. Smaller(Len(win) + 1, MAX_GRANTS) = Len(win)
    BY <1>1, <1>2 DEF Smaller
  <2>5. ASSUME NEW i \in 1..Len(win) PROVE Slide(now)[i] = Append(win, now)[1 + i]
    <3>1. CASE i = Len(win)
      BY <1>1, <2>1, <2>2, <3>1
    <3>2. CASE i # Len(win)
      <4>1. i \in 1..(Len(win) - 1) /\ 1 + i \in 1..Len(win)
        BY <1>1, <3>2
      <4>2. Slide(now)[i] = Tail(win)[i]
        BY <2>1, <2>2, <4>1
      <4>3. Append(win, now)[1 + i] = win[1 + i]
        BY <1>1, <4>1
      <4>4. QED
        BY <2>2, <4>1, <4>2, <4>3
    <3>3. QED
      BY <3>1, <3>2
  <2>6. Len(win) + 1 - Len(Slide(now)) = 1
    BY <1>1, <2>3
  <2>7. QED
    BY <2>3, <2>4, <2>5, <2>6
<1>3. CASE Len(win) # MAX_GRANTS
  <2>1. Slide(now) = Append(win, now)
    BY <1>3 DEF Slide
  <2>2. Slide(now) \in Seq(Times) /\ Len(Slide(now)) = Len(win) + 1
    BY <1>1, <2>1
  <2>3. Smaller(Len(win) + 1, MAX_GRANTS) = Len(win) + 1 /\ Len(win) + 1 - (Len(win) + 1) = 0
    BY <1>1, <1>3 DEF Smaller
  <2>4. \A i \in 1..(Len(win) + 1) : 0 + i = i
    BY <1>1
  <2>5. QED
    BY <2>1, <2>2, <2>3, <2>4
<1>4. QED
  BY <1>2, <1>3

\* The window is the end of the times all of the actuations that were ever committed ...
Ends(all, last) ==
    /\ Len(last) = Smaller(Len(all), MAX_GRANTS)
    /\ \A i \in 1..Len(last) : last[i] = all[Len(all) - Len(last) + i]

\* ... of which those a multiple of MAX_GRANTS places apart are a window apart, also if an operator
\* has set the clock back in between.
Spaced(all) ==
    \A i \in 1..Len(all), q \in Nat \ {0} :
        i + q * MAX_GRANTS <= Len(all) => all[i + q * MAX_GRANTS] - all[i] >= WINDOW_MS

LEMMA SlideEnds ==
    ASSUME TypeOK, NEW all \in Seq(Times), Ends(all, win), NEW now \in Times
    PROVE  Ends(Append(all, now), Slide(now))
<1> DEFINE n == Len(all)
           g == Len(win)
           L == Len(Slide(now))
           more == Append(all, now)
<1>1. win \in Seq(Times) /\ MAX_GRANTS \in Nat \ {0}
  BY Limits DEF TypeOK
<1>2. n \in Nat /\ g \in Nat /\ g = Smaller(n, MAX_GRANTS) /\ L = Smaller(g + 1, MAX_GRANTS)
  BY <1>1, SlideTyped DEF Ends
<1>3. Len(more) = n + 1 /\ L = Smaller(n + 1, MAX_GRANTS) /\ L <= g + 1 /\ g <= n /\ L \in Nat
  BY <1>1, <1>2 DEF Smaller
<1>4. ASSUME NEW i \in 1..L
      PROVE  Slide(now)[i] = more[n + 1 - L + i]
  <2> DEFINE j == g + 1 - L + i
  <2>1. j \in 1..(g + 1) /\ n - g + j = n + 1 - L + i
    BY <1>2, <1>3
  <2>2. Slide(now)[i] = Append(win, now)[j]
    BY SlideTyped
  <2>3. CASE j = g + 1
    <3>1. Append(win, now)[j] = now
      BY <1>1, <2>3
    <3>2. n + 1 - L + i = n + 1
      BY <1>2, <1>3, <2>3
    <3>3. QED
      BY <2>2, <3>1, <3>2
  <2>4. CASE j # g + 1
    <3>1. j \in 1..g
      BY <1>2, <2>1, <2>4
    <3>2. Append(win, now)[j] = win[j] /\ win[j] = all[n - g + j]
      BY <1>1, <3>1 DEF Ends
    <3>3. n - g + j \in 1..n
      BY <1>2, <1>3, <3>1
    <3>4. more[n - g + j] = all[n - g + j]
      BY <3>3
    <3>5. QED
      BY <2>1, <2>2, <3>2, <3>4
  <2>5. QED
    BY <2>3, <2>4
<1>5. L = Smaller(Len(more), MAX_GRANTS) /\ \A i \in 1..L : Slide(now)[i] = more[Len(more) - L + i]
  <2>1. Len(more) - L = n + 1 - L
    BY <1>3
  <2>2. ASSUME NEW i \in 1..L PROVE Slide(now)[i] = more[Len(more) - L + i]
    <3>1. Slide(now)[i] = more[n + 1 - L + i]
      BY <1>4
    <3> HIDE DEF n, L, more
    <3>2. QED
      BY <2>1, <3>1
  <2> HIDE DEF n, L, more
  <2>3. L = Smaller(Len(more), MAX_GRANTS)
    BY <1>3
  <2>4. QED
    BY <2>2, <2>3
<1>6. QED
  BY <1>5 DEF Ends

LEMMA Multiple ==
    ASSUME NEW M \in Nat \ {0}, NEW q \in Nat \ {0}
    PROVE  q * M \in Nat /\ (q - 1) * M \in Nat /\ q * M = (q - 1) * M + M
BY SMTT(30)

LEMMA GrantSpaced ==
    ASSUME TypeOK, NEW all \in Seq(Times), Ends(all, win), Spaced(all), NEW now \in Times, RateOk(now)
    PROVE  Spaced(Append(all, now))
<1> DEFINE n == Len(all)
           M == MAX_GRANTS
           more == Append(all, now)
<1>1. /\ win \in Seq(Times) /\ M \in Nat \ {0} /\ n \in Nat /\ WINDOW_MS \in Nat
      /\ now \in Nat /\ \A i \in 1..n : all[i] \in Nat
  <2>1. win \in Seq(Times) /\ M \in Nat \ {0} /\ WINDOW_MS \in Nat
    BY Limits DEF TypeOK
  <2>2. n \in Nat /\ now \in Nat /\ \A i \in 1..n : all[i] \in Times
    BY TimesAreNat
  <2>3. QED
    BY <2>1, <2>2, TimesAreNat
<1>2. Len(more) = n + 1 /\ more[n + 1] = now /\ \A i \in 1..n : more[i] = all[i]
  BY <1>1
<1> SUFFICES ASSUME NEW i \in 1..(n + 1), NEW q \in Nat \ {0}, i + q * M <= n + 1
             PROVE  more[i + q * M] - more[i] >= WINDOW_MS
  BY <1>2 DEF Spaced
<1> DEFINE m == q * M
           p == (q - 1) * M
<1>3. m \in Nat /\ p \in Nat /\ m = p + M
  BY <1>1, Multiple
<1>4. i + m <= n + 1 /\ q \in Nat \ {0}
  OBVIOUS
<1>5. CASE i + m <= n
  <2>1. all[i + m] - all[i] >= WINDOW_MS
    BY <1>1, <1>3, <1>5 DEF Spaced
  <2>2. i + m \in 1..n /\ i \in 1..n
    BY <1>1, <1>3, <1>5
  <2>3. QED
    BY <1>2, <2>1, <2>2
<1>6. CASE i + m = n + 1
  <2> HIDE DEF M, n, more, m, p
  <2>1. n >= M /\ n + 1 - M \in 1..n /\ i \in 1..n
    BY <1>1, <1>3, <1>6
  <2>2. Len(win) = M /\ win[1] = all[n + 1 - M]
    <3>1. Len(win) = M
      BY <1>1, <2>1 DEF Ends, Smaller, M, n
    <3>2. 1 \in 1..Len(win) /\ n - M + 1 = n + 1 - M
      BY <1>1, <3>1
    <3>3. QED
      BY <3>1, <3>2 DEF Ends, n
  <2>3. now - all[n + 1 - M] >= WINDOW_MS
    BY <1>1, <2>1, <2>2 DEF RateOk, M
  <2>4. CASE q = 1
    <3>1. p = 0
      BY <1>1, <2>4 DEF p
    <3>2. i = n + 1 - M
      BY <1>1, <1>3, <1>6, <3>1
    <3>3. QED
      BY <1>2, <1>6, <2>1, <2>3, <3>2 DEF m
  <2>5. CASE q # 1
    <3>1. q - 1 \in Nat \ {0}
      BY <2>5
    <3>2. i + p = n + 1 - M
      BY <1>1, <1>3, <1>6
    <3>3. all[i + p] - all[i] >= WINDOW_MS
      <4>1. i + (q - 1) * MAX_GRANTS <= Len(all)
        BY <1>1, <2>1, <3>2 DEF p, M, n
      <4>2. QED
        BY <2>1, <3>1, <4>1 DEF Spaced, p, M, n
    <3>4. all[n + 1 - M] \in Nat /\ all[i] \in Nat
      BY <1>1, <2>1
    <3>5. now - all[i] >= WINDOW_MS
      BY <1>1, <2>3, <3>2, <3>3, <3>4
    <3>6. QED
      BY <1>2, <1>6, <2>1, <3>5 DEF m
  <2>6. QED
    BY <2>4, <2>5
<1>7. i + m <= n \/ i + m = n + 1
  <2> HIDE DEF m, n
  <2>1. QED
    BY <1>1, <1>3, <1>4
<1>8. QED
  BY <1>5, <1>6, <1>7

\* Places with equal remainders are a multiple apart.
LEMMA EqualRemainders ==
    ASSUME NEW M \in Nat \ {0}, NEW a \in Nat, NEW b \in Nat, a < b, a % M = b % M
    PROVE  \E q \in Nat \ {0} : b = a + q * M
<1> DEFINE x == a \div M
           y == b \div M
<1>1. a = M * x + (a % M) /\ x \in Int
  BY SMTT(30)
<1>2. b = M * y + (b % M) /\ y \in Int
  BY SMTT(30)
<1> HIDE DEF x, y
<1>3. b = a + (y - x) * M
  BY <1>1, <1>2, SMTT(30)
<1>4. y - x > 0
  BY <1>1, <1>2, <1>3, SMTT(30)
<1>5. QED
  BY <1>1, <1>2, <1>3, <1>4, SMTT(30)

\* Where each committed actuation stands among all of them.
Committed == {i \in Actuations : ~granted[i].rearmed}
Budget ==
    \E all \in Seq(Times) : \E place \in [Committed -> 1..Len(all)] :
        /\ \A i \in Committed : granted[i].t = all[place[i]]
        /\ \A i, k \in Committed : i # k => place[i] # place[k]
        /\ Ends(all, win) /\ Spaced(all)

\* Among MAX_GRANTS + 1 places two have the same remainder.
LEMMA SpacedLimits ==
    ASSUME TypeOK, Budget
    PROVE  RateLimited
<1> SUFFICES ASSUME NEW I \in SUBSET Committed, Cardinality(I) > MAX_GRANTS
             PROVE  \E i, k \in I : ~(granted[i].t - granted[k].t < WINDOW_MS)
  BY DEF RateLimited, Crowded, Committed
<1>1. PICK all \in Seq(Times) : \E place \in [Committed -> 1..Len(all)] :
        /\ \A i \in Committed : granted[i].t = all[place[i]]
        /\ \A i, k \in Committed : i # k => place[i] # place[k]
        /\ Spaced(all)
  BY DEF Budget
<1>2. PICK place \in [Committed -> 1..Len(all)] :
        /\ \A i \in Committed : granted[i].t = all[place[i]]
        /\ \A i, k \in Committed : i # k => place[i] # place[k]
        /\ Spaced(all)
  BY <1>1
<1>3. MAX_GRANTS \in Nat \ {0} /\ Len(all) \in Nat
  BY Limits
<1>4. IsFiniteSet(I)
  <2>1. granted \in Seq(GrantRecords)
    BY DEF TypeOK
  <2>2. Len(granted) \in Nat /\ I \subseteq 1..Len(granted)
    BY <2>1 DEF Committed, Actuations
  <2>3. IsFiniteSet(1..Len(granted))
    BY <2>2, FS_Interval
  <2>4. QED
    BY <2>2, <2>3, FS_Subset
<1>5. IsFiniteSet(0..(MAX_GRANTS - 1)) /\ Cardinality(0..(MAX_GRANTS - 1)) = MAX_GRANTS
  <2>1. 0 \in Int /\ MAX_GRANTS - 1 \in Int /\ ~(0 > MAX_GRANTS - 1) /\ (MAX_GRANTS - 1) - 0 + 1 = MAX_GRANTS
    BY <1>3
  <2>2. QED
    BY <2>1, FS_Interval
<1> DEFINE f == [i \in I |-> place[i] % MAX_GRANTS]
<1>6. f \in [I -> 0..(MAX_GRANTS - 1)]
  <2>1. ASSUME NEW i \in I PROVE place[i] % MAX_GRANTS \in 0..(MAX_GRANTS - 1)
    <3>1. place[i] \in Nat
      BY <1>3
    <3>2. QED
      BY <1>3, <3>1
  <2>2. QED
    BY <2>1
<1> HIDE DEF f
<1>7. PICK x \in I, y \in I : x # y /\ f[x] = f[y]
  BY <1>4, <1>5, <1>6, FS_PigeonHole
<1>8. ASSUME NEW a \in I, NEW b \in I, place[a] < place[b], f[a] = f[b]
      PROVE  ~(granted[b].t - granted[a].t < WINDOW_MS)
  <2>1. /\ place[a] \in Nat /\ place[b] \in Nat /\ place[a] % MAX_GRANTS = place[b] % MAX_GRANTS
        /\ place[a] \in 1..Len(all) /\ place[b] <= Len(all)
    BY <1>3, <1>8 DEF f
  <2>2. PICK q \in Nat \ {0} : place[b] = place[a] + q * MAX_GRANTS
    BY <1>3, <1>8, <2>1, EqualRemainders
  <2>3. all[place[b]] - all[place[a]] >= WINDOW_MS
    <3>1. all[place[a] + q * MAX_GRANTS] - all[place[a]] >= WINDOW_MS
      BY <1>2, <2>1, <2>2 DEF Spaced
    <3>2. QED
      BY <2>2, <3>1
  <2>4. all[place[b]] \in Nat /\ all[place[a]] \in Nat /\ WINDOW_MS \in Nat
    <3>1. all[place[b]] \in Times /\ all[place[a]] \in Times
      OBVIOUS
    <3>2. QED
      BY <3>1, TimesAreNat, Limits
  <2>5. granted[b].t = all[place[b]] /\ granted[a].t = all[place[a]]
    BY <1>2
  <2>6. QED
    BY <2>3, <2>4, <2>5
<1>9. place[x] \in Int /\ place[y] \in Int /\ place[x] # place[y]
  BY <1>2, <1>3, <1>7
<1>10. QED
  BY <1>7, <1>8, <1>9

-----------------------------------------------------------------------------
(* The inductive invariant                                                 *)

\* What was tripped is latched, and the tables are finite.
Tables == tripped \subseteq latched /\ IsFiniteSet(latched) /\ IsFiniteSet(DOMAIN replay)

\* The replay table knows every association with a committed grant, and its last frame.
FramesKnown ==
    \A i \in DOMAIN granted : ~granted[i].rearmed =>
        /\ granted[i].assoc \in DOMAIN replay
        /\ granted[i].seq <= replay[granted[i].assoc].seq

Inductive == TypeOK /\ Tables /\ FramesKnown /\ FramesOnce /\ Budget

LEMMA InductiveInit == ASSUME Init PROVE Inductive
<1>1. TypeOK
  <2>1. <<>> \in Seq(Times) /\ <<>> \in Seq(GrantRecords) /\ Len(<<>>) = 0
    OBVIOUS
  <2>2. IsFiniteSet({}) /\ Cardinality({}) = 0
    BY FS_EmptySet
  <2>3. DOMAIN <<>> = {}
    OBVIOUS
  <2>4. QED
    BY <2>1, <2>2, <2>3, Limits DEF Init, TypeOK, NORMAL, BASELINE_ONLY
<1>2. Tables
  <2>1. DOMAIN <<>> = {} /\ IsFiniteSet({})
    BY FS_EmptySet
  <2>2. QED
    BY <2>1 DEF Init, Tables
<1>3. FramesKnown /\ FramesOnce
  BY DEF Init, FramesKnown, FramesOnce
<1>4. Budget
  <2>1. Committed = {}
    BY DEF Init, Committed, Actuations
  <2>2. [i \in {} |-> 1] \in [Committed -> 1..Len(<<>>)]
    BY <2>1
  <2>3. Ends(<<>>, win) /\ Spaced(<<>>)
    BY Limits DEF Init, Ends, Spaced, Smaller
  <2>4. <<>> \in Seq(Times)
    OBVIOUS
  <2>5. QED
    BY <2>1, <2>2, <2>3, <2>4 DEF Budget
<1>5. QED
  BY <1>1, <1>2, <1>3, <1>4 DEF Inductive

\* What a call appends to the history.
Record(c, r, rearmed) ==
    [kind |-> EffectiveKind(c), assoc |-> Assoc(c), seq |-> c.seq, t |-> MonoNow(r.t), rearmed |-> rearmed]

LEMMA LogTyped ==
    ASSUME TypeOK, NEW c \in Commands, NEW r \in Reports, NEW rearmed \in BOOLEAN,
           Log(Allowed(c, r), c, r, rearmed)
    PROVE  /\ granted \in Seq(GrantRecords) /\ granted' \in Seq(GrantRecords)
           /\ granted' = IF Allowed(c, r) THEN Append(granted, Record(c, r, rearmed)) ELSE granted
<1>1. Record(c, r, rearmed) \in GrantRecords
  BY CallTyped, NowTyped DEF Record, GrantRecords
<1>2. QED
  BY <1>1 DEF TypeOK, Log, Record

LEMMA TypedReinstate ==
    ASSUME Inductive, NEW c \in Commands, NEW r \in Reports, NEW reclose \in BOOLEAN,
           Reinstate(Allowed(c, r), c, r, reclose)
    PROVE  TypeOK' /\ Tables'
<1> USE DEF Inductive
<1>1. granted' \in Seq(GrantRecords)
  BY LogTyped DEF Reinstate
<1>2. /\ latched' \subseteq Targets /\ IsFiniteSet(latched') /\ Cardinality(latched') <= LATCH_SLOTS
  BY CallTyped, RelatchFits DEF Reinstate, Tables
<1>3. mode' \in NORMAL..BASELINE_ONLY /\ vetoes' \in 0..VETO_LIMIT /\ clock_faults' \in 0..CLOCK_FAULT_LIMIT
  BY Limits DEF Reinstate, NORMAL, BASELINE_ONLY
<1>4. last_ms' \in Times \cup {None}
  BY CallTyped DEF Reinstate
<1>5. tripped' \subseteq latched' /\ tripped' \subseteq Targets
  <2>1. None # "TRIP"
    BY Limits DEF AllKinds, ActuatingKinds
  <2>2. latched' = Released(latched, c.target, reclose, None)
    BY <2>1 DEF Reinstate, Relatch
  <2>3. QED
    BY <1>2, <2>2 DEF Reinstate, Released, Tables
<1>6. QED
  BY <1>1, <1>2, <1>3, <1>4, <1>5 DEF TypeOK, Tables, Reinstate

LEMMA TypedClockFault ==
    ASSUME Inductive, NEW r \in Reports, ClockFault(r)
    PROVE  TypeOK' /\ Tables'
BY Limits DEF Inductive, TypeOK, Tables, ClockFault, Smaller, NORMAL, BASELINE_ONLY

LEMMA TypedMediate ==
    ASSUME Inductive, NEW c \in Commands, NEW r \in Reports, NEW reclose \in BOOLEAN,
           Mediate(Allowed(c, r), c, r, reclose)
    PROVE  TypeOK' /\ Tables'
<1> USE DEF Inductive
<1> DEFINE k == IF Allowed(c, r) THEN EffectiveKind(c) ELSE None
           now == MonoNow(r.t)
<1>1. granted' \in Seq(GrantRecords)
  BY LogTyped DEF Mediate
<1>2. latched' = Relatch(c.target, reclose, k)
  BY DEF Mediate
<1>3. /\ latched' \subseteq Targets /\ IsFiniteSet(latched') /\ Cardinality(latched') <= LATCH_SLOTS
  <2> HIDE DEF k
  <2>1. QED
    BY <1>2, CallTyped, RelatchFits DEF Tables
<1>4. vetoes' \in 0..VETO_LIMIT
  BY Limits DEF Mediate, TypeOK, Vetoed
<1>5. mode' \in NORMAL..BASELINE_ONLY
  BY DEF Mediate, NextMode, TypeOK, NORMAL, RESTRICTED, BASELINE_ONLY
<1>6. now \in Times /\ last_ms' = now
  BY NowTyped DEF Mediate
<1>7. win' \in Seq(Times) /\ Len(win') <= MAX_GRANTS
  <2>1. Slide(now) \in Seq(Times) /\ Len(Slide(now)) <= MAX_GRANTS
    <3>1. Len(win) \in Nat
      BY DEF TypeOK
    <3> HIDE DEF now
    <3>2. QED
      BY <1>6, <3>1, SlideTyped, Limits DEF Smaller
  <2>2. win' = Slide(now) \/ win' = win
    BY DEF Mediate
  <2>3. QED
    BY <2>1, <2>2 DEF TypeOK
<1>8. /\ DOMAIN replay' \subseteq Associations /\ IsFiniteSet(DOMAIN replay')
      /\ Cardinality(DOMAIN replay') <= REPLAY_SLOTS
      /\ \A a \in DOMAIN replay' : replay'[a] \in Frames
  <2>1. replay' = Remember(c) \/ replay' = replay
    BY DEF Mediate
  <2>2. QED
    BY <2>1, RememberFits DEF Tables, TypeOK
<1>9. last_report_seq' \in Nat \cup {NoSeq}
  BY CallTyped DEF Mediate, Larger, TypeOK
<1>10. tripped' \subseteq latched' /\ tripped' \subseteq Targets
  <2> DEFINE cleared == Released(latched, c.target, reclose, k)
  <2>1. tripped' = Released(tripped, c.target, reclose, k) \cup (IF k = "TRIP" THEN {c.target} ELSE {})
    BY DEF Mediate
  <2>2. Released(tripped, c.target, reclose, k) \subseteq cleared
    BY DEF Released, Tables
  <2>3. CASE k # "TRIP"
    BY <1>2, <1>3, <2>1, <2>2, <2>3 DEF Relatch
  <2>4. CASE k = "TRIP"
    <3>1. Allowed(c, r) /\ EffectiveKind(c) = "TRIP"
      BY <2>4, Limits DEF AllKinds, ActuatingKinds
    <3>2. ~(Cardinality(latched) >= LATCH_SLOTS)
      BY <3>1 DEF Allowed, IsLatched
    <3>3. cleared \subseteq latched
      BY ReleaseTakes
    <3>4. Cardinality(cleared) <= Cardinality(latched) /\ IsFiniteSet(cleared)
      <4> HIDE DEF cleared
      <4>1. QED
        BY <3>3, FS_Subset DEF Tables
    <3>5. Cardinality(cleared) < LATCH_SLOTS
      <4>1. Cardinality(cleared) \in Nat /\ Cardinality(latched) \in Nat
        BY <3>4, FS_CardinalityType DEF Tables
      <4>2. QED
        BY <3>2, <3>4, <4>1, Limits
    <3>6. latched' = cleared \cup {c.target}
      BY <1>2, <2>4, <3>5 DEF Relatch
    <3>7. QED
      BY <1>3, <2>1, <2>2, <2>4, <3>6
  <2>5. QED
    BY <2>3, <2>4
<1>11. clock_faults' = clock_faults
  BY DEF Mediate
<1>12. QED
  BY <1>1, <1>3, <1>4, <1>5, <1>6, <1>7, <1>8, <1>9, <1>10, <1>11 DEF TypeOK, Tables

-----------------------------------------------------------------------------
(* A grant in the history                                                  *)

LEMMA FrameSeqs == ASSUME TypeOK, NEW a \in DOMAIN replay PROVE replay[a].seq \in Nat
BY MonitorAssumption DEF TypeOK, Frames

\* The history has grown by the record g.
Grown(g) ==
    /\ Len(granted) \in Nat /\ DOMAIN granted = 1..Len(granted)
    /\ DOMAIN granted' = 1..(Len(granted) + 1) /\ granted'[Len(granted) + 1] = g
    /\ \A i \in DOMAIN granted : granted'[i] = granted[i] /\ granted[i] \in GrantRecords

LEMMA Appended ==
    ASSUME TypeOK, NEW g \in GrantRecords, granted' = Append(granted, g)
    PROVE  Grown(g)
<1>1. granted \in Seq(GrantRecords)
  BY DEF TypeOK
<1>2. QED
  BY <1>1 DEF Grown

LEMMA RecordTyped ==
    ASSUME TypeOK, NEW c \in Commands, NEW r \in Reports, NEW rearmed \in BOOLEAN
    PROVE  /\ Record(c, r, rearmed) \in GrantRecords
           /\ Record(c, r, rearmed).kind = EffectiveKind(c) /\ Record(c, r, rearmed).assoc = Assoc(c)
           /\ Record(c, r, rearmed).seq = c.seq /\ Record(c, r, rearmed).t = MonoNow(r.t)
           /\ Record(c, r, rearmed).rearmed = rearmed
BY CallTyped, NowTyped DEF Record, GrantRecords

\* The frame of a grant is later than those of all committed grants of its association.
LEMMA LaterThanKnown ==
    ASSUME TypeOK, FramesKnown, NEW c \in Commands, Fresh(c),
           NEW i \in DOMAIN granted, ~granted[i].rearmed, granted[i].assoc = Assoc(c)
    PROVE  granted[i].seq < c.seq
<1>1. Assoc(c) \in DOMAIN replay /\ granted[i].seq <= replay[Assoc(c)].seq
  BY DEF FramesKnown
<1>2. c.seq > replay[Assoc(c)].seq
  BY <1>1 DEF Fresh
<1>3. replay[Assoc(c)].seq \in Nat /\ c.seq \in Nat /\ granted[i].seq \in Nat
  <2>1. granted[i] \in GrantRecords
    BY DEF TypeOK
  <2>2. QED
    BY <1>1, <2>1, FrameSeqs, MonitorAssumption DEF GrantRecords
<1>4. QED
  BY <1>1, <1>2, <1>3

LEMMA FramesStep ==
    ASSUME TypeOK, FramesKnown, FramesOnce, NEW c \in Commands, Fresh(c),
           NEW g, Grown(g), g.assoc = Assoc(c), g.seq = c.seq
    PROVE  FramesOnce'
<1> DEFINE n == Len(granted)
<1>1. /\ n \in Nat /\ DOMAIN granted = 1..n /\ DOMAIN granted' = 1..(n + 1) /\ granted'[n + 1] = g
      /\ \A i \in 1..n : granted'[i] = granted[i]
  BY DEF Grown
<1> SUFFICES ASSUME NEW i \in 1..(n + 1), NEW k \in 1..(n + 1), i < k,
                    ~granted'[i].rearmed, granted'[i].assoc = granted'[k].assoc
             PROVE  granted'[i].seq < granted'[k].seq
  BY <1>1 DEF FramesOnce
<1> HIDE DEF n
<1>2. i \in 1..n /\ granted'[i] = granted[i]
  BY <1>1
<1>3. CASE k \in 1..n
  BY <1>1, <1>2, <1>3 DEF FramesOnce
<1>4. CASE k = n + 1
  BY <1>1, <1>2, <1>4, LaterThanKnown
<1>5. QED
  BY <1>1, <1>3, <1>4

LEMMA FramesKnownStep ==
    ASSUME TypeOK, FramesKnown, NEW c \in Commands, Fresh(c),
           NEW g, Grown(g), g.assoc = Assoc(c), g.seq = c.seq,
           DOMAIN replay' = DOMAIN replay \cup {Assoc(c)}, replay'[Assoc(c)].seq = c.seq,
           \A a \in DOMAIN replay \ {Assoc(c)} : replay'[a] = replay[a]
    PROVE  FramesKnown'
<1> DEFINE n == Len(granted)
<1>1. /\ n \in Nat /\ DOMAIN granted = 1..n /\ DOMAIN granted' = 1..(n + 1) /\ granted'[n + 1] = g
      /\ \A i \in 1..n : granted'[i] = granted[i] /\ granted[i] \in GrantRecords
  BY DEF Grown
<1> SUFFICES ASSUME NEW i \in 1..(n + 1), ~granted'[i].rearmed
             PROVE  /\ granted'[i].assoc \in DOMAIN replay'
                    /\ granted'[i].seq <= replay'[granted'[i].assoc].seq
  BY <1>1 DEF FramesKnown
<1> HIDE DEF n
<1>2. c.seq \in Nat
  BY MonitorAssumption
<1>3. CASE i = n + 1
  <2>1. granted'[i].assoc = Assoc(c) /\ granted'[i].seq = c.seq
    BY <1>1, <1>3
  <2>2. QED
    BY <1>2, <2>1
<1>4. CASE i \in 1..n /\ granted[i].assoc = Assoc(c)
  <2>1. granted[i].seq < c.seq /\ granted'[i] = granted[i]
    BY <1>1, <1>4, LaterThanKnown
  <2>2. granted[i].seq \in Nat
    BY <1>1, <1>4 DEF GrantRecords
  <2>3. QED
    BY <1>2, <1>4, <2>1, <2>2
<1>5. CASE i \in 1..n /\ granted[i].assoc # Assoc(c)
  <2>1. granted'[i] = granted[i] /\ i \in DOMAIN granted
    BY <1>1, <1>5
  <2>2. granted[i].assoc \in DOMAIN replay /\ granted[i].seq <= replay[granted[i].assoc].seq
    BY <2>1 DEF FramesKnown
  <2>3. replay'[granted[i].assoc] = replay[granted[i].assoc]
    BY <1>5, <2>2
  <2>4. QED
    BY <2>1, <2>2, <2>3
<1>6. QED
  BY <1>1, <1>3, <1>4, <1>5

\* A grant that is no committed actuation leaves the budget as it is.
LEMMA BudgetKept ==
    ASSUME TypeOK, Budget, NEW g \in GrantRecords, Grown(g),
           g.rearmed \/ g.kind \notin ActuatingKinds, win' = win
    PROVE  Budget'
<1>1. /\ Len(granted) \in Nat /\ DOMAIN granted = 1..Len(granted)
      /\ DOMAIN granted' = 1..(Len(granted) + 1) /\ granted'[Len(granted) + 1] = g
      /\ \A i \in DOMAIN granted : granted'[i] = granted[i]
  BY DEF Grown
<1>2. Committed' = Committed
  BY <1>1 DEF Committed, Actuations
<1>3. \A i \in Committed : granted'[i] = granted[i]
  BY <1>1 DEF Committed, Actuations
<1>4. PICK all \in Seq(Times) : \E place \in [Committed -> 1..Len(all)] :
        /\ \A i \in Committed : granted[i].t = all[place[i]]
        /\ \A i, k \in Committed : i # k => place[i] # place[k]
        /\ Ends(all, win) /\ Spaced(all)
  BY DEF Budget
<1>5. \E place \in [Committed' -> 1..Len(all)] :
        /\ \A i \in Committed' : granted'[i].t = all[place[i]]
        /\ \A i, k \in Committed' : i # k => place[i] # place[k]
        /\ Ends(all, win') /\ Spaced(all)
  BY <1>2, <1>3, <1>4
<1>6. QED
  BY <1>5 DEF Budget

\* A committed actuation takes the next place.
LEMMA BudgetTaken ==
    ASSUME TypeOK, Budget, NEW g \in GrantRecords, Grown(g),
           ~g.rearmed, g.kind \in ActuatingKinds, RateOk(g.t), win' = Slide(g.t)
    PROVE  Budget'
<1>1. /\ Len(granted) \in Nat /\ DOMAIN granted = 1..Len(granted)
      /\ DOMAIN granted' = 1..(Len(granted) + 1) /\ granted'[Len(granted) + 1] = g
      /\ \A i \in DOMAIN granted : granted'[i] = granted[i]
  BY DEF Grown
<1> DEFINE new == Len(granted) + 1
<1>2. Committed' = Committed \cup {new} /\ new \notin Committed
  BY <1>1 DEF Committed, Actuations
<1>3. \A i \in Committed : granted'[i] = granted[i]
  BY <1>1 DEF Committed, Actuations
<1>4. PICK all \in Seq(Times) : \E place \in [Committed -> 1..Len(all)] :
        /\ \A i \in Committed : granted[i].t = all[place[i]]
        /\ \A i, k \in Committed : i # k => place[i] # place[k]
        /\ Ends(all, win) /\ Spaced(all)
  BY DEF Budget
<1>5. PICK place \in [Committed -> 1..Len(all)] :
        /\ \A i \in Committed : granted[i].t = all[place[i]]
        /\ \A i, k \in Committed : i # k => place[i] # place[k]
        /\ Ends(all, win) /\ Spaced(all)
  BY <1>4
<1>6. g.t \in Times
  BY DEF GrantRecords
<1> DEFINE more == Append(all, g.t)
           wider == [i \in Committed \cup {new} |-> IF i = new THEN Len(all) + 1 ELSE place[i]]
<1>7. /\ more \in Seq(Times) /\ Len(more) = Len(all) + 1 /\ Len(all) \in Nat
      /\ more[Len(all) + 1] = g.t /\ \A p \in 1..Len(all) : more[p] = all[p]
  BY <1>6
<1>8. Ends(more, win') /\ Spaced(more)
  BY <1>5, <1>6, SlideEnds, GrantSpaced
<1> HIDE DEF more, new
<1>9. wider \in [Committed' -> 1..Len(more)]
  BY <1>2, <1>7
<1>10. \A i \in Committed' : granted'[i].t = more[wider[i]]
  <2>1. ASSUME NEW i \in Committed PROVE granted'[i].t = more[wider[i]]
    BY <1>2, <1>3, <1>5, <1>7
  <2>2. granted'[new].t = more[wider[new]]
    BY <1>1, <1>7 DEF new
  <2>3. QED
    BY <1>2, <2>1, <2>2
<1>11. \A i, k \in Committed' : i # k => wider[i] # wider[k]
  <2>1. ASSUME NEW i \in Committed PROVE wider[i] = place[i] /\ place[i] \in 1..Len(all)
    BY <1>2
  <2>2. wider[new] = Len(all) + 1
    OBVIOUS
  <2> HIDE DEF wider
  <2>3. \A i \in Committed : wider[i] # wider[new]
    BY <1>7, <2>1, <2>2
  <2>4. QED
    BY <1>2, <1>5, <2>1, <2>3
<1> HIDE DEF wider
<1>12. QED
  BY <1>7, <1>8, <1>9, <1>10, <1>11 DEF Budget

\* A call that grants nothing disturbs neither the frames nor the budget.
LEMMA NothingGranted ==
    ASSUME FramesKnown, FramesOnce, Budget, UNCHANGED <<granted, replay, win>>
    PROVE  FramesKnown' /\ FramesOnce' /\ Budget'
<1>1. FramesKnown' /\ FramesOnce'
  BY DEF FramesKnown, FramesOnce
<1>2. Committed' = Committed
  BY DEF Committed, Actuations
<1>3. Budget'
  BY <1>2 DEF Budget
<1>4. QED
  BY <1>1, <1>3

LEMMA InductiveStep == ASSUME Inductive, [Next]_vars PROVE Inductive'
<1> USE DEF Inductive
<1>1. CASE UNCHANGED vars
  <2>1. TypeOK' /\ Tables'
    BY <1>1 DEF vars, state, TypeOK, Tables
  <2>2. QED
    BY <1>1, <2>1, NothingGranted DEF vars, state
<1>2. ASSUME NEW c \in Commands, NEW r \in Reports, NEW reclose \in BOOLEAN,
             Reinstate(Allowed(c, r), c, r, reclose)
      PROVE  Inductive'
  <2>1. TypeOK' /\ Tables'
    BY <1>2, TypedReinstate
  <2>2. granted' = IF Allowed(c, r) THEN Append(granted, Record(c, r, TRUE)) ELSE granted
    BY <1>2, LogTyped DEF Reinstate
  <2>3. replay' = replay /\ win' = win
    BY <1>2 DEF Reinstate
  <2>4. CASE ~Allowed(c, r)
    BY <2>1, <2>2, <2>3, <2>4, NothingGranted
  <2>5. CASE Allowed(c, r)
    <3> DEFINE g == Record(c, r, TRUE)
    <3>1. g \in GrantRecords /\ g.assoc = Assoc(c) /\ g.seq = c.seq /\ g.rearmed
      BY RecordTyped
    <3>2. Fresh(c)
      BY <2>5 DEF Allowed
    <3>3. granted' = Append(granted, g)
      BY <2>2, <2>5
    <3> HIDE DEF g
    <3>4. Grown(g)
      BY <3>1, <3>3, Appended
    <3>5. FramesOnce'
      BY <3>1, <3>2, <3>4, FramesStep
    <3>6. FramesKnown'
      BY <2>3, <3>1, <3>4 DEF FramesKnown, Grown
    <3>7. Budget'
      BY <2>3, <3>1, <3>4, BudgetKept
    <3>8. QED
      BY <2>1, <3>5, <3>6, <3>7
  <2>6. QED
    BY <2>4, <2>5
<1>3. ASSUME NEW r \in Reports, ClockFault(r) PROVE Inductive'
  <2>1. TypeOK' /\ Tables'
    BY <1>3, TypedClockFault
  <2>2. UNCHANGED <<granted, replay, win>>
    BY <1>3 DEF ClockFault
  <2>3. QED
    BY <2>1, <2>2, NothingGranted
<1>4. ASSUME NEW c \in Commands, NEW r \in Reports, NEW reclose \in BOOLEAN,
             Mediate(Allowed(c, r), c, r, reclose)
      PROVE  Inductive'
  <2>1. TypeOK' /\ Tables'
    BY <1>4, TypedMediate
  <2>2. granted' = IF Allowed(c, r) THEN Append(granted, Record(c, r, FALSE)) ELSE granted
    BY <1>4, LogTyped DEF Mediate
  <2>3. CASE ~Allowed(c, r)
    <3>1. None \notin Budgeted
      BY Limits DEF Budgeted, AllKinds
    <3>2. UNCHANGED <<granted, replay, win>>
      BY <1>4, <2>2, <2>3, <3>1 DEF Mediate
    <3>3. QED
      BY <2>1, <3>2, NothingGranted
  <2>4. CASE Allowed(c, r)
    <3> DEFINE g == Record(c, r, FALSE)
    <3>1. /\ g \in GrantRecords /\ g.kind = EffectiveKind(c) /\ g.assoc = Assoc(c)
          /\ g.seq = c.seq /\ g.t = MonoNow(r.t) /\ ~g.rearmed
      BY RecordTyped
    <3>2. Fresh(c) /\ (g.kind \in ActuatingKinds => RateOk(g.t))
      BY <2>4, <3>1 DEF Allowed
    <3>3. granted' = Append(granted, g)
      BY <2>2, <2>4
    <3>4. win' = IF g.kind \in ActuatingKinds THEN Slide(g.t) ELSE win
      BY <1>4, <2>4, <3>1 DEF Mediate, Budgeted
    <3> HIDE DEF g
    <3>5. Grown(g)
      BY <3>1, <3>3, Appended
    <3>6. /\ DOMAIN replay' = DOMAIN replay \cup {Assoc(c)} /\ replay'[Assoc(c)].seq = c.seq
          /\ \A a \in DOMAIN replay \ {Assoc(c)} : replay'[a] = replay[a]
      <4>1. replay' = Remember(c)
        BY <1>4, <2>4 DEF Mediate
      <4>2. QED
        BY <3>2, <4>1, RememberFits DEF Tables
    <3>7. FramesOnce' /\ FramesKnown'
      BY <3>1, <3>2, <3>5, <3>6, FramesStep, FramesKnownStep
    <3>8. Budget'
      BY <3>1, <3>2, <3>4, <3>5, BudgetKept, BudgetTaken
    <3>9. QED
      BY <2>1, <3>7, <3>8
  <2>5. QED
    BY <2>3, <2>4
<1>5. QED
  BY <1>1, <1>2, <1>3, <1>4 DEF Next, Submit

LEMMA Invariance == Spec => []Inductive
<1>1. Init => Inductive
  BY InductiveInit
<1>2. Inductive /\ [Next]_vars => Inductive'
  BY InductiveStep
<1>3. QED
  BY <1>1, <1>2, PTL DEF Spec
-----------------------------------------------------------------------------
(* Theorems                                                                *)

\* The tables stay within their slots, the window within MAX_GRANTS, the counters within their
\* limits: State and commit of monitor.py.
THEOREM TypeCorrect == Spec => []TypeOK
<1>1. Inductive => TypeOK
  BY DEF Inductive
<1>2. QED
  BY <1>1, Invariance, PTL

\* The actuations of all sources on all targets share one budget, under any clock and for every
\* size of the window (I2, E2), those of reinstating calls aside.
THEOREM RateNeverExceeded == Spec => []RateLimited
<1>1. Inductive => RateLimited
  BY SpacedLimits DEF Inductive
<1>2. QED
  BY <1>1, Invariance, PTL

\* No committed frame of an association is accepted again, nor an older one, for any number of
\* associations and any size of the replay table (E5).
THEOREM NoReplay == Spec => []FramesOnce
<1>1. Inductive => FramesOnce
  BY DEF Inductive
<1>2. QED
  BY <1>1, Invariance, PTL

\* A tripped target is not tripped again before it is released, for any number of targets and any
\* size of the latch table (I3).
THEOREM NoSecondTrip == Spec => TripOnce
<1> DEFINE A == granted' # granted =>
                  LET g == granted'[Len(granted')] IN g.kind = "TRIP" => g.assoc[2] \notin tripped
<1>1. ASSUME Inductive, NEW c \in Commands, NEW r \in Reports, NEW rearmed \in BOOLEAN, Allowed(c, r),
             granted' = Append(granted, Record(c, r, rearmed))
      PROVE  A
  <2>1. granted'[Len(granted')] = Record(c, r, rearmed)
    <3>1. granted \in Seq(GrantRecords)
      BY <1>1 DEF Inductive, TypeOK
    <3>2. QED
      BY <1>1, <3>1
  <2>2. Record(c, r, rearmed).kind = EffectiveKind(c) /\ Record(c, r, rearmed).assoc[2] = c.target
    BY DEF Record, Assoc
  <2>3. EffectiveKind(c) = "TRIP" => c.target \notin latched
    BY <1>1 DEF Allowed, IsLatched
  <2>4. QED
    BY <1>1, <2>1, <2>2, <2>3 DEF Inductive, Tables
<1>2. ASSUME Inductive, [Next]_vars PROVE A
  <2>1. CASE UNCHANGED vars
    BY <2>1 DEF vars
  <2>2. ASSUME NEW c \in Commands, NEW r \in Reports, NEW rearmed \in BOOLEAN, Log(Allowed(c, r), c, r, rearmed)
        PROVE  A
    <3>1. granted' = IF Allowed(c, r) THEN Append(granted, Record(c, r, rearmed)) ELSE granted
      BY <1>2, <2>2, LogTyped DEF Inductive
    <3>2. CASE Allowed(c, r)
      BY <1>1, <1>2, <3>1, <3>2
    <3>3. CASE ~Allowed(c, r)
      BY <3>1, <3>3
    <3>4. QED
      BY <3>2, <3>3
  <2>3. ASSUME NEW r \in Reports, ClockFault(r) PROVE A
    BY <2>3 DEF ClockFault
  <2> HIDE DEF A
  <2>4. ASSUME NEW c \in Commands, NEW r \in Reports, NEW reclose \in BOOLEAN, NEW reinstate \in BOOLEAN,
               Submit(c, r, reclose, reinstate)
        PROVE  A
    <3>1. CASE Reinstate(Allowed(c, r), c, r, reclose)
      BY <2>2, <3>1 DEF Reinstate
    <3>2. CASE Mediate(Allowed(c, r), c, r, reclose)
      BY <2>2, <3>2 DEF Mediate
    <3>3. QED
      BY <2>3, <2>4, <3>1, <3>2 DEF Submit
  <2>5. QED
    BY <1>2, <2>1, <2>4 DEF Next
<1>3. QED
  BY <1>2, Invariance, PTL DEF Spec, TripOnce
===============================================================================
