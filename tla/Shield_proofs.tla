---------------------------- MODULE Shield_proofs ----------------------------
(***************************************************************************)
(* What the shield guarantees for every setting of its limits, every clock *)
(* and every model.                                                        *)
(***************************************************************************)
EXTENDS Shield, FiniteSetTheorems, TLAPS

-----------------------------------------------------------------------------
(* The decision                                                            *)

\* A grant means that no reason to refuse holds.
LEMMA GrantMeans ==
  ASSUME NEW in
  PROVE  Granted(in) <=> /\ in.want /\ mode # BASELINE_ONLY /\ ~latched
                         /\ ~(Excursion(in.t) /\ in.t < last_seen_ms)
                         /\ ~(Excursion(in.t) /\ in.t > last_seen_ms)
                         /\ ~BudgetSpent(in.t) /\ in.flaw \notin Supervision
                         /\ in.diff_ok /\ ~DwellMissing
<1>1. DOMAIN Order = 1..12
  BY DEF Order
<1>2. Granted(in) <=> \A i \in 1..12 : ~Refuses(Order[i], in)
  BY <1>1 DEF Granted
<1>3. Granted(in) <=> /\ ~Refuses("no-request", in) /\ ~Refuses("mode", in) /\ ~Refuses("latched", in)
                      /\ ~Refuses("time-backwards", in) /\ ~Refuses("time-jump", in)
                      /\ ~Refuses("rate", in) /\ ~Refuses("time", in) /\ ~Refuses("remote", in)
                      /\ ~Refuses("local", in) /\ ~Refuses("direction", in)
                      /\ ~Refuses("physics", in) /\ ~Refuses("dwell", in)
  BY <1>2 DEF Order
<1> QED
  BY <1>3 DEF Refuses, Supervision

\* A veto has a first reason.
LEMMA FirstReason ==
  ASSUME NEW S \in SUBSET (1..12), S # {}
  PROVE  \E i \in S : \A k \in 1..(i - 1) : k \notin S
<1> SUFFICES ASSUME \A i \in S : \E k \in 1..(i - 1) : k \in S
             PROVE  FALSE
  OBVIOUS
<1>1. 1 \notin S /\ 2 \notin S /\ 3 \notin S
  OBVIOUS
<1>2. 4 \notin S /\ 5 \notin S /\ 6 \notin S
  BY <1>1
<1>3. 7 \notin S /\ 8 \notin S /\ 9 \notin S
  BY <1>1, <1>2
<1>4. 10 \notin S /\ 11 \notin S /\ 12 \notin S
  BY <1>1, <1>2, <1>3
<1>5. PICK i \in S : TRUE
  OBVIOUS
<1>6. i \in 1..12
  OBVIOUS
<1>7. i \in {1, 2, 3, 4, 5, 6, 7, 8, 9, 10, 11, 12}
  BY <1>6
<1> QED
  BY <1>1, <1>2, <1>3, <1>4, <1>5, <1>7

Reasons == {Order[i] : i \in DOMAIN Order} \cup {"start", "grant"}

LEMMA ReasonKnown == ASSUME NEW in PROVE Reason(in) \in Reasons /\ (Reason(in) = "grant" <=> Granted(in))
<1>1. DOMAIN Order = 1..12 /\ \A i \in 1..12 : Order[i] # "grant"
  BY DEF Order
<1>2. CASE Granted(in)
  BY <1>2 DEF Reason, Reasons
<1>3. CASE ~Granted(in)
  <2> DEFINE S == {i \in 1..12 : Refuses(Order[i], in)}
  <2>1. S # {}
    BY <1>1, <1>3 DEF Granted
  <2>2. \E i \in S : \A k \in 1..(i - 1) : k \notin S
    <3> HIDE DEF S
    <3>1. S \in SUBSET (1..12)
      BY DEF S
    <3> QED
      BY <2>1, <3>1, FirstReason
  <2>3. \E i \in 1..12 : Refuses(Order[i], in) /\ \A k \in 1..(i - 1) : ~Refuses(Order[k], in)
    BY <2>2
  <2>4. PICK j \in 1..12 : Reason(in) = Order[j]
    BY <1>1, <1>3, <2>3 DEF Reason
  <2> QED
    BY <1>1, <1>3, <2>4 DEF Reasons
<1> QED
  BY <1>2, <1>3
-----------------------------------------------------------------------------
(* Types                                                                   *)

LEMMA TypedInit == ASSUME Init PROVE TypeOK
<1>1. <<>> \in Seq(Times) /\ Len(<<>>) = 0
  OBVIOUS
<1>2. mode \in NORMAL..BASELINE_ONLY
  BY DEF Init, NORMAL, BASELINE_ONLY
<1>3. "start" \in {Order[i] : i \in DOMAIN Order} \cup {"start", "grant"}
  OBVIOUS
<1>4. 0 <= MAX_GRANTS /\ 0 \in 0..VETO_LIMIT /\ 0 \in 0..EXCURSION_LIMIT /\ 0 \in 0..DWELL_MS /\ 0 \in 0..2
  BY ShieldAssumption
<1> QED
  BY <1>1, <1>2, <1>3, <1>4, Zenon DEF Init, TypeOK

\* Appending a grant keeps the last MAX_GRANTS of them.
LEMMA RememberTyped ==
  ASSUME TypeOK, NEW t \in Times
  PROVE  /\ Remember(t) \in Seq(Times)
         /\ Len(Remember(t)) = Smaller(Len(grant_times) + 1, MAX_GRANTS)
         /\ \A i \in 1..Len(Remember(t)) :
               Remember(t)[i] = Append(grant_times, t)[Len(grant_times) + 1 - Len(Remember(t)) + i]
<1> DEFINE all == Append(grant_times, t)
<1>1. /\ all \in Seq(Times) /\ Len(all) = Len(grant_times) + 1
      /\ Len(grant_times) \in Nat /\ Len(grant_times) <= MAX_GRANTS /\ MAX_GRANTS \in Nat \ {0}
  <2>1. grant_times \in Seq(Times) /\ Len(grant_times) <= MAX_GRANTS
    BY DEF TypeOK
  <2>2. all \in Seq(Times) /\ Len(all) = Len(grant_times) + 1 /\ Len(grant_times) \in Nat
    BY <2>1
  <2> QED
    BY <2>1, <2>2, ShieldAssumption
<1> HIDE DEF all
<1>2. CASE Len(all) > MAX_GRANTS
  <2>1. /\ Tail(all) \in Seq(Times) /\ Len(Tail(all)) = Len(all) - 1
        /\ \A i \in 1..(Len(all) - 1) : Tail(all)[i] = all[i + 1]
    BY <1>1, <1>2
  <2>2. Remember(t) = Tail(all)
    BY <1>2 DEF Remember, all
  <2>3. Len(all) - 1 = Smaller(Len(grant_times) + 1, MAX_GRANTS) /\ Len(grant_times) + 1 - (Len(all) - 1) = 1
    BY <1>1, <1>2 DEF Smaller
  <2>4. Len(Remember(t)) = Len(all) - 1 /\ Len(grant_times) + 1 - Len(Remember(t)) = 1
    BY <2>1, <2>2, <2>3
  <2>5. ASSUME NEW i \in 1..Len(Remember(t))
        PROVE  Remember(t)[i] = all[Len(grant_times) + 1 - Len(Remember(t)) + i]
    <3>1. Remember(t)[i] = all[i + 1] /\ 1 + i = i + 1
      BY <1>1, <2>1, <2>2, <2>4
    <3> QED
      BY <2>4, <3>1
  <2> QED
    BY <2>1, <2>2, <2>3, <2>4, <2>5 DEF all
<1>3. CASE ~(Len(all) > MAX_GRANTS)
  <2>1. Remember(t) = all
    BY <1>3 DEF Remember, all
  <2>2. Len(all) = Smaller(Len(grant_times) + 1, MAX_GRANTS) /\ Len(grant_times) + 1 - Len(all) = 0
    BY <1>1, <1>3 DEF Smaller
  <2>3. \A i \in 1..Len(all) : 0 + i = i
    BY <1>1
  <2> QED
    BY <1>1, <2>1, <2>2, <2>3 DEF all
<1> QED
  BY <1>2, <1>3

\* What a sample is to the decision.
Input(t, want, flaw, level, req, cert) ==
    [t |-> t, want |-> want, flaw |-> flaw, diff_ok |-> DiffOk(level, req, cert)]

LEMMA TypedStep ==
  ASSUME TypeOK, NEW t \in Times, NEW want \in BOOLEAN, NEW flaw \in Flaws \cup {None},
         NEW level \in Levels, NEW req \in Requests, NEW cert \in Certs,
         NEW reclose \in BOOLEAN, NEW reinstate \in BOOLEAN,
         Sample(t, want, flaw, level, req, cert, reclose, reinstate)
  PROVE  TypeOK'
<1> USE ShieldAssumption
<1> DEFINE in == Input(t, want, flaw, level, req, cert)
           grant == Granted(in)
<1>1. /\ in.t = t /\ in.want = want
      /\ Commit(in, reclose, reinstate)
  BY DEF Sample, Input
<1>2. in.diff_ok \in BOOLEAN
  BY DEF Input, DiffOk
<1> HIDE DEF in
<1>3. vetoes' \in 0..VETO_LIMIT /\ excursions' \in 0..EXCURSION_LIMIT
  BY <1>1 DEF Commit, TypeOK, Vetoed, Smaller
<1>4. mode' \in NORMAL..BASELINE_ONLY /\ latched' \in BOOLEAN
  BY <1>1 DEF Commit, TypeOK, NextMode, NORMAL, RESTRICTED, BASELINE_ONLY
<1>5. last_seen_ms' \in Times \cup {None} /\ diff_run' \in 0..DWELL_MS
  BY <1>1 DEF Commit, TypeOK, Watermark, Smaller
<1>6. grant_times' \in Seq(Times) /\ Len(grant_times') <= MAX_GRANTS
  <2>1. Len(Remember(t)) <= MAX_GRANTS /\ Remember(t) \in Seq(Times)
    <3>1. Len(grant_times) \in Nat /\ Len(grant_times) <= MAX_GRANTS
      BY DEF TypeOK
    <3> QED
      BY <3>1, RememberTyped DEF Smaller
  <2> QED
    BY <1>1, <2>1 DEF Commit, TypeOK
<1>7. granted' \in Seq(Times)
  BY <1>1 DEF Commit, TypeOK
<1>8. peak' \in 0..VETO_LIMIT
  BY <1>1, <1>3 DEF Commit, TypeOK, Larger
<1>9. reason' \in Reasons
  BY <1>1, ReasonKnown DEF Commit
<1>10. strong' \in 0..DWELL_MS /\ sound' \in 0..DWELL_MS
  BY DEF Sample, TypeOK, Smaller, Adaptive
<1>11. prev' \in Times \cup {None} /\ leaps' \in 0..2 /\ asked' \in BOOLEAN
  BY DEF Sample, TypeOK, Smaller
<1> QED
  BY <1>3, <1>4, <1>5, <1>6, <1>7, <1>8, <1>9, <1>10, <1>11 DEF TypeOK, Reasons
-----------------------------------------------------------------------------
(* The rate limit                                                          *)

\* The shield remembers the last MAX_GRANTS grants.
Remembered ==
    /\ Len(grant_times) = Smaller(Len(granted), MAX_GRANTS)
    /\ \A i \in 1..Len(grant_times) : grant_times[i] = granted[Len(granted) - Len(grant_times) + i]

\* Grants that are a multiple of MAX_GRANTS places apart are a window apart, in the order in
\* which they were given; nothing holds of the others when the clock steps back.
Apart ==
    \A i \in 1..Len(granted), q \in Nat \ {0} :
        i + q * MAX_GRANTS <= Len(granted) => granted[i + q * MAX_GRANTS] - granted[i] >= WINDOW_MS

LEMMA GrantRemembered ==
  ASSUME TypeOK, Remembered, NEW t \in Times, granted' = Append(granted, t), grant_times' = Remember(t)
  PROVE  Remembered'
<1> DEFINE n == Len(granted)
           g == Len(grant_times)
           L == Len(Remember(t))
<1>1. granted \in Seq(Times) /\ grant_times \in Seq(Times) /\ MAX_GRANTS \in Nat \ {0}
  BY ShieldAssumption DEF TypeOK
<1>2. n \in Nat /\ g \in Nat /\ g = Smaller(n, MAX_GRANTS) /\ L = Smaller(g + 1, MAX_GRANTS)
  BY <1>1, RememberTyped DEF Remembered
<1>3. Len(granted') = n + 1 /\ L = Smaller(n + 1, MAX_GRANTS) /\ L <= g + 1 /\ g <= n /\ L \in Nat
  BY <1>1, <1>2 DEF Smaller
<1>4. ASSUME NEW i \in 1..L
      PROVE  Remember(t)[i] = Append(granted, t)[n + 1 - L + i]
  <2> DEFINE j == g + 1 - L + i
  <2>1. j \in 1..(g + 1) /\ n - g + j = n + 1 - L + i
    BY <1>2, <1>3
  <2>2. Remember(t)[i] = Append(grant_times, t)[j]
    BY RememberTyped
  <2>3. CASE j = g + 1
    <3>1. Append(grant_times, t)[j] = t
      BY <1>1, <2>3
    <3>2. n + 1 - L + i = n + 1
      BY <1>2, <1>3, <2>3
    <3> QED
      BY <1>1, <2>2, <3>1, <3>2
  <2>4. CASE j # g + 1
    <3>1. j \in 1..g
      BY <1>2, <2>1, <2>4
    <3>2. Append(grant_times, t)[j] = grant_times[j] /\ grant_times[j] = granted[n - g + j]
      BY <1>1, <3>1 DEF Remembered
    <3>3. n - g + j \in 1..n
      BY <1>2, <1>3, <3>1
    <3>4. Append(granted, t)[n - g + j] = granted[n - g + j]
      BY <1>1, <3>3
    <3> QED
      BY <2>1, <2>2, <3>2, <3>4
  <2> QED
    BY <2>3, <2>4
<1>5. Len(grant_times') = L /\ Len(granted') = n + 1
  BY <1>3
<1>6. ASSUME NEW i \in 1..L PROVE grant_times'[i] = granted'[Len(granted') - L + i]
  <2>1. Remember(t)[i] = Append(granted, t)[n + 1 - L + i]
    BY <1>4
  <2>2. grant_times'[i] = Remember(t)[i]
    OBVIOUS
  <2>3. granted'[n + 1 - L + i] = Append(granted, t)[n + 1 - L + i]
    OBVIOUS
  <2>4. Len(granted') - L + i = n + 1 - L + i
    BY <1>5
  <2> HIDE DEF n, L
  <2> QED
    BY <2>1, <2>2, <2>3, <2>4
<1> HIDE DEF n, L
<1> QED
  BY <1>3, <1>5, <1>6 DEF Remembered

\* Facts about a multiple of M.
LEMMA Multiple ==
  ASSUME NEW M \in Nat \ {0}, NEW q \in Nat \ {0}
  PROVE  q * M \in Nat /\ (q - 1) * M \in Nat /\ q * M = (q - 1) * M + M
  BY SMTT(30)

LEMMA GrantApart ==
  ASSUME TypeOK, Remembered, Apart, NEW t \in Times, ~BudgetSpent(t), granted' = Append(granted, t)
  PROVE  Apart'
<1> DEFINE n == Len(granted)
           M == MAX_GRANTS
<1>1. /\ granted \in Seq(Times) /\ grant_times \in Seq(Times) /\ M \in Nat \ {0} /\ n \in Nat
      /\ t \in Nat /\ \A i \in 1..n : granted[i] \in Nat
      /\ WINDOW_MS \in Nat
  <2>1. granted \in Seq(Times) /\ grant_times \in Seq(Times)
    BY DEF TypeOK
  <2>2. Times \subseteq Nat /\ M \in Nat \ {0} /\ WINDOW_MS \in Nat
    BY ShieldAssumption
  <2>3. \A i \in 1..n : granted[i] \in Times
    BY <2>1
  <2>4. n \in Nat /\ t \in Nat
    BY <2>1, <2>2
  <2>5. \A i \in 1..n : granted[i] \in Nat
    BY <2>2, <2>3
  <2> QED
    BY <2>1, <2>2, <2>4, <2>5
<1>2. Len(granted') = n + 1 /\ granted'[n + 1] = t /\ \A i \in 1..n : granted'[i] = granted[i]
  BY <1>1
<1> SUFFICES ASSUME NEW i \in 1..(n + 1), NEW q \in Nat \ {0}, i + q * M <= n + 1
             PROVE  granted'[i + q * M] - granted'[i] >= WINDOW_MS
  BY <1>2 DEF Apart
<1>3. q * M \in Nat /\ q * M >= M /\ i <= n
  <2> DEFINE m == q * M
             p == (q - 1) * M
  <2>1. m \in Nat /\ p \in Nat /\ m = p + M
    BY <1>1, Multiple
  <2>2. M \in Nat /\ M >= 1 /\ n \in Nat /\ i \in 1..(n + 1) /\ i + m <= n + 1
    BY <1>1
  <2> HIDE DEF m, p, M, n
  <2>3. m \in Nat /\ m >= M /\ i <= n
    BY <2>1, <2>2
  <2> QED
    BY <2>3 DEF m
<1> HIDE DEF M, n
<1>4. CASE i + q * M <= n
  <2>1. granted[i + q * M] - granted[i] >= WINDOW_MS
    BY <1>3, <1>4 DEF Apart, M, n
  <2> QED
    BY <1>1, <1>2, <1>3, <1>4, <2>1
<1>5. CASE i + q * M = n + 1
  <2>1. n >= M /\ n + 1 - M \in 1..n
    BY <1>1, <1>3, <1>5, SMTT(30)
  <2>2. Len(grant_times) = M /\ grant_times[1] = granted[n + 1 - M]
    <3>1. Len(grant_times) = M
      BY <1>1, <2>1 DEF Remembered, Smaller, M, n
    <3>2. 1 \in 1..Len(grant_times) /\ n - M + 1 = n + 1 - M
      BY <1>1, <3>1
    <3> QED
      BY <3>1, <3>2 DEF Remembered, n
  <2>3. t - granted[n + 1 - M] >= WINDOW_MS
    BY <1>1, <2>1, <2>2 DEF BudgetSpent, M
  <2>4. CASE q = 1
    <3>1. i = n + 1 - M
      BY <1>1, <1>5, <2>4, SMTT(30)
    <3> QED
      BY <1>2, <1>3, <1>5, <2>3, <3>1
  <2>5. CASE q # 1
    <3>1. q - 1 \in Nat \ {0} /\ (q - 1) * M = q * M - M
      BY <1>1, <2>5, Multiple, SMTT(30)
    <3>2. i + (q - 1) * M = n + 1 - M
      BY <1>1, <1>3, <1>5, <3>1, SMTT(30)
    <3>3. granted[n + 1 - M] - granted[i] >= WINDOW_MS
      BY <1>3, <2>1, <3>1, <3>2 DEF Apart, M, n
    <3>4. granted[n + 1 - M] \in Nat /\ granted[i] \in Nat
      BY <1>1, <1>3, <2>1
    <3>5. t - granted[i] >= WINDOW_MS
      BY <1>1, <2>3, <3>3, <3>4
    <3> QED
      BY <1>2, <1>3, <1>5, <3>5
  <2> QED
    BY <2>4, <2>5
<1>6. i + q * M <= n \/ i + q * M = n + 1
  <2> DEFINE m == q * M
  <2>1. m \in Nat /\ i \in Nat /\ n \in Nat /\ i + m <= n + 1
    BY <1>1, <1>3
  <2> HIDE DEF m
  <2>2. i + m <= n \/ i + m = n + 1
    BY <2>1
  <2> QED
    BY <2>2 DEF m
<1> QED
  BY <1>4, <1>5, <1>6

\* Equal remainders are a multiple apart.
LEMMA EqualRemainders ==
  ASSUME NEW M \in Nat \ {0}, NEW a \in Nat, NEW b \in Nat, a < b, a % M = b % M
  PROVE  \E q \in Nat \ {0} : b = a + q * M
<1> DEFINE x == a \div M
           y == b \div M
<1>1. a = M * x + (a % M) /\ x \in Int
  BY SMTT(30)
<1>2. b = M * y + (b % M) /\ y \in Int
  BY SMTT(30)
<1> HIDE DEF x, y
<1>3. b = a + (y - x) * M
  BY <1>1, <1>2, SMTT(30)
<1>4. y - x > 0
  BY <1>1, <1>2, <1>3, SMTT(30)
<1> QED
  BY <1>1, <1>2, <1>3, <1>4, SMTT(30)

\* Among MAX_GRANTS + 1 grants two have places with the same remainder.
LEMMA ApartLimits == ASSUME TypeOK, Apart PROVE RateLimited
<1> SUFFICES ASSUME NEW I \in SUBSET DOMAIN granted, Cardinality(I) > MAX_GRANTS
             PROVE  \E i, k \in I : granted[i] - granted[k] >= WINDOW_MS
  BY DEF RateLimited
<1> DEFINE f == [i \in I |-> i % MAX_GRANTS]
<1>1. granted \in Seq(Times) /\ MAX_GRANTS \in Nat \ {0}
  BY ShieldAssumption DEF TypeOK
<1>2. Len(granted) \in Nat /\ I \subseteq 1..Len(granted)
  BY <1>1
<1>3. IsFiniteSet(I)
  BY <1>2, FS_Interval, FS_Subset
<1>4. IsFiniteSet(0..(MAX_GRANTS - 1)) /\ Cardinality(0..(MAX_GRANTS - 1)) = MAX_GRANTS
  <2>1. 0 \in Int /\ MAX_GRANTS - 1 \in Int /\ ~(0 > MAX_GRANTS - 1) /\ (MAX_GRANTS - 1) - 0 + 1 = MAX_GRANTS
    BY <1>1
  <2> QED
    BY <2>1, FS_Interval
<1>5. f \in [I -> 0..(MAX_GRANTS - 1)]
  BY <1>1, <1>2
<1> HIDE DEF f
<1>6. PICK x \in I, y \in I : x # y /\ f[x] = f[y]
  BY <1>3, <1>4, <1>5, FS_PigeonHole
<1>7. ASSUME NEW a \in I, NEW b \in I, a < b, f[a] = f[b]
      PROVE  granted[b] - granted[a] >= WINDOW_MS
  <2>1. a \in Nat /\ b \in Nat /\ a % MAX_GRANTS = b % MAX_GRANTS /\ a \in 1..Len(granted) /\ b <= Len(granted)
    BY <1>2, <1>7 DEF f
  <2>2. PICK q \in Nat \ {0} : b = a + q * MAX_GRANTS
    BY <1>1, <1>7, <2>1, EqualRemainders
  <2> QED
    BY <2>1, <2>2 DEF Apart
<1>8. x \in Int /\ y \in Int
  BY <1>2
<1> QED
  BY <1>6, <1>7, <1>8
-----------------------------------------------------------------------------
(* Trust, physics and the clock                                            *)

\* The record covers the present count; a run of justified requests is a run of corroborated
\* samples, and that is one of samples above the floor; without leaps the watermark is the last
\* timestamp.
RecordCovers == vetoes <= peak
RunsNested == sound <= diff_run /\ diff_run <= strong
Followed == leaps = 0 => last_seen_ms = prev /\ excursions = 0

Inductive == /\ TypeOK /\ Remembered /\ Apart
             /\ ModeIsRecord /\ RecordCovers /\ RunsNested /\ Followed

LEMMA Half == VETO_LIMIT \div 2 \in Nat /\ 1 <= VETO_LIMIT \div 2 /\ VETO_LIMIT \div 2 < VETO_LIMIT
  BY ShieldAssumption

LEMMA InductiveInit == ASSUME Init PROVE Inductive
<1>1. TypeOK
  BY TypedInit
<1>2. Len(<<>>) = 0 /\ MAX_GRANTS \in Nat \ {0}
  BY ShieldAssumption
<1>3. Remembered
  BY <1>2 DEF Init, Remembered, Smaller
<1>4. Apart
  <2>1. \A i \in 1..0 : FALSE
    OBVIOUS
  <2> QED
    BY <1>2, <2>1 DEF Init, Apart
<1>5. ModeIsRecord /\ RecordCovers
  BY Half, ShieldAssumption DEF Init, ModeIsRecord, RecordCovers
<1>6. RunsNested /\ Followed
  BY DEF Init, RunsNested, Followed
<1> QED
  BY <1>1, <1>3, <1>4, <1>5, <1>6 DEF Inductive

LEMMA InductiveStep ==
  ASSUME Inductive, NEW t \in Times, NEW want \in BOOLEAN, NEW flaw \in Flaws \cup {None},
         NEW level \in Levels, NEW req \in Requests, NEW cert \in Certs,
         NEW reclose \in BOOLEAN, NEW reinstate \in BOOLEAN,
         Sample(t, want, flaw, level, req, cert, reclose, reinstate)
  PROVE  Inductive'
<1> DEFINE in == Input(t, want, flaw, level, req, cert)
           grant == Granted(in)
           v == IF reinstate THEN 0 ELSE vetoes
           m == IF reinstate THEN NORMAL ELSE mode
           half == VETO_LIMIT \div 2
<1>1. in.t = t /\ in.want = want /\ in.flaw = flaw /\ in.diff_ok = DiffOk(level, req, cert)
  BY DEF Input
<1>2. /\ Commit(in, reclose, reinstate)
      /\ strong' = IF level >= Adaptive THEN Smaller(strong + 1, DWELL_MS) ELSE 0
      /\ sound' = IF /\ want /\ flaw = None /\ ~Excursion(t)
                     /\ level >= Larger(req, Nominal)
                  THEN Smaller(sound + 1, DWELL_MS) ELSE 0
      /\ prev' = t /\ leaps' = IF Implausible(t, prev) THEN Smaller(leaps + 1, 2) ELSE leaps
  BY DEF Sample, Input
<1>3. grant => /\ want /\ mode # BASELINE_ONLY /\ ~(Excursion(t) /\ t < last_seen_ms)
               /\ ~(Excursion(t) /\ t > last_seen_ms) /\ ~BudgetSpent(t)
  BY <1>1, GrantMeans
<1>4. TypeOK'
  BY TypedStep DEF Inductive
<1> HIDE DEF in
<1> USE DEF Inductive
<1>5. Remembered' /\ Apart'
  <2>1. CASE grant
    <3>1. granted' = Append(granted, t) /\ grant_times' = Remember(t)
      BY <1>1, <1>2, <2>1 DEF Commit
    <3> QED
      BY <1>3, <2>1, <3>1, GrantRemembered, GrantApart
  <2>2. CASE ~grant
    <3>1. granted' = granted /\ grant_times' = grant_times
      BY <1>2, <2>2 DEF Commit
    <3> QED
      BY <3>1 DEF Remembered, Apart
  <2> QED
    BY <2>1, <2>2
<1>6. /\ vetoes' = IF grant THEN 0 ELSE IF want /\ v < VETO_LIMIT THEN v + 1 ELSE v
      /\ excursions' = IF reinstate THEN 0
                       ELSE IF Excursion(t) THEN Smaller(excursions + 1, EXCURSION_LIMIT)
                       ELSE excursions
      /\ mode' = NextMode(m, vetoes', excursions')
      /\ peak' = IF reinstate THEN vetoes' ELSE Larger(peak, vetoes')
      /\ last_seen_ms' = Watermark(IF reinstate THEN None ELSE last_seen_ms, t)
      /\ diff_run' = IF in.diff_ok THEN Smaller(diff_run + 1, DWELL_MS) ELSE 0
  BY <1>1, <1>2 DEF Commit, Vetoed
<1>7. /\ mode \in NORMAL..BASELINE_ONLY /\ vetoes \in 0..VETO_LIMIT /\ peak \in 0..VETO_LIMIT
      /\ excursions \in 0..EXCURSION_LIMIT /\ VETO_LIMIT \in Nat /\ EXCURSION_LIMIT \in Nat \ {0}
      /\ half \in Nat /\ 1 <= half /\ half < VETO_LIMIT
  BY Half, ShieldAssumption DEF TypeOK
<1> HIDE DEF grant, half
<1>8. RecordCovers'
  BY <1>6, <1>7 DEF RecordCovers, Larger
<1>9. ModeIsRecord'
  <2>1. mode = IF peak >= VETO_LIMIT \/ excursions >= EXCURSION_LIMIT THEN BASELINE_ONLY
               ELSE IF peak >= half THEN RESTRICTED ELSE NORMAL
    BY DEF ModeIsRecord, half
  <2>2. mode' = IF vetoes' >= VETO_LIMIT \/ excursions' >= EXCURSION_LIMIT THEN BASELINE_ONLY
                ELSE IF vetoes' >= half /\ m = NORMAL THEN RESTRICTED ELSE m
    BY <1>6 DEF NextMode, half
  <2>3. mode' = IF peak' >= VETO_LIMIT \/ excursions' >= EXCURSION_LIMIT THEN BASELINE_ONLY
                ELSE IF peak' >= half THEN RESTRICTED ELSE NORMAL
    <3>1. CASE reinstate
      BY <1>6, <1>7, <2>2, <3>1 DEF NORMAL, RESTRICTED, BASELINE_ONLY
    <3>2. CASE ~reinstate
      <4>1. excursions >= EXCURSION_LIMIT => excursions' >= EXCURSION_LIMIT
        BY <1>6, <1>7, <3>2 DEF Smaller
      <4>2. vetoes' \in Nat /\ peak' = (IF peak > vetoes' THEN peak ELSE vetoes')
        BY <1>6, <1>7, <3>2 DEF Larger
      <4> QED
        BY <1>7, <2>1, <2>2, <3>2, <4>1, <4>2 DEF NORMAL, RESTRICTED, BASELINE_ONLY
    <3> QED
      BY <3>1, <3>2
  <2> QED
    BY <2>3 DEF ModeIsRecord, half
<1>10. RunsNested'
  <2>1. /\ sound \in Nat /\ diff_run \in Nat /\ strong \in Nat /\ DWELL_MS \in Nat
        /\ level \in Nat /\ req \in Nat
    BY ShieldAssumption DEF TypeOK
  <2>2. in.diff_ok => level >= Adaptive
    <3>1. DiffOk(level, req, cert) => level >= Adaptive
      BY <2>1 DEF DiffOk, Larger, Floor, Adaptive, Nominal
    <3> QED
      BY <1>1, <3>1, Zenon
  <2>3. level >= Larger(req, Nominal) => in.diff_ok
    <3>1. level >= Larger(req, Nominal) => DiffOk(level, req, cert)
      BY <2>1 DEF DiffOk, Larger, Floor, Adaptive, Nominal
    <3> QED
      BY <1>1, <3>1, Zenon
  <2>4. diff_run' <= strong'
    <3>1. CASE in.diff_ok
      <4>1. diff_run' = Smaller(diff_run + 1, DWELL_MS) /\ strong' = Smaller(strong + 1, DWELL_MS)
        BY <1>2, <1>6, <2>2, <3>1
      <4> QED
        BY <2>1, <4>1 DEF RunsNested, Smaller
    <3>2. CASE ~in.diff_ok
      <4>1. diff_run' = 0 /\ strong' \in Nat
        BY <1>2, <1>6, <2>1, <3>2 DEF Smaller
      <4> QED
        BY <4>1
    <3> QED
      BY <3>1, <3>2
  <2>5. sound' <= diff_run'
    <3>1. CASE level >= Larger(req, Nominal) /\ in.diff_ok
      <4>1. /\ diff_run' = Smaller(diff_run + 1, DWELL_MS)
            /\ sound' = Smaller(sound + 1, DWELL_MS) \/ sound' = 0
        BY <1>2, <1>6, <3>1
      <4> QED
        BY <2>1, <4>1 DEF RunsNested, Smaller
    <3>2. CASE ~(level >= Larger(req, Nominal))
      <4>1. sound' = 0
        BY <1>2, <3>2
      <4>2. CASE in.diff_ok
        BY <1>6, <2>1, <4>1, <4>2 DEF Smaller
      <4>3. CASE ~in.diff_ok
        BY <1>6, <4>1, <4>3
      <4> QED
        BY <4>2, <4>3
    <3> QED
      BY <2>3, <3>1, <3>2
  <2> QED
    BY <2>4, <2>5 DEF RunsNested
<1>11. Followed'
  <2> SUFFICES ASSUME leaps' = 0 PROVE last_seen_ms' = t /\ excursions' = 0
    BY <1>2 DEF Followed
  <2>1. leaps \in Nat /\ Times \subseteq Nat /\ None \notin Nat /\ MAX_CLOCK_STEP_MS \in Nat
        /\ last_seen_ms \in Times \cup {None}
    BY ShieldAssumption DEF TypeOK
  <2>2. leaps = 0 /\ ~Implausible(t, prev)
    BY <1>2, <2>1 DEF Smaller
  <2>3. last_seen_ms = prev /\ excursions = 0 /\ ~Excursion(t)
    BY <2>2 DEF Followed, Excursion
  <2>4. excursions' = 0
    BY <1>6, <2>3
  <2>5. last_seen_ms' = t
    BY <1>6, <2>1, <2>3 DEF Watermark, Excursion, Implausible
  <2> QED
    BY <2>4, <2>5
<1> QED
  BY <1>4, <1>5, <1>8, <1>9, <1>10, <1>11

LEMMA InductiveNext == ASSUME Inductive, [Next]_vars PROVE Inductive'
<1>1. CASE Next
  BY <1>1, InductiveStep DEF Next
<1>2. CASE UNCHANGED vars
  <2>1. TypeOK'
    BY <1>2 DEF Inductive, TypeOK, vars, state
  <2>2. Remembered' /\ Apart'
    BY <1>2 DEF Inductive, Remembered, Apart, vars, state
  <2>3. (ModeIsRecord /\ RecordCovers /\ RunsNested /\ Followed)'
    BY <1>2 DEF Inductive, ModeIsRecord, RecordCovers, RunsNested, Followed, vars, state
  <2> QED
    BY <2>1, <2>2, <2>3 DEF Inductive
<1> QED
  BY <1>1, <1>2

LEMMA Invariant == Spec => []Inductive
  BY InductiveInit, InductiveNext, PTL DEF Spec
-----------------------------------------------------------------------------
(* The theorems                                                            *)

\* Every counter of the shield stays within its limit, whatever it is fed.
THEOREM TypeCorrect == Spec => []TypeOK
<1>1. Inductive => TypeOK
  BY DEF Inductive
<1> QED
  BY <1>1, Invariant, PTL

\* More accelerated trips than the limit never fall within one window (I2), although the shield
\* remembers only the last of them and the clock may do anything.
THEOREM RateNeverExceeded == Spec => []RateLimited
<1>1. Inductive => RateLimited
  BY ApartLimits DEF Inductive
<1> QED
  BY <1>1, Invariant, PTL

\* The mode is the worst record since the last reinstatement (I7, S4, S5).
THEOREM ModeIsEarned == Spec => []ModeIsRecord
<1>1. Inductive => ModeIsRecord
  BY DEF Inductive
<1> QED
  BY <1>1, Invariant, PTL

\* A clock without leaps is never held against the model.
THEOREM ClockTrusted == Spec => []RegularClockTrusted
<1>1. Inductive => RegularClockTrusted
  BY DEF Inductive, Followed, RegularClockTrusted
<1> QED
  BY <1>1, Invariant, PTL

\* Every grant follows a full dwell of samples above the hard floor (I1).
THEOREM GrantNeedsPhysics == Spec => PhysicsSustained
<1>1. ASSUME Inductive, [Next]_vars
      PROVE  [granted' # granted => strong' = DWELL_MS]_vars
  <2> SUFFICES ASSUME Next, granted' # granted PROVE strong' = DWELL_MS
    BY <1>1
  <2>1. PICK t \in Times, want \in BOOLEAN, flaw \in Flaws \cup {None}, level \in Levels,
             req \in Requests, cert \in Certs, reclose \in BOOLEAN, reinstate \in BOOLEAN :
                Sample(t, want, flaw, level, req, cert, reclose, reinstate)
    BY DEF Next
  <2> DEFINE in == Input(t, want, flaw, level, req, cert)
  <2>2. /\ Commit(in, reclose, reinstate)
        /\ strong' = IF level >= Adaptive THEN Smaller(strong + 1, DWELL_MS) ELSE 0
    BY <2>1 DEF Sample, Input
  <2>3. Granted(in)
    BY <2>2 DEF Commit
  <2>4. in.diff_ok = DiffOk(level, req, cert)
    BY DEF Input
  <2> HIDE DEF in
  <2>5. in.diff_ok /\ ~DwellMissing
    BY <2>3, GrantMeans
  <2>6. DiffOk(level, req, cert)
    BY <2>4, <2>5, Zenon
  <2>7. diff_run \in Nat /\ strong \in Nat /\ diff_run <= strong /\ DWELL_MS \in Nat /\ strong <= DWELL_MS
        /\ level \in Nat /\ req \in Nat /\ sound \in Nat
    BY <1>1, ShieldAssumption DEF Inductive, TypeOK, RunsNested
  <2>8. level >= Adaptive
    BY <2>6, <2>7 DEF DiffOk, Larger, Floor, Adaptive, Nominal
  <2> QED
    BY <2>2, <2>5, <2>7, <2>8 DEF DwellMissing, Smaller
<1> QED
  BY <1>1, Invariant, PTL DEF Spec, PhysicsSustained

\* A justified request that lasted for the dwell is granted, but for the mode, the latch and the
\* rate limit: the dwell is a delay, not a veto (TRANSPARENCY_SUSTAINED).
THEOREM DwellIsDelay == Spec => Served
<1>1. ASSUME Inductive, [Next]_vars
      PROVE  [sound' = DWELL_MS /\ mode # BASELINE_ONLY /\ ~latched /\ ~BudgetSpent(prev')
                => reason' = "grant"]_vars
  <2> SUFFICES ASSUME Next, sound' = DWELL_MS, mode # BASELINE_ONLY, ~latched, ~BudgetSpent(prev')
               PROVE  reason' = "grant"
    BY <1>1
  <2>1. PICK t \in Times, want \in BOOLEAN, flaw \in Flaws \cup {None}, level \in Levels,
             req \in Requests, cert \in Certs, reclose \in BOOLEAN, reinstate \in BOOLEAN :
                Sample(t, want, flaw, level, req, cert, reclose, reinstate)
    BY DEF Next
  <2> DEFINE in == Input(t, want, flaw, level, req, cert)
             justified == want /\ flaw = None /\ ~Excursion(t) /\ level >= Larger(req, Nominal)
  <2>2. /\ Commit(in, reclose, reinstate) /\ prev' = t
        /\ sound' = IF justified THEN Smaller(sound + 1, DWELL_MS) ELSE 0
    BY <2>1 DEF Sample, Input
  <2>3. reason' = Reason(in)
    BY <2>2 DEF Commit
  <2>4. in.t = t /\ in.want = want /\ in.flaw = flaw /\ in.diff_ok = DiffOk(level, req, cert)
    BY DEF Input
  <2> HIDE DEF in
  <2>5. /\ diff_run \in Nat /\ sound \in Nat /\ sound <= diff_run /\ DWELL_MS \in Nat \ {0}
        /\ level \in Nat /\ req \in Nat /\ None \notin Supervision
    BY <1>1, ShieldAssumption DEF Inductive, TypeOK, RunsNested
  <2>6. justified
    BY <2>2, <2>5
  <2>7. ~DwellMissing
    BY <2>2, <2>5, <2>6 DEF DwellMissing, Smaller
  <2>8. DiffOk(level, req, cert)
    BY <2>5, <2>6 DEF DiffOk, Larger, Floor, Adaptive, Nominal
  <2>9. in.diff_ok /\ in.want
    BY <2>4, <2>6, <2>8, Zenon
  <2>10. Granted(in)
    BY <2>2, <2>4, <2>5, <2>6, <2>7, <2>9, GrantMeans
  <2> QED
    BY <2>3, <2>10, ReasonKnown
<1> QED
  BY <1>1, Invariant, PTL DEF Spec, Served
=============================================================================
