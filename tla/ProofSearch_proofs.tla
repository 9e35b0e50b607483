------------------------- MODULE ProofSearch_proofs -------------------------
(***************************************************************************)
(* What the budget of the prover agent guarantees for every number of jobs *)
(* and workers, every limit and every interleaving of the calls.           *)
(***************************************************************************)
EXTENDS ProofSearch, FiniteSetTheorems, TLAPS

-----------------------------------------------------------------------------
(* Types                                                                   *)

\* Money is promised to a job only while a call of it is under way, and what is to be written
\* back comes from a snapshot.
Promising == /\ \A j \in Jobs : pc[j] \in {"queued", "reserve", "done"} => cap[j] = 0
             /\ \A j \in Jobs : pc[j] \in {"backup", "writeback"} /\ changed[j] # {} => before[j] # None

Typed == TypeOK /\ Promising

LEMMA TypedInit == ASSUME Init PROVE Typed
  BY ProofSearchAssumption
  DEF Init, Typed, TypeOK, Promising, Points, Outcomes, Replies

LEMMA AmountPromised ==
  ASSUME TypeOK, ~Refused, Amount # 0
  PROVE  Amount \in Nat /\ (Limit # None => Amount <= Limit - spent - reserved)
  BY ProofSearchAssumption DEF TypeOK, Refused, Amount, Least

LEMMA TypedNext == ASSUME Typed, [Next]_vars PROVE Typed'
<1> USE ProofSearchAssumption
<1> SUFFICES ASSUME Typed, Next PROVE Typed'
  BY DEF Typed, TypeOK, Promising, vars, workerVars, budgetVars, rootVars
<1> USE DEF Typed, TypeOK, Promising, Points, Outcomes, Replies, Goto, Finish,
            workerVars, budgetVars, rootVars
<1>1. ASSUME NEW j \in Jobs, Begin(j) PROVE Typed'
  <2>1. /\ pc' \in [Jobs -> Points] /\ attempt' \in [Jobs -> 0..(Attempts + 1)]
        /\ outcome' \in [Jobs -> Outcomes]
        /\ \A i \in Jobs : pc'[i] # pc[i] => pc[i] = "queued" /\ pc'[i] \in {"reserve", "done"}
    <3>1. CASE Finish(j, "PROVED") /\ UNCHANGED attempt
      BY <1>1, <3>1 DEF Begin
    <3>2. CASE /\ IF Attempts = 0 THEN Finish(j, "FAILED") ELSE Goto(j, "reserve") /\ UNCHANGED outcome
               /\ attempt' = [attempt EXCEPT ![j] = 1]
      <4>1. attempt' \in [Jobs -> 0..(Attempts + 1)]
        BY <3>2
      <4>2. pc[j] = "queued"
        BY <1>1 DEF Begin
      <4>3. CASE Attempts = 0
        BY <3>2, <4>1, <4>2, <4>3
      <4>4. CASE Attempts # 0
        BY <3>2, <4>1, <4>2, <4>4
      <4> QED
        BY <4>3, <4>4
    <3> QED
      BY <1>1, <3>1, <3>2 DEF Begin
  <2>2. Promising'
    BY <1>1, <2>1 DEF Begin
  <2> QED
    BY <1>1, <2>1, <2>2 DEF Begin
<1>2. ASSUME NEW j \in Jobs, Reserve(j) PROVE Typed'
  <2>1. CASE Refused \/ Amount = 0
    <3>1. /\ Finish(j, "BUDGET") /\ UNCHANGED <<cap, reserved>>
          /\ UNCHANGED <<attempt, call, before, changed, spent, real, leaked, over, rootVars, cached>>
          /\ pc[j] = "reserve"
      BY <1>2, <2>1 DEF Reserve
    <3> QED
      BY <3>1
  <2>2. CASE ~Refused /\ Amount # 0
    <3>1. Amount \in Nat
      BY <2>2, AmountPromised
    <3>2. /\ reserved' = reserved + Amount /\ cap' = [cap EXCEPT ![j] = Amount]
          /\ Goto(j, "launch") /\ UNCHANGED outcome
          /\ UNCHANGED <<attempt, call, before, changed, spent, real, leaked, over, rootVars, cached>>
      BY <1>2, <2>2 DEF Reserve
    <3> QED
      BY <3>1, <3>2
  <2> QED
    BY <2>1, <2>2
<1>3. ASSUME NEW j \in Jobs, NoAgent(j) PROVE Typed'
  BY <1>3 DEF NoAgent
<1>4. ASSUME NEW j \in Jobs, Launch(j) PROVE Typed'
  BY <1>4 DEF Launch
<1>5. ASSUME NEW j \in Jobs, Answer(j) PROVE Typed'
  <2>1. PICK r \in Replies \ {"none"}, cost \in Nat :
           /\ call' = [call EXCEPT ![j] = [reply |-> r,
                                           cost |-> IF r \in {"timeout", "error"} THEN 0 ELSE cost]]
           /\ real' = real + cost
    <3>1. PICK r \in Replies \ {"none"} : \E p \in Printed(cap[j]) : \E cost \in 0..p :
             /\ call' = [call EXCEPT ![j] = [reply |-> r,
                                             cost |-> IF r \in {"timeout", "error"} THEN 0 ELSE cost]]
             /\ real' = real + cost
      BY <1>5 DEF Answer
    <3>2. \A p \in Printed(cap[j]) : 0..p \subseteq Nat
      BY DEF Printed
    <3> QED
      BY <3>1, <3>2
  <2>2. call' \in [Jobs -> [reply : Replies, cost : Nat]] /\ real' \in Nat
    <3>1. (IF r \in {"timeout", "error"} THEN 0 ELSE cost) \in Nat
      OBVIOUS
    <3> DEFINE answer == [reply |-> r, cost |-> IF r \in {"timeout", "error"} THEN 0 ELSE cost]
    <3>2. answer \in [reply : Replies, cost : Nat]
      BY <3>1
    <3> HIDE DEF answer
    <3> QED
      BY <2>1, <3>2 DEF answer
  <2>3. pc' \in [Jobs -> Points] /\ tampered' \subseteq Jobs
    BY <1>5 DEF Answer
  <2>4. Promising'
    BY <1>5, <2>3 DEF Answer
  <2> QED
    BY <1>5, <2>2, <2>3, <2>4 DEF Answer
<1>6. ASSUME NEW j \in Jobs, Inspect(j) PROVE Typed'
  BY <1>6 DEF Inspect, Inspected, Differing
<1>7. ASSUME NEW j \in Jobs, Backup(j) PROVE Typed'
  BY <1>7 DEF Backup
<1>8. ASSUME NEW j \in Jobs, WriteBack(j) PROVE Typed'
  <2>1. ASSUME NEW f \in changed[j] PROVE before[j][f] \in Contents
    BY <1>8, <2>1 DEF WriteBack
  <2>2. root' \in [Files -> Contents]
    BY <1>8, <2>1 DEF WriteBack
  <2> QED
    BY <1>8, <2>2 DEF WriteBack
<1>9. ASSUME NEW j \in Jobs, Conclude(j) PROVE Typed'
  <2>1. reserved' \in Nat /\ spent' \in Nat /\ over' \in Nat
    BY <1>9 DEF Conclude, Released
  <2>2. /\ pc' \in [Jobs -> Points] /\ attempt' \in [Jobs -> 0..(Attempts + 1)]
        /\ outcome' \in [Jobs -> Outcomes] /\ cached' \subseteq Jobs
        /\ \A i \in Jobs : i # j => pc'[i] = pc[i]
        /\ pc'[j] \in {"reserve", "done"}
    <3>1. CASE Retry(j)
      BY <1>9, <3>1 DEF Conclude, Retry, LastAttempt, Failure, Least
    <3>2. CASE ~Retry(j)
      BY <1>9, <3>2 DEF Conclude
    <3> QED
      BY <3>1, <3>2
  <2>3. Promising'
    BY <1>9, <2>2 DEF Conclude
  <2> QED
    BY <1>9, <2>1, <2>2, <2>3 DEF Conclude
<1>10. ASSUME NEW j \in Jobs, AgentEdits(j) PROVE Typed'
  BY <1>10 DEF AgentEdits
<1>11. CASE SomeoneEdits
  BY <1>11 DEF SomeoneEdits
<1> QED
  BY <1>1, <1>2, <1>3, <1>4, <1>5, <1>6, <1>7, <1>8, <1>9, <1>10, <1>11 DEF Next, Work

\* Types: no reservation, charge or account is ever negative, every attempt is within the bound,
\* and what is written back to the checkout is a content a snapshot has seen.
THEOREM TypeCorrect == Spec => []TypeOK
<1>1. Spec => []Typed
  BY TypedInit, TypedNext, PTL DEF Spec
<1> QED
  BY <1>1, PTL DEF Typed

-----------------------------------------------------------------------------
(* The budget                                                              *)

\* The units of money of the jobs in J when c gives each job's share.
Units(c, J) == UNION {{i} \X (1..c[i]) : i \in J}

LEMMA UnitsOfOne ==
  ASSUME NEW j, NEW n \in Nat
  PROVE  IsFiniteSet({j} \X (1..n)) /\ Cardinality({j} \X (1..n)) = n
<1>1. IsFiniteSet({j}) /\ Cardinality({j}) = 1
  BY FS_Singleton
<1>2. IsFiniteSet(1..n) /\ Cardinality(1..n) = n
  BY FS_Interval
<1>3. Cardinality({j} \X (1..n)) = Cardinality({j}) * Cardinality(1..n) /\ IsFiniteSet({j} \X (1..n))
  BY <1>1, <1>2, FS_Product
<1>4. 1 * n = n
  OBVIOUS
<1> QED
  BY <1>1, <1>2, <1>3, <1>4

LEMMA UnitsFinite ==
  ASSUME NEW c \in [Jobs -> Nat], NEW J \in SUBSET Jobs
  PROVE  IsFiniteSet(Units(c, J))
<1> DEFINE share == [i \in J |-> {i} \X (1..c[i])]
           shares == {{i} \X (1..c[i]) : i \in J}
<1>1. IsFiniteSet(J)
  <2>1. IsFiniteSet(1..NJobs)
    BY ProofSearchAssumption, FS_Interval
  <2> QED
    BY <2>1, FS_Subset DEF Jobs
<1>2. share \in Surjection(J, shares)
  BY DEF Surjection
<1>3. \A u \in shares : IsFiniteSet(u)
  <2>1. \A i \in J : c[i] \in Nat
    OBVIOUS
  <2>2. \A i \in J : IsFiniteSet({i} \X (1..c[i]))
    BY <2>1, UnitsOfOne
  <2> QED
    BY <2>2
<1> HIDE DEF share, shares
<1>4. IsFiniteSet(shares)
  BY <1>1, <1>2, FS_Surjection
<1>5. IsFiniteSet(UNION shares)
  BY <1>3, <1>4, FS_UNION
<1> QED
  BY <1>5 DEF Units, shares

\* The units of all jobs are those of one and those of the others.
LEMMA UnitsSplit ==
  ASSUME NEW c \in [Jobs -> Nat], NEW j \in Jobs
  PROVE  /\ Cardinality(Units(c, Jobs)) = Cardinality(Units(c, Jobs \ {j})) + c[j]
         /\ Cardinality(Units(c, Jobs \ {j})) \in Nat
<1> DEFINE rest == Units(c, Jobs \ {j})
           own == {j} \X (1..c[j])
<1>1. Units(c, Jobs) = rest \cup own
  BY DEF Units
<1>2. rest \cap own = {}
  BY DEF Units
<1>3. IsFiniteSet(rest)
  BY UnitsFinite
<1>4. IsFiniteSet(own) /\ Cardinality(own) = c[j]
  BY UnitsOfOne
<1> HIDE DEF rest, own
<1>5. Cardinality(rest \cup own) = Cardinality(rest) + Cardinality(own) - Cardinality({})
  BY <1>2, <1>3, <1>4, FS_Union
<1>6. Cardinality(rest) \in Nat /\ c[j] \in Nat /\ Cardinality({}) = 0
  BY <1>3, FS_CardinalityType, FS_EmptySet
<1>7. Cardinality(Units(c, Jobs)) = Cardinality(rest) + c[j]
  BY <1>1, <1>4, <1>5, <1>6
<1> QED
  BY <1>6, <1>7 DEF rest

\* Changing the share of one job moves the total by as much.
LEMMA ShareChanged ==
  ASSUME NEW c \in [Jobs -> Nat], NEW j \in Jobs, NEW n \in Nat
  PROVE  /\ Cardinality(Units([c EXCEPT ![j] = n], Jobs)) = Cardinality(Units(c, Jobs)) - c[j] + n
         /\ Cardinality(Units(c, Jobs)) \in Nat
         /\ Cardinality(Units(c, Jobs)) >= c[j]
<1> DEFINE d == [c EXCEPT ![j] = n]
<1>1. d \in [Jobs -> Nat] /\ d[j] = n /\ \A i \in Jobs \ {j} : d[i] = c[i]
  OBVIOUS
<1> HIDE DEF d
<1>2. Units(d, Jobs \ {j}) = Units(c, Jobs \ {j})
  BY <1>1 DEF Units
<1>3. /\ Cardinality(Units(d, Jobs)) = Cardinality(Units(c, Jobs \ {j})) + n
      /\ Cardinality(Units(c, Jobs)) = Cardinality(Units(c, Jobs \ {j})) + c[j]
      /\ Cardinality(Units(c, Jobs \ {j})) \in Nat /\ c[j] \in Nat
  BY <1>1, <1>2, UnitsSplit
<1> QED
  BY <1>3 DEF d

Accounts == Typed /\ ReservationsAccounted /\ ChargedWithinLimit

LEMMA AccountsInit == ASSUME Init PROVE Accounts
<1>1. Typed
  BY TypedInit
<1>2. Promised = {}
  BY DEF Init, Promised
<1>3. Cardinality({}) = 0
  BY FS_EmptySet
<1>4. ReservationsAccounted
  BY <1>2, <1>3 DEF Init, ReservationsAccounted
<1>5. ChargedWithinLimit
  BY ProofSearchAssumption DEF Init, ChargedWithinLimit
<1> QED
  BY <1>1, <1>4, <1>5 DEF Accounts

LEMMA AccountsNext == ASSUME Accounts, [Next]_vars PROVE Accounts'
<1> USE ProofSearchAssumption DEF Accounts
<1>1. Typed'
  BY TypedNext
<1>2. cap \in [Jobs -> Nat] /\ spent \in Nat /\ reserved \in Nat /\ over \in Nat /\ leaked \in Nat
  BY DEF Typed, TypeOK
<1>3. Promised = Units(cap, Jobs) /\ Promised' = Units(cap', Jobs)
  BY DEF Promised, Units
<1>4. CASE UNCHANGED <<cap, spent, reserved, over, leaked>>
  BY <1>1, <1>4 DEF ReservationsAccounted, ChargedWithinLimit, Promised
<1>5. ASSUME NEW j \in Jobs, Reserve(j), ~Refused, Amount # 0 PROVE Accounts'
  <2>1. cap' = [cap EXCEPT ![j] = Amount] /\ reserved' = reserved + Amount
        /\ UNCHANGED <<spent, over, leaked>>
    BY <1>5 DEF Reserve
  <2>2. cap[j] = 0
    BY <1>5 DEF Typed, Promising, Reserve
  <2>3. Amount \in Nat /\ (Limit # None => Amount <= Limit - spent - reserved)
    BY <1>5, AmountPromised DEF Typed
  <2>4. Cardinality(Promised') = Cardinality(Promised) + Amount /\ Cardinality(Promised) \in Nat
    <3>1. /\ Cardinality(Units([cap EXCEPT ![j] = Amount], Jobs)) = Cardinality(Units(cap, Jobs)) - cap[j] + Amount
          /\ Cardinality(Units(cap, Jobs)) \in Nat
      BY <1>2, <2>3, ShareChanged
    <3> QED
      BY <1>3, <2>1, <2>2, <2>3, <3>1
  <2>5. ReservationsAccounted'
    BY <1>2, <2>1, <2>3, <2>4 DEF ReservationsAccounted
  <2>6. ChargedWithinLimit'
    BY <1>2, <2>1, <2>3 DEF ChargedWithinLimit
  <2> QED
    BY <1>1, <2>5, <2>6
<1>6. ASSUME NEW j \in Jobs, NoAgent(j) PROVE Accounts'
  <2>1. cap' = [cap EXCEPT ![j] = 0] /\ leaked' = leaked + cap[j] /\ UNCHANGED <<spent, reserved, over>>
    BY <1>6 DEF NoAgent
  <2>2. /\ Cardinality(Promised') = Cardinality(Promised) - cap[j]
        /\ Cardinality(Promised) \in Nat /\ cap[j] \in Nat
    <3>1. /\ Cardinality(Units([cap EXCEPT ![j] = 0], Jobs)) = Cardinality(Units(cap, Jobs)) - cap[j] + 0
          /\ Cardinality(Units(cap, Jobs)) \in Nat /\ Cardinality(Units(cap, Jobs)) >= cap[j]
      BY <1>2, ShareChanged
    <3>2. cap[j] \in Nat
      BY <1>2
    <3> QED
      BY <1>3, <2>1, <3>1, <3>2
  <2>3. ReservationsAccounted'
    BY <1>2, <2>1, <2>2 DEF ReservationsAccounted
  <2>4. ChargedWithinLimit'
    BY <2>1 DEF ChargedWithinLimit
  <2> QED
    BY <1>1, <2>3, <2>4
<1>7. ASSUME NEW j \in Jobs, Conclude(j) PROVE Accounts'
  <2>1. cap' = [cap EXCEPT ![j] = 0] /\ reserved' = Released(j) /\ spent' = spent + call[j].cost
        /\ over' = (IF call[j].cost > cap[j] THEN over + (call[j].cost - cap[j]) ELSE over)
        /\ leaked' = leaked
    BY <1>7 DEF Conclude, budgetVars
  <2>2. /\ Cardinality(Promised') = Cardinality(Promised) - cap[j]
        /\ Cardinality(Promised) \in Nat /\ cap[j] \in Nat /\ Cardinality(Promised) >= cap[j]
    <3>1. /\ Cardinality(Units([cap EXCEPT ![j] = 0], Jobs)) = Cardinality(Units(cap, Jobs)) - cap[j] + 0
          /\ Cardinality(Units(cap, Jobs)) \in Nat /\ Cardinality(Units(cap, Jobs)) >= cap[j]
      BY <1>2, ShareChanged
    <3>2. cap[j] \in Nat
      BY <1>2
    <3> QED
      BY <1>3, <2>1, <3>1, <3>2
  <2>3. reserved' = reserved - cap[j] /\ reserved >= cap[j]
    BY <1>2, <2>1, <2>2 DEF Released, ReservationsAccounted
  <2>4. ReservationsAccounted'
    BY <1>2, <2>1, <2>2, <2>3 DEF ReservationsAccounted
  <2>5. call[j].cost \in Nat
    BY DEF Typed, TypeOK
  <2>6. ChargedWithinLimit'
    BY <1>2, <2>1, <2>2, <2>3, <2>5 DEF ChargedWithinLimit
  <2> QED
    BY <1>1, <2>4, <2>6
<1>8. ASSUME NEW j \in Jobs, Work(j) \/ AgentEdits(j) PROVE Accounts'
  <2>1. CASE Reserve(j) /\ (Refused \/ Amount = 0)
    <3>1. UNCHANGED <<cap, spent, reserved, over, leaked>>
      BY <2>1 DEF Reserve
    <3> QED
      BY <1>4, <3>1
  <2>2. CASE \/ Begin(j) \/ Launch(j) \/ Answer(j) \/ Inspect(j) \/ Backup(j) \/ WriteBack(j)
             \/ AgentEdits(j)
    <3>1. UNCHANGED <<cap, spent, reserved, over, leaked>>
      BY <2>2
      DEF Begin, Launch, Answer, Inspect, Backup, WriteBack, AgentEdits, budgetVars, workerVars
    <3> QED
      BY <1>4, <3>1
  <2> QED
    BY <1>5, <1>6, <1>7, <1>8, <2>1, <2>2 DEF Work
<1>9. CASE SomeoneEdits
  BY <1>4, <1>9 DEF SomeoneEdits, budgetVars, workerVars
<1>10. CASE UNCHANGED vars
  BY <1>4, <1>10 DEF vars, budgetVars, workerVars
<1> QED
  BY <1>8, <1>9, <1>10 DEF Next

LEMMA AccountsKept == Spec => []Accounts
  BY AccountsInit, AccountsNext, PTL DEF Spec

\* Reservations are those of the running calls and of calls never made for want of an agent:
\* each is given back once, however the call ends and however the workers interleave.
THEOREM PromisesKept == Spec => []ReservationsAccounted
<1>1. Accounts => ReservationsAccounted
  BY DEF Accounts
<1> QED
  BY <1>1, AccountsKept, PTL

\* The limit holds for what is charged and promised, but for the printing of caps in cents.
THEOREM SpendingCapped == Spec => []ChargedWithinLimit
<1>1. Accounts => ChargedWithinLimit
  BY DEF Accounts
<1> QED
  BY <1>1, AccountsKept, PTL
-----------------------------------------------------------------------------
(* The checkout, with one worker and a git that answers                    *)

Serial == Parallel = 1 /\ GitFails = FALSE

Away == {"calling", "returned", "backup", "writeback"}
Kept == {f \in LeanInputs : base[f] # Gone}

\* The pool has one worker;
Alone == \A i, j \in Jobs : pc[i] \notin {"queued", "done"} /\ pc[j] \notin {"queued", "done"} => i = j
\* a call has its snapshot until it is judged, and what was found changed is what differs from it;
Inspection ==
    /\ \A j \in Jobs : pc[j] \in Away \cup {"conclude"} => before[j] \in [Files -> Contents]
    /\ \A j \in Jobs : pc[j] \in {"backup", "writeback"} /\ edits = 0 =>
          \A f \in LeanInputs \ changed[j] : ~Differs(j, f)
\* as long as nobody else edits, every snapshot is of the files as they were, and between two calls
\* the files are.
Restoring ==
    edits = 0 => /\ \A j \in Jobs : before[j] # None => \A f \in Kept : before[j][f] = base[f]
                 /\ (\A j \in Jobs : pc[j] \notin Away) => \A f \in Kept : root[f] = base[f]
\* What a call left changed is found changed, and an accepted attempt had its snapshot.
Noticed ==
    /\ \A j \in Jobs : pc[j] = "queued" => attempt[j] = 0
    /\ \A j \in Jobs : outcome[j] = "PROVED" =>
          /\ pc[j] = "done" /\ (attempt[j] > 0 => j \notin tampered)
          /\ attempt[j] > 0 => before[j] \in [Files -> Contents]
    /\ \A j \in tampered :
          /\ pc[j] # "queued"
          /\ pc[j] = "returned" => Differing(j) # {}
          /\ pc[j] \in {"backup", "writeback", "conclude"} => changed[j] # {}

Checkout == Typed /\ Alone /\ Inspection /\ Restoring /\ Noticed

LEMMA CheckoutInit == ASSUME Serial, Init PROVE Checkout
<1>1. Typed
  BY TypedInit
<1>2. Alone /\ Inspection /\ Restoring /\ Noticed
  BY DEF Init, Alone, Inspection, Restoring, Noticed, Away, Kept
<1> QED
  BY <1>1, <1>2 DEF Checkout

\* A job is taken when no other is under way.
LEMMA AloneNext == ASSUME Serial, Checkout, Next PROVE Alone'
<1>1. pc \in [Jobs -> Points]
  BY DEF Checkout, Typed, TypeOK
<1>2. ASSUME NEW j \in Jobs, Begin(j) PROVE Alone'
  <2> DEFINE busy == {i \in Jobs : pc[i] \notin {"queued", "done"}}
  <2>1. busy = {}
    <3>1. IsFiniteSet(Jobs)
      BY ProofSearchAssumption, FS_Interval DEF Jobs
    <3>2. IsFiniteSet(busy)
      BY <3>1, FS_Subset
    <3>3. Cardinality(busy) < 1
      BY <1>2 DEF Begin, Serial
    <3> HIDE DEF busy
    <3>4. Cardinality(busy) = 0
      BY <3>2, <3>3, FS_CardinalityType
    <3> QED
      BY <3>2, <3>4, FS_EmptySet
  <2>2. \A i \in Jobs : pc[i] \in {"queued", "done"}
    BY <2>1
  <2>3. \A i \in Jobs \ {j} : pc'[i] = pc[i]
    BY <1>1, <1>2 DEF Begin, Finish, Goto
  <2> QED
    BY <2>2, <2>3 DEF Alone
<1>3. ASSUME \A i \in Jobs : pc'[i] \in {"queued", "done"} \/ pc[i] \notin {"queued", "done"}
      PROVE  Alone'
  BY <1>3 DEF Checkout, Alone
<1>4. ASSUME NEW j \in Jobs, pc[j] \notin {"queued", "done"}, NEW p, pc' = [pc EXCEPT ![j] = p]
      PROVE  Alone'
  BY <1>1, <1>3, <1>4
<1>5. ASSUME NEW j \in Jobs, Work(j) \/ AgentEdits(j) PROVE Alone'
  <2>1. CASE Reserve(j) \/ Conclude(j)
    BY <1>4, <2>1 DEF Reserve, Conclude, Retry, Finish, Goto
  <2>2. CASE NoAgent(j) \/ Launch(j) \/ Answer(j) \/ Inspect(j) \/ Backup(j) \/ WriteBack(j)
    BY <1>4, <2>2 DEF NoAgent, Launch, Answer, Inspect, Backup, WriteBack, Finish, Goto
  <2>3. CASE AgentEdits(j)
    BY <1>3, <2>3 DEF AgentEdits, workerVars
  <2> QED
    BY <1>2, <1>5, <2>1, <2>2, <2>3 DEF Work
<1>6. CASE SomeoneEdits
  BY <1>3, <1>6 DEF SomeoneEdits, workerVars
<1> QED
  BY <1>5, <1>6 DEF Next

\* A step that leaves the files, what is known of them and the calls alone.
LEMMA CheckoutSame ==
  ASSUME Checkout, NEW j \in Jobs, pc[j] \notin Away, pc'[j] \notin Away \cup {"queued", "conclude"},
         \A i \in Jobs \ {j} : pc'[i] = pc[i] /\ outcome'[i] = outcome[i] /\ attempt'[i] = attempt[i],
         outcome'[j] = "PROVED" =>
             /\ pc'[j] = "done" /\ (attempt'[j] > 0 => j \notin tampered)
             /\ attempt'[j] > 0 => before[j] \in [Files -> Contents],
         UNCHANGED <<before, changed, root, base, edits, tampered>>
  PROVE  Inspection' /\ Restoring' /\ Noticed'
<1>1. Inspection'
  BY DEF Checkout, Inspection, Differs, Away
<1>2. Restoring'
  BY DEF Checkout, Restoring, Kept
<1>3. Noticed'
  <2>1. \A i \in Jobs : pc'[i] = "queued" => attempt'[i] = 0
    BY DEF Checkout, Noticed
  <2>2. \A i \in Jobs : outcome'[i] = "PROVED" =>
           /\ pc'[i] = "done" /\ (attempt'[i] > 0 => i \notin tampered')
           /\ attempt'[i] > 0 => before'[i] \in [Files -> Contents]
    BY DEF Checkout, Noticed
  <2>3. \A i \in tampered' :
           /\ pc'[i] # "queued"
           /\ pc'[i] = "returned" => Differing(i)' # {}
           /\ pc'[i] \in {"backup", "writeback", "conclude"} => changed'[i] # {}
    BY DEF Checkout, Noticed, Differing, Differs, Away, Typed, TypeOK
  <2> QED
    BY <2>1, <2>2, <2>3 DEF Noticed
<1> QED
  BY <1>1, <1>2, <1>3

LEMMA CheckoutNext == ASSUME Serial, Checkout, [Next]_vars PROVE Checkout'
<1>1. CASE UNCHANGED vars
  BY <1>1, TypedNext
  DEF vars, workerVars, rootVars, Checkout, Alone, Inspection, Restoring, Noticed, Kept, Differs, Differing
<1> SUFFICES ASSUME Next PROVE Inspection' /\ Restoring' /\ Noticed'
  BY <1>1, AloneNext, TypedNext DEF Checkout
<1>t. /\ pc \in [Jobs -> Points] /\ attempt \in [Jobs -> 0..(Attempts + 1)]
      /\ outcome \in [Jobs -> Outcomes] /\ tampered \subseteq Jobs
      /\ before \in [Jobs -> [Files -> Contents] \cup {None}] /\ changed \in [Jobs -> SUBSET LeanInputs]
      /\ root \in [Files -> Contents] /\ base \in [Files -> Contents] /\ edits \in Nat
  BY ProofSearchAssumption DEF Checkout, Typed, TypeOK
<1>2. ASSUME NEW j \in Jobs, Begin(j) PROVE Inspection' /\ Restoring' /\ Noticed'
  <2>1. /\ pc'[j] \in {"done", "reserve"} /\ (outcome'[j] = "PROVED" => pc'[j] = "done")
        /\ \A i \in Jobs \ {j} : pc'[i] = pc[i] /\ outcome'[i] = outcome[i] /\ attempt'[i] = attempt[i]
        /\ outcome'[j] = "PROVED" => attempt'[j] = 0
    <3>1. outcome[j] # "PROVED" /\ attempt[j] = 0
      BY <1>2 DEF Begin, Checkout, Noticed
    <3>2. CASE Finish(j, "PROVED") /\ UNCHANGED attempt
      BY <1>t, <3>1, <3>2 DEF Finish, Goto
    <3>3. CASE Finish(j, "FAILED") /\ attempt' = [attempt EXCEPT ![j] = 1]
      BY <1>t, <3>3 DEF Finish, Goto
    <3>4. CASE Goto(j, "reserve") /\ UNCHANGED outcome /\ attempt' = [attempt EXCEPT ![j] = 1]
      BY <1>t, <3>1, <3>4 DEF Goto
    <3> QED
      BY <1>2, <3>2, <3>3, <3>4 DEF Begin
  <2>2. pc[j] = "queued" /\ UNCHANGED <<before, changed, root, base, edits, tampered>>
    BY <1>2 DEF Begin, rootVars
  <2> QED
    BY <2>1, <2>2, CheckoutSame DEF Away
<1>3. ASSUME NEW j \in Jobs, Reserve(j) \/ NoAgent(j) \/ Conclude(j)
      PROVE  Inspection' /\ Restoring' /\ Noticed'
  <2>1. /\ pc[j] \in {"reserve", "launch", "conclude"}
        /\ UNCHANGED <<before, changed, root, base, edits, tampered>>
    BY <1>3 DEF Reserve, NoAgent, Conclude, rootVars
  <2>2. \A i \in Jobs \ {j} : pc'[i] = pc[i] /\ outcome'[i] = outcome[i] /\ attempt'[i] = attempt[i]
    BY <1>t, <1>3 DEF Reserve, NoAgent, Conclude, Retry, Finish, Goto
  <2>3. /\ pc'[j] \in {"launch", "reserve", "done"}
        /\ outcome'[j] = "PROVED" =>
              pc'[j] = "done" /\ j \notin tampered /\ before[j] \in [Files -> Contents]
    <3>1. CASE Reserve(j) \/ NoAgent(j)
      BY <1>t, <3>1 DEF Reserve, NoAgent, Finish, Goto, Checkout, Noticed
    <3>2. CASE Conclude(j) /\ Admissible(j) /\ Finish(j, "PROVED")
      BY <1>t, <3>2 DEF Conclude, Admissible, Finish, Goto, Checkout, Inspection, Noticed
    <3>3. CASE Conclude(j) /\ Retry(j)
      <4>1. Failure(j) # "PROVED"
        BY DEF Failure
      <4>2. CASE LastAttempt(j)
        BY <1>t, <3>3, <4>1, <4>2 DEF Conclude, Retry, Finish, Goto
      <4>3. CASE ~LastAttempt(j)
        BY <1>t, <3>3, <4>3 DEF Conclude, Retry, Goto, Checkout, Noticed
      <4> QED
        BY <4>2, <4>3
    <3> QED
      BY <1>3, <3>1, <3>2, <3>3 DEF Conclude
  <2>4. pc[j] \notin Away /\ pc'[j] \notin Away \cup {"queued", "conclude"}
    BY <2>1, <2>3 DEF Away
  <2> QED
    BY <2>1, <2>2, <2>3, <2>4, CheckoutSame
<1>4. ASSUME NEW j \in Jobs, pc[j] \notin {"queued", "done"}
      PROVE  \A i \in Jobs \ {j} : pc[i] \notin Away
  BY <1>4 DEF Checkout, Alone, Away
<1>5. ASSUME NEW j \in Jobs, Launch(j) PROVE Inspection' /\ Restoring' /\ Noticed'
  <2>1. /\ pc[j] = "launch" /\ pc' = [pc EXCEPT ![j] = "calling"] /\ before' = [before EXCEPT ![j] = root]
        /\ UNCHANGED <<attempt, outcome, changed, root, base, edits, tampered>>
    BY <1>5 DEF Launch, Goto, Serial, rootVars
  <2>2. \A i \in Jobs : pc[i] \notin Away
    BY <1>4, <2>1 DEF Away
  <2>3. pc'[j] = "calling" /\ before'[j] = root /\ \A i \in Jobs \ {j} : pc'[i] = pc[i]
    BY <1>t, <2>1
  <2>4. Inspection'
    BY <1>t, <2>1, <2>2, <2>3 DEF Checkout, Inspection, Away
  <2>5. Restoring'
    BY <1>t, <2>1, <2>2, <2>3 DEF Checkout, Restoring, Kept, Away
  <2>6. Noticed'
    BY <1>t, <2>1, <2>2, <2>3 DEF Checkout, Noticed, Away
  <2> QED
    BY <2>4, <2>5, <2>6
<1>6. ASSUME NEW j \in Jobs, AgentEdits(j) PROVE Inspection' /\ Restoring' /\ Noticed'
  <2>1. pc[j] = "calling" /\ UNCHANGED <<pc, attempt, outcome, before, changed, base, edits, tampered>>
    BY <1>6 DEF AgentEdits, workerVars
  <2>2. \A i \in Jobs \ {j} : pc[i] \notin Away
    BY <1>4, <2>1
  <2>3. Inspection'
    BY <2>1, <2>2 DEF Checkout, Inspection, Away
  <2>4. Restoring'
    BY <2>1 DEF Checkout, Restoring, Kept, Away
  <2>5. Noticed'
    BY <2>1, <2>2, <1>t DEF Checkout, Noticed, Away
  <2> QED
    BY <2>3, <2>4, <2>5
<1>7. ASSUME NEW j \in Jobs, Answer(j) PROVE Inspection' /\ Restoring' /\ Noticed'
  <2>1. /\ pc[j] = "calling" /\ pc' = [pc EXCEPT ![j] = "returned"]
        /\ tampered' = (IF Differing(j) = {} THEN tampered \ {j} ELSE tampered \cup {j})
        /\ UNCHANGED <<attempt, outcome, before, changed, root, base, edits>>
    BY <1>7 DEF Answer, Goto
  <2>2. pc'[j] = "returned" /\ \A i \in Jobs \ {j} : pc'[i] = pc[i] /\ pc[i] \notin Away
    BY <1>4, <1>t, <2>1
  <2>3. Inspection'
    BY <2>1, <2>2 DEF Checkout, Inspection, Away
  <2>4. Restoring'
    BY <2>1, <2>2 DEF Checkout, Restoring, Kept, Away
  <2>5. outcome[j] # "PROVED"
    BY <2>1 DEF Checkout, Noticed
  <2>6. Noticed'
    BY <1>t, <2>1, <2>2, <2>5 DEF Checkout, Noticed, Away, Differing, Differs
  <2> QED
    BY <2>3, <2>4, <2>6
<1>8. ASSUME NEW j \in Jobs, Inspect(j) PROVE Inspection' /\ Restoring' /\ Noticed'
  <2>1. /\ pc[j] = "returned" /\ pc' = [pc EXCEPT ![j] = "backup"]
        /\ changed' = [changed EXCEPT ![j] = Differing(j)]
        /\ UNCHANGED <<attempt, outcome, before, root, base, edits, tampered>>
    BY <1>8 DEF Inspect, Inspected, Goto, Serial
  <2>2. /\ pc'[j] = "backup" /\ changed'[j] = Differing(j)
        /\ \A i \in Jobs \ {j} : pc'[i] = pc[i] /\ changed'[i] = changed[i] /\ pc[i] \notin Away
    BY <1>4, <1>t, <2>1
  <2>3. before[j] # None
    BY <2>1, ProofSearchAssumption DEF Checkout, Inspection, Away
  <2>4. Inspection'
    BY <2>1, <2>2, <2>3 DEF Checkout, Inspection, Away, Differing, Differs
  <2>5. Restoring'
    BY <2>1, <2>2 DEF Checkout, Restoring, Kept, Away
  <2>6. Noticed'
    BY <1>t, <2>1, <2>2 DEF Checkout, Noticed, Away
  <2> QED
    BY <2>4, <2>5, <2>6
<1>9. ASSUME NEW j \in Jobs, Backup(j) PROVE Inspection' /\ Restoring' /\ Noticed'
  <2>1. /\ pc[j] = "backup" /\ pc' = [pc EXCEPT ![j] = "writeback"]
        /\ UNCHANGED <<attempt, outcome, before, changed, root, base, edits, tampered>>
    BY <1>9 DEF Backup, Goto
  <2>2. /\ pc'[j] = "writeback" /\ \A i \in Jobs \ {j} : pc'[i] = pc[i] /\ pc[i] \notin Away
    BY <1>4, <1>t, <2>1
  <2>3. Inspection'
    BY <2>1, <2>2 DEF Checkout, Inspection, Away, Differs
  <2>4. Restoring'
    BY <2>1, <2>2 DEF Checkout, Restoring, Kept, Away
  <2>5. Noticed'
    BY <1>t, <2>1, <2>2 DEF Checkout, Noticed, Away
  <2> QED
    BY <2>3, <2>4, <2>5
<1>10. ASSUME NEW j \in Jobs, WriteBack(j) PROVE Inspection' /\ Restoring' /\ Noticed'
  <2>1. /\ pc[j] = "writeback" /\ pc' = [pc EXCEPT ![j] = "conclude"]
        /\ root' = [f \in Files |-> IF f \in changed[j] THEN before[j][f] ELSE root[f]]
        /\ UNCHANGED <<attempt, outcome, before, changed, base, edits, tampered>>
    BY <1>10 DEF WriteBack, Goto
  <2>2. /\ pc'[j] = "conclude" /\ \A i \in Jobs \ {j} : pc'[i] = pc[i] /\ pc[i] \notin Away
    BY <1>4, <1>t, <2>1
  <2>3. Inspection'
    BY <2>1, <2>2 DEF Checkout, Inspection, Away
  <2>4. Restoring'
    <3> SUFFICES ASSUME edits = 0, NEW f \in Kept PROVE root'[f] = base[f]
      BY <2>1 DEF Checkout, Restoring, Kept
    <3>1. f \in Files /\ f \in LeanInputs /\ base[f] # Gone
      BY ProofSearchAssumption DEF Kept
    <3>2. before[j][f] = base[f]
      <4>1. before[j] # None
        BY <2>1, ProofSearchAssumption DEF Checkout, Inspection, Away
      <4> QED
        BY <4>1 DEF Checkout, Restoring
    <3>3. f \in changed[j] \/ root[f] = before[j][f]
      BY <2>1, <3>1, <3>2 DEF Checkout, Inspection, Differs
    <3> QED
      BY <2>1, <3>1, <3>2, <3>3
  <2>5. Noticed'
    BY <1>t, <2>1, <2>2 DEF Checkout, Noticed, Away
  <2> QED
    BY <2>3, <2>4, <2>5
<1>11. CASE SomeoneEdits
  <2>1. /\ edits' = edits + 1 /\ UNCHANGED <<pc, attempt, outcome, before, changed>>
        /\ tampered' = {j \in tampered : pc[j] = "returned" => Differing(j)' # {}}
    BY <1>11 DEF SomeoneEdits, workerVars
  <2>2. edits' # 0
    BY <1>t, <2>1
  <2>3. Inspection' /\ Restoring'
    BY <2>1, <2>2 DEF Checkout, Inspection, Restoring
  <2>4. Noticed'
    BY <2>1 DEF Checkout, Noticed
  <2> QED
    BY <2>3, <2>4
<1> QED
  BY <1>2, <1>3, <1>5, <1>6, <1>7, <1>8, <1>9, <1>10, <1>11 DEF Next, Work

LEMMA CheckoutKept == ASSUME Serial PROVE Spec => []Checkout
  BY CheckoutInit, CheckoutNext, PTL DEF Spec

\* With one worker and a git that answers, the Lean inputs are as before the list of jobs when it
\* is done, whatever the agents edited: snapshot and restore (prover.py).  A file that did not exist
\* is not followed, and nobody else may have edited.
THEOREM CheckoutRestored == ASSUME Serial PROVE Spec => []RootRestored
<1>1. Checkout => RootRestored
  BY DEF Checkout, Restoring, RootRestored, AllDone, Away, Kept
<1> QED
  BY <1>1, CheckoutKept, PTL

\* With one worker and a git that answers, an accepted proof is of an attempt that left no Lean
\* input changed, whoever else edits, and whose snapshot was of the files as they were before the
\* list of jobs, unless someone else edited: what prover.py makes of restore's answer.
THEOREM ChangedInputsReject == ASSUME Serial PROVE Spec => []TamperRejected
<1>1. ASSUME Checkout PROVE TamperRejected
  <2> SUFFICES ASSUME NEW j \in Jobs, outcome[j] = "PROVED", attempt[j] > 0
               PROVE  /\ j \notin tampered
                      /\ edits = 0 => \A f \in LeanInputs : base[f] # Gone => before[j][f] = base[f]
    BY DEF TamperRejected
  <2>1. j \notin tampered /\ before[j] \in [Files -> Contents]
    BY <1>1 DEF Checkout, Noticed
  <2>2. before[j] # None
    BY <2>1, ProofSearchAssumption
  <2>3. edits = 0 => \A f \in LeanInputs : base[f] # Gone => before[j][f] = base[f]
    BY <1>1, <2>2 DEF Checkout, Restoring, Kept
  <2> QED
    BY <2>1, <2>3
<1> QED
  BY <1>1, CheckoutKept, PTL
=============================================================================
