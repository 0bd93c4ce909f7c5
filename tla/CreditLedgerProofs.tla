------------------------- MODULE CreditLedgerProofs -------------------------
(***************************************************************************)
(* Proofs about CreditLedger, for every set of workers, plans, references  *)
(* and amounts. The argument is the one the code's comments appeal to:     *)
(* whoever is inside a transaction on the account holds its row's lock, so *)
(* what it has read is still the last balance when it inserts.             *)
(***************************************************************************)
EXTENDS CreditLedger, TLAPS

\* A transaction is inside exactly while its worker holds the lock.
LockInv == /\ \A w \in Workers : pc[w] \in Inside => lock = w
           /\ lock # NoWorker => pc[lock] \in Inside

\* What was read under the lock is still the balance.
SeenInv == \A w \in Workers :
               pc[w] \in {"read", "inserted"} => seen[w] = Balance(ledger)

\* A row waiting for its commit neither overdraws nor replays.
InsertInv == \A w \in Workers :
                 pc[w] = "inserted" => ~Overdrawn(w) /\ ~Replayed(w)

\* The references that show a plan's credits were granted.
Period(p) == PlanRef[p] \cup (IF p = TrialPlan THEN {TrialRef} ELSE {})

\* A movement that puts the account on a plan is that plan's grant.
WellFormed(m) == m.onto # NoPlan => /\ m.kind = "grant"
                                    /\ m.amount = MonthlyCredits[m.onto]
                                    /\ m.ref \in Period(m.onto)

OpInv == \A w \in Workers : WellFormed(op[w])

\* Committing a plan without a row: nothing to grant, or already granted.
CleanInv == \A w \in Workers :
                pc[w] = "clean" /\ op[w].onto # NoPlan =>
                    op[w].amount = 0 \/ op[w].ref \in Applied(ledger)

\* Before there is an account there is only the trial being granted.
OpenInv == plan = NoPlan =>
               /\ ledger = <<>>
               /\ \A w \in Workers : /\ pc[w] # "waiting"
                                     /\ pc[w] \in Inside => op[w] = TrialGrant

\* A movement of nothing never gets as far as a row.
MayBeZero(w) == /\ pc[w] \notin {"sized", "read", "inserted"}
                /\ pc[w] = "locked" => op[w].kind = "expire"
                /\ pc[w] = "waiting" => op[w].kind = "expire" \/ op[w].onto # NoPlan

AmountInv == \A w \in Workers : op[w].amount = 0 => MayBeZero(w)

IInv == /\ TypeOK
        /\ LockInv
        /\ SeenInv
        /\ InsertInv
        /\ OpInv
        /\ CleanInv
        /\ OpenInv
        /\ AmountInv
        /\ BalanceChain
        /\ OneRowPerReference
        /\ PlanIsCredited

-----------------------------------------------------------------------------
\* The last row decides the balance, and a row adds its own reference.
LEMMA BalanceIsInt == ASSUME NEW rows \in Seq(Row) PROVE Balance(rows) \in Int
<1>1. CASE rows = <<>>
  BY <1>1 DEF Balance
<1>2. CASE rows # <<>>
  <2>1. Len(rows) \in DOMAIN rows
    BY <1>2
  <2>2. rows[Len(rows)] \in Row
    BY <2>1
  <2>3. QED
    BY <1>2, <2>2 DEF Balance, Row
<1>3. QED
  BY <1>1, <1>2

LEMMA AppendRow ==
  ASSUME NEW rows \in Seq(Row), NEW r \in Row
  PROVE  /\ Append(rows, r) \in Seq(Row)
         /\ Append(rows, r) # <<>>
         /\ Balance(Append(rows, r)) = r.after
         /\ Applied(Append(rows, r)) = (Applied(rows) \cup {r.ref}) \ {NoRef}
<1> DEFINE new == Append(rows, r)
<1>1. /\ new \in Seq(Row)
      /\ Len(new) = Len(rows) + 1
      /\ new[Len(rows) + 1] = r
      /\ \A i \in DOMAIN rows : new[i] = rows[i]
      /\ DOMAIN new = DOMAIN rows \cup {Len(rows) + 1}
  OBVIOUS
<1>2. new # <<>> /\ Balance(new) = r.after
  BY <1>1 DEF Balance
<1>3. Applied(new) = (Applied(rows) \cup {r.ref}) \ {NoRef}
  BY <1>1 DEF Applied
<1>4. QED
  BY <1>1, <1>2, <1>3

\* A request that arrives opens no transaction and commits nothing.
LEMMA BeginKeeps ==
  ASSUME IInv, NEW w \in Workers, NEW m \in Movement, WellFormed(m), Begin(w, m),
         m.amount = 0 => m.kind = "expire" \/ m.onto # NoPlan
  PROVE  IInv'
<1> USE DEF Begin, IInv, TypeOK
<1>1. TypeOK'
  BY DEF PCs
<1>2. LockInv'
  BY CreditConstants DEF LockInv, Inside
<1>3. SeenInv' /\ InsertInv' /\ CleanInv'
  BY DEF SeenInv, InsertInv, CleanInv, Overdrawn, Replayed
<1>4. OpInv' /\ OpenInv' /\ AmountInv'
  BY DEF OpInv, WellFormed, OpenInv, AmountInv, MayBeZero, Inside
<1>5. BalanceChain' /\ OneRowPerReference' /\ PlanIsCredited'
  BY DEF BalanceChain, OneRowPerReference, PlanIsCredited
<1>6. QED
  BY <1>1, <1>2, <1>3, <1>4, <1>5

\* ensure() before its transaction touches no row either.
LEMMA EnsureKeeps ==
  ASSUME IInv, NEW w \in Workers, Ensure(w) \/ LookUp(w) \/ Got(w)
  PROVE  IInv'
<1> USE DEF Ensure, LookUp, Got, IInv, TypeOK
<1>1. TypeOK'
  BY DEF PCs
<1>2. LockInv'
  BY CreditConstants DEF LockInv, Inside
<1>3. SeenInv' /\ InsertInv' /\ CleanInv'
  BY DEF SeenInv, InsertInv, CleanInv, Overdrawn, Replayed
<1>4. OpInv' /\ OpenInv' /\ AmountInv'
  BY DEF OpInv, WellFormed, OpenInv, AmountInv, MayBeZero, Inside
<1>5. BalanceChain' /\ OneRowPerReference' /\ PlanIsCredited'
  BY DEF BalanceChain, OneRowPerReference, PlanIsCredited
<1>6. QED
  BY <1>1, <1>2, <1>3, <1>4, <1>5

\* The insert of the account row takes the lock with it.
LEMMA CreatedKeeps ==
  ASSUME IInv, NEW w \in Workers, Created(w)
  PROVE  IInv'
<1> USE DEF Created, IInv, TypeOK
<1>0. TrialGrant \in Movement /\ WellFormed(TrialGrant) /\ TrialGrant.amount \in Nat
  BY CreditConstants DEF TrialGrant, Movement, Kinds, WellFormed, Period
<1>1. TypeOK'
  BY <1>0 DEF PCs, Inside
<1>2. LockInv'
  BY CreditConstants DEF LockInv, Inside
<1>3. SeenInv' /\ InsertInv' /\ CleanInv'
  BY <1>0 DEF SeenInv, InsertInv, CleanInv, Overdrawn, Replayed
<1>4. OpInv' /\ OpenInv' /\ AmountInv'
  BY <1>0, CreditConstants DEF OpInv, WellFormed, OpenInv, AmountInv, MayBeZero, Inside, TrialGrant
<1>5. BalanceChain' /\ OneRowPerReference' /\ PlanIsCredited'
  BY DEF BalanceChain, OneRowPerReference, PlanIsCredited
<1>6. QED
  BY <1>1, <1>2, <1>3, <1>4, <1>5

\* Taking the lock: nobody else is inside, so nobody's reading goes stale.
LEMMA LockRowKeeps ==
  ASSUME IInv, NEW w \in Workers, LockRow(w)
  PROVE  IInv'
<1> USE DEF LockRow, IInv, TypeOK
<1>1. TypeOK'
  BY DEF PCs, Inside
<1>2. LockInv'
  BY CreditConstants DEF LockInv, Inside
<1>3. SeenInv' /\ InsertInv' /\ CleanInv'
  BY DEF SeenInv, InsertInv, CleanInv, Overdrawn, Replayed
<1>4. OpInv' /\ OpenInv' /\ AmountInv'
  BY DEF OpInv, WellFormed, OpenInv, AmountInv, MayBeZero, Inside
<1>5. BalanceChain' /\ OneRowPerReference' /\ PlanIsCredited'
  BY DEF BalanceChain, OneRowPerReference, PlanIsCredited
<1>6. QED
  BY <1>1, <1>2, <1>3, <1>4, <1>5

LEMMA Resized ==
  ASSUME NEW m \in Movement, NEW n \in Int
  PROVE  /\ [m EXCEPT !.amount = n] \in Movement
         /\ [m EXCEPT !.amount = n].kind = m.kind
         /\ [m EXCEPT !.amount = n].onto = m.onto
         /\ [m EXCEPT !.amount = n].amount = n
  BY DEF Movement

\* expire_all takes what it finds, or commits nothing.
LEMMA SizeExpiryKeeps ==
  ASSUME IInv, NEW w \in Workers, SizeExpiry(w)
  PROVE  IInv'
<1> USE DEF SizeExpiry, IInv, TypeOK
<1>0. Balance(ledger) \in Int
  BY BalanceIsInt
<1> DEFINE sized == [op[w] EXCEPT !.amount = -Balance(ledger)]
<1>a. op' = op \/ op' = [op EXCEPT ![w] = sized]
  OBVIOUS
<1>b. /\ sized \in Movement
      /\ sized.kind = op[w].kind /\ sized.onto = op[w].onto
      /\ sized.amount = -Balance(ledger)
  <2>1. -Balance(ledger) \in Int /\ op[w] \in Movement
    BY <1>0
  <2>2. QED
    BY <2>1, Resized
<1> HIDE DEF sized
<1>c. op' \in [Workers -> Movement]
  BY <1>a, <1>b
<1>d. \A v \in Workers : op'[v].kind = op[v].kind /\ op'[v].onto = op[v].onto
  BY <1>a, <1>b
<1>e. \A v \in Workers : v # w => op'[v] = op[v] /\ pc'[v] = pc[v]
  BY <1>a
<1>f. \/ pc'[w] = "clean"
      \/ pc'[w] = "sized" /\ op'[w].amount # 0
  <2>1. CASE Balance(ledger) <= 0
    <3>1. pc' = [pc EXCEPT ![w] = "clean"]
      BY <2>1
    <3>2. QED
      BY <3>1
  <2>2. CASE ~(Balance(ledger) <= 0)
    <3>1. op' = [op EXCEPT ![w] = sized] /\ pc'[w] = "sized"
      BY <2>2 DEF sized
    <3>2. QED
      BY <3>1, <2>2, <1>0, <1>b
  <2>3. QED
    BY <2>1, <2>2
<1>1. TypeOK'
  BY <1>c DEF PCs, Inside
<1>2. LockInv'
  BY CreditConstants DEF LockInv, Inside
<1>3. op[w].onto = NoPlan
  BY DEF OpInv, WellFormed
<1>4. SeenInv' /\ InsertInv' /\ CleanInv'
  BY <1>3 DEF SeenInv, InsertInv, CleanInv, Overdrawn, Replayed
<1>5. OpInv' /\ OpenInv' /\ AmountInv'
  <2>1. OpInv'
    BY <1>3, <1>d, <1>e DEF OpInv, WellFormed
  <2>2. OpenInv'
    BY <1>3, CreditConstants DEF OpenInv, Inside, TrialGrant
  <2>3. AmountInv'
    BY <1>e, <1>f DEF AmountInv, MayBeZero
  <2>4. QED
    BY <2>1, <2>2, <2>3
<1>6. BalanceChain' /\ OneRowPerReference' /\ PlanIsCredited'
  BY DEF BalanceChain, OneRowPerReference, PlanIsCredited
<1>7. QED
  BY <1>1, <1>2, <1>4, <1>5, <1>6

\* Reading and inserting change only the worker's own place and reading.
LEMMA ReadKeeps ==
  ASSUME IInv, NEW w \in Workers, ReadBalance(w) \/ Insert(w)
  PROVE  IInv'
<1> USE DEF ReadBalance, Insert, IInv, TypeOK
<1>0. Balance(ledger) \in Int
  BY BalanceIsInt
<1>1. TypeOK'
  BY <1>0 DEF PCs, Inside
<1>2. LockInv'
  BY CreditConstants DEF LockInv, Inside
<1>3. SeenInv' /\ InsertInv' /\ CleanInv'
  BY DEF SeenInv, InsertInv, CleanInv, Overdrawn, Replayed
<1>4. OpInv' /\ OpenInv' /\ AmountInv'
  BY DEF OpInv, WellFormed, OpenInv, AmountInv, MayBeZero, Inside
<1>5. BalanceChain' /\ OneRowPerReference' /\ PlanIsCredited'
  BY DEF BalanceChain, OneRowPerReference, PlanIsCredited
<1>6. QED
  BY <1>1, <1>2, <1>3, <1>4, <1>5

\* A rollback leaves the committed rows and everybody else alone.
LEMMA RollbackKeeps ==
  ASSUME IInv, NEW w \in Workers, Rollback(w)
  PROVE  IInv'
<1> USE DEF Rollback, Leave, IInv, TypeOK
<1>0. Idle \in Movement /\ WellFormed(Idle)
  BY DEF Idle, Movement, Kinds, WellFormed
<1>1. TypeOK'
  BY <1>0 DEF PCs
<1>2. LockInv'
  BY CreditConstants DEF LockInv, Inside
<1>3. SeenInv' /\ InsertInv' /\ CleanInv'
  BY DEF SeenInv, InsertInv, CleanInv, Overdrawn, Replayed
<1>4. OpInv' /\ OpenInv' /\ AmountInv'
  BY <1>0 DEF OpInv, OpenInv, AmountInv, MayBeZero, Inside, WellFormed
<1>5. BalanceChain' /\ OneRowPerReference' /\ PlanIsCredited'
  BY DEF BalanceChain, OneRowPerReference, PlanIsCredited
<1>6. QED
  BY <1>1, <1>2, <1>3, <1>4, <1>5

\* A duplicate is swallowed only where the reference is already applied.
LEMMA RefuseReplayKeeps ==
  ASSUME IInv, NEW w \in Workers, RefuseReplay(w)
  PROVE  IInv'
<1>1. CASE Rollback(w)
  BY <1>1, RollbackKeeps
<1>2. CASE ~Rollback(w)
  <2> USE <1>2 DEF RefuseReplay, IInv, TypeOK
  <2>1. TypeOK'
    BY DEF PCs, Inside
  <2>2. LockInv'
    BY CreditConstants DEF LockInv, Inside
  <2>3. SeenInv' /\ InsertInv' /\ CleanInv'
    BY DEF SeenInv, InsertInv, CleanInv, Overdrawn, Replayed, Applied
  <2>4. OpInv' /\ OpenInv' /\ AmountInv'
    BY DEF OpInv, WellFormed, OpenInv, AmountInv, MayBeZero, Inside
  <2>5. BalanceChain' /\ OneRowPerReference' /\ PlanIsCredited'
    BY DEF BalanceChain, OneRowPerReference, PlanIsCredited
  <2>6. QED
    BY <2>1, <2>2, <2>3, <2>4, <2>5
<1>3. QED
  BY <1>1, <1>2

\* The commit of a row: it continues the last one, because what its worker
\* read under the lock is still the balance; and nobody else is inside.
LEMMA CommitKeeps ==
  ASSUME IInv, NEW w \in Workers, Commit(w)
  PROVE  IInv'
<1> USE DEF IInv, TypeOK
<1>a. /\ lock = w
      /\ \A v \in Workers : v # w => pc[v] \notin Inside
  BY DEF Commit, LockInv, Inside
<1>b. Idle \in Movement /\ WellFormed(Idle)
  BY DEF Idle, Movement, Kinds, WellFormed
<1>c. NewRow(w) \in Row
  BY DEF NewRow, Row, Movement
<1>d. /\ Append(ledger, NewRow(w)) \in Seq(Row)
      /\ Append(ledger, NewRow(w)) # <<>>
      /\ Applied(Append(ledger, NewRow(w))) = (Applied(ledger) \cup {op[w].ref}) \ {NoRef}
  BY <1>c, AppendRow DEF NewRow
<1>1. TypeOK'
  BY <1>b, <1>d DEF Commit, Leave, PCs, Movement
<1>2. LockInv'
  BY <1>a DEF Commit, Leave, LockInv, Inside
<1>3. SeenInv' /\ InsertInv' /\ CleanInv'
  BY <1>a DEF Commit, Leave, SeenInv, InsertInv, CleanInv, Inside
<1>4. OpInv' /\ AmountInv'
  BY <1>b DEF Commit, Leave, OpInv, WellFormed, AmountInv, MayBeZero
<1>5. OpenInv'
  BY <1>a, CreditConstants DEF Commit, Leave, OpenInv, Inside, TrialGrant
<1>6. CASE pc[w] = "clean"
  <2>1. ledger' = ledger
    BY <1>6 DEF Commit
  <2>2. BalanceChain' /\ OneRowPerReference'
    BY <2>1 DEF BalanceChain, OneRowPerReference
  <2>3. PlanIsCredited'
    <3>1. CASE op[w].onto = NoPlan
      BY <3>1, <2>1 DEF Commit, PlanIsCredited
    <3>2. CASE op[w].onto # NoPlan
      <4>1. plan' = op[w].onto
        BY <3>2 DEF Commit
      <4>2. op[w].amount = MonthlyCredits[op[w].onto] /\ op[w].ref \in Period(op[w].onto)
        BY <3>2 DEF OpInv, WellFormed
      <4>3. op[w].amount = 0 \/ op[w].ref \in Applied(ledger)
        BY <3>2, <1>6 DEF CleanInv
      <4>4. QED
        BY <4>1, <4>2, <4>3, <2>1 DEF PlanIsCredited, Applied, Period
    <3>3. QED
      BY <3>1, <3>2
  <2>4. QED
    BY <1>1, <1>2, <1>3, <1>4, <1>5, <2>2, <2>3
<1>7. CASE pc[w] = "inserted"
  <2> DEFINE n == Len(ledger) + 1
  <2>1. /\ ledger' = Append(ledger, NewRow(w))
        /\ n \in Nat /\ n > 0
        /\ DOMAIN ledger' = 1 .. n
        /\ DOMAIN ledger = 1 .. n - 1
        /\ ledger'[n] = NewRow(w)
        /\ \A i \in 1 .. n - 1 : ledger'[i] = ledger[i]
    BY <1>7, <1>d DEF Commit
  <2>2. /\ seen[w] = Balance(ledger)
        /\ seen[w] + op[w].amount >= 0
        /\ op[w].ref # NoRef => op[w].ref \notin Applied(ledger)
    BY <1>7 DEF SeenInv, InsertInv, Overdrawn, Replayed, Movement
  <2>3. BalanceChain'
    <3>1. /\ ledger'[n].after = seen[w] + op[w].amount
          /\ ledger'[n].amount = op[w].amount
      BY <2>1 DEF NewRow
    <3>2. seen[w] = IF n = 1 THEN 0 ELSE ledger[n - 1].after
      BY <2>1, <2>2 DEF Balance
    <3>3. /\ ledger'[n].after >= 0
          /\ ledger'[n].after =
                 ledger'[n].amount + (IF n = 1 THEN 0 ELSE ledger'[n - 1].after)
      <4>1. n # 1 => n - 1 \in 1 .. n - 1
        BY <2>1
      <4>2. n # 1 => ledger'[n - 1] = ledger[n - 1]
        BY <4>1, <2>1
      <4>3. op[w].amount \in Int /\ seen[w] \in Int
        BY DEF Movement
      <4>4. seen[w] = IF n = 1 THEN 0 ELSE ledger'[n - 1].after
        BY <3>2, <4>2
      <4>5. QED
        BY <2>2, <3>1, <4>3, <4>4
    <3>4. ASSUME NEW i \in 1 .. n - 1
          PROVE  /\ ledger'[i].after >= 0
                 /\ ledger'[i].after =
                        ledger'[i].amount + (IF i = 1 THEN 0 ELSE ledger'[i - 1].after)
      <4>1. i \in DOMAIN ledger /\ i \in Int
        BY <2>1
      <4>2. /\ ledger[i].after = ledger[i].amount + (IF i = 1 THEN 0 ELSE ledger[i - 1].after)
            /\ ledger[i].after >= 0
        BY <4>1 DEF BalanceChain
      <4>3. ledger'[i] = ledger[i] /\ (i # 1 => ledger'[i - 1] = ledger[i - 1])
        BY <2>1
      <4>4. QED
        BY <4>2, <4>3
    <3>5. \A i \in 1 .. n : i = n \/ i \in 1 .. n - 1
      BY <2>1
    <3>6. \A i \in 1 .. n :
             /\ ledger'[i].after =
                    ledger'[i].amount + (IF i = 1 THEN 0 ELSE ledger'[i - 1].after)
             /\ ledger'[i].after >= 0
      BY <3>3, <3>4, <3>5
    <3>7. QED
      BY <2>1, <3>6 DEF BalanceChain
  <2>4. OneRowPerReference'
    <3>1. \A i \in 1 .. n - 1 : ledger[i].ref # NoRef => ledger[i].ref # op[w].ref
      BY <2>1, <2>2 DEF Applied
    <3>2. ledger'[n].ref = op[w].ref
      BY <2>1 DEF NewRow
    <3>3. QED
      BY <2>1, <3>1, <3>2 DEF OneRowPerReference
  <2>5. PlanIsCredited'
    <3>1. CASE op[w].onto = NoPlan
      BY <3>1, <2>1 DEF Commit, PlanIsCredited
    <3>2. CASE op[w].onto # NoPlan
      <4>1. plan' = op[w].onto /\ op[w].ref \in Period(op[w].onto)
        BY <3>2 DEF Commit, OpInv, WellFormed
      <4>2. ledger'[n].ref = op[w].ref /\ n \in DOMAIN ledger'
        BY <2>1 DEF NewRow
      <4>3. QED
        BY <4>1, <4>2 DEF PlanIsCredited, Period
    <3>3. QED
      BY <3>1, <3>2
  <2>6. QED
    BY <1>1, <1>2, <1>3, <1>4, <1>5, <2>3, <2>4, <2>5
<1>8. QED
  BY <1>6, <1>7 DEF Commit

-----------------------------------------------------------------------------
\* Whatever is asked for is a well formed movement that begins.
LEMMA AskKeeps ==
  ASSUME IInv, NEW w \in Workers, Ask(w)
  PROVE  IInv'
<1> DEFINE M(k, n, r, p) == [kind |-> k, amount |-> n, ref |-> r, onto |-> p]
<1> USE CreditConstants
<1>0. Amounts \subseteq Int /\ CallerRefs \subseteq Refs \cup {NoRef}
  BY DEF CallerRefs
<1>1. ASSUME NEW n \in Amounts, NEW r \in CallerRefs,
             Grant(w, n, r) \/ Consume(w, n, r) \/ Refund(w, n, r)
      PROVE  IInv'
  <2>1. \A k \in Kinds, a \in {n, -n} :
           /\ M(k, a, r, NoPlan) \in Movement
           /\ WellFormed(M(k, a, r, NoPlan))
           /\ M(k, a, r, NoPlan).amount # 0
    BY <1>0 DEF Movement, WellFormed
  <2>2. PICK k \in Kinds, a \in {n, -n} : Begin(w, M(k, a, r, NoPlan))
    BY <1>1 DEF Grant, Consume, Refund, Kinds
  <2>3. QED
    BY <2>1, <2>2, BeginKeeps
<1>2. ASSUME NEW n \in Amounts, Adjust(w, n) \/ Adjust(w, -n)
      PROVE  IInv'
  <2>1. \A a \in {n, -n} :
           /\ M("adjust", a, NoRef, NoPlan) \in Movement
           /\ WellFormed(M("adjust", a, NoRef, NoPlan))
           /\ M("adjust", a, NoRef, NoPlan).amount # 0
    BY <1>0 DEF Movement, WellFormed, Kinds
  <2>2. PICK a \in {n, -n} : Begin(w, M("adjust", a, NoRef, NoPlan))
    BY <1>2 DEF Adjust
  <2>3. QED
    BY <2>1, <2>2, BeginKeeps
<1>3. ASSUME NEW r \in CallerRefs, ExpireAll(w, r)
      PROVE  IInv'
  <2>1. /\ M("expire", 0, r, NoPlan) \in Movement
        /\ WellFormed(M("expire", 0, r, NoPlan))
        /\ M("expire", 0, r, NoPlan).kind = "expire"
    BY <1>0 DEF Movement, WellFormed, Kinds
  <2>2. Begin(w, M("expire", 0, r, NoPlan))
    BY <1>3 DEF ExpireAll
  <2>3. QED
    BY <2>1, <2>2, BeginKeeps
<1>4. ASSUME NEW p \in Plans, ChangePlan(w, p)
      PROVE  IInv'
  <2>1. PICK r \in PlanRef[p] : Begin(w, M("grant", MonthlyCredits[p], r, p))
    BY <1>4 DEF ChangePlan
  <2>2. /\ M("grant", MonthlyCredits[p], r, p) \in Movement
        /\ WellFormed(M("grant", MonthlyCredits[p], r, p))
        /\ M("grant", MonthlyCredits[p], r, p).onto # NoPlan
    BY <2>1 DEF Movement, WellFormed, Kinds, Period
  <2>3. QED
    BY <2>1, <2>2, BeginKeeps
<1>5. QED
  BY <1>1, <1>2, <1>3, <1>4 DEF Ask

LEMMA InitIInv == Init => IInv
<1> SUFFICES ASSUME Init PROVE IInv
  OBVIOUS
<1> USE DEF Init
<1>1. Idle \in Movement /\ WellFormed(Idle)
  BY DEF Idle, Movement, Kinds, WellFormed
<1>2. TypeOK
  BY <1>1 DEF TypeOK, PCs
<1>3. LockInv /\ SeenInv /\ InsertInv /\ CleanInv /\ OpenInv
  BY CreditConstants DEF LockInv, SeenInv, InsertInv, CleanInv, OpenInv, Inside
<1>4. OpInv /\ AmountInv
  BY <1>1 DEF OpInv, AmountInv, MayBeZero
<1>5. BalanceChain /\ OneRowPerReference /\ PlanIsCredited
  BY DEF BalanceChain, OneRowPerReference, PlanIsCredited
<1>6. QED
  BY <1>2, <1>3, <1>4, <1>5 DEF IInv

\* One step of the ledger.
LEMMA NextIInv == IInv /\ [Next]_vars => IInv'
<1> SUFFICES ASSUME IInv, [Next]_vars PROVE IInv'
  OBVIOUS
<1>1. CASE UNCHANGED vars
  BY <1>1 DEF vars, IInv, TypeOK, LockInv, SeenInv, InsertInv, OpInv, CleanInv, OpenInv,
              AmountInv, MayBeZero, Overdrawn, Replayed, BalanceChain, OneRowPerReference,
              PlanIsCredited
<1>2. ASSUME NEW w \in Workers, Ensure(w) PROVE IInv'
  BY <1>2, EnsureKeeps
<1>3. ASSUME NEW w \in Workers, Ask(w) PROVE IInv'
  BY <1>3, AskKeeps
<1>4. ASSUME NEW w \in Workers, Step(w) PROVE IInv'
  <2>1. CASE LookUp(w) \/ Got(w)
    BY <2>1, EnsureKeeps
  <2>2. CASE Created(w)
    BY <2>2, CreatedKeeps
  <2>3. CASE LockRow(w)
    BY <2>3, LockRowKeeps
  <2>4. CASE SizeExpiry(w)
    BY <2>4, SizeExpiryKeeps
  <2>5. CASE ReadBalance(w) \/ Insert(w)
    BY <2>5, ReadKeeps
  <2>6. CASE RefuseOverdraft(w)
    BY <2>6, RollbackKeeps DEF RefuseOverdraft
  <2>7. CASE RefuseReplay(w)
    BY <2>7, RefuseReplayKeeps
  <2>8. CASE Commit(w)
    BY <2>8, CommitKeeps
  <2>9. QED
    BY <1>4, <2>1, <2>2, <2>3, <2>4, <2>5, <2>6, <2>7, <2>8 DEF Step
<1>5. ASSUME NEW w \in Workers, Crash(w) PROVE IInv'
  BY <1>5, RollbackKeeps DEF Crash
<1>6. QED
  BY <1>1, <1>2, <1>3, <1>4, <1>5 DEF Next

-----------------------------------------------------------------------------
\* The inductive invariant holds throughout.
THEOREM Invariant == Spec => []IInv
<1>1. QED
  BY InitIInv, NextIInv, PTL DEF Spec

\* Every reachable state is well typed (ledger.py, models.py:88).
THEOREM TypeCorrect == Spec => []TypeOK
<1>1. IInv => TypeOK
  BY DEF IInv
<1>2. QED
  BY <1>1, Invariant, PTL

\* No two workers ever build on the same balance, and no row leaves a debt
\* (ledger.py:29): for any number of workers and movements.
THEOREM NoLostUpdate == Spec => []BalanceChain
<1>1. IInv => BalanceChain
  BY DEF IInv
<1>2. QED
  BY <1>1, Invariant, PTL

\* A reference is applied at most once (models.py:121).
THEOREM Idempotent == Spec => []OneRowPerReference
<1>1. IInv => OneRowPerReference
  BY DEF IInv
<1>2. QED
  BY <1>1, Invariant, PTL

\* The account is never on a plan whose credits were not granted
\* (accounts.py:69).
THEOREM PlansAreCredited == Spec => []PlanIsCredited
<1>1. IInv => PlanIsCredited
  BY DEF IInv
<1>2. QED
  BY <1>1, Invariant, PTL

-----------------------------------------------------------------------------
\* The refinement: a commit is where the movement happens, and nothing a
\* worker does before it shows.
LEMMA BalanceIsNat == ASSUME IInv PROVE Balance(ledger) \in Nat
<1>1. CASE ledger = <<>>
  BY <1>1 DEF Balance
<1>2. CASE ledger # <<>>
  <2>1. Len(ledger) \in DOMAIN ledger
    BY <1>2 DEF IInv, TypeOK
  <2>2. ledger[Len(ledger)].after >= 0
    BY <2>1 DEF IInv, BalanceChain
  <2>3. Balance(ledger) \in Int
    BY BalanceIsInt DEF IInv, TypeOK
  <2>4. QED
    BY <1>2, <2>2, <2>3 DEF Balance
<1>3. QED
  BY <1>1, <1>2

LEMMA BalanceIsNatPrime == ASSUME IInv' PROVE Balance(ledger)' \in Nat
<1>1. CASE ledger' = <<>>
  BY <1>1 DEF Balance
<1>2. CASE ledger' # <<>>
  <2>1. Len(ledger') \in DOMAIN ledger'
    BY <1>2 DEF IInv, TypeOK
  <2>2. ledger'[Len(ledger')].after >= 0
    BY <2>1 DEF IInv, BalanceChain
  <2>3. Balance(ledger') \in Int
    BY BalanceIsInt DEF IInv, TypeOK
  <2>4. QED
    BY <1>2, <2>2, <2>3 DEF Balance
<1>3. QED
  BY <1>1, <1>2

LEMMA CommitIsMove ==
  ASSUME IInv, IInv', NEW w \in Workers, Commit(w)
  PROVE  Promise!Next \/ UNCHANGED Promise!vars
<1> USE DEF IInv, TypeOK
<1>1. NewRow(w) \in Row
  BY DEF NewRow, Row, Movement
<1>2. /\ Balance(Append(ledger, NewRow(w))) = seen[w] + op[w].amount
      /\ Applied(Append(ledger, NewRow(w))) = (Applied(ledger) \cup {op[w].ref}) \ {NoRef}
  BY <1>1, AppendRow DEF NewRow
<1>3. plan' # NoPlan
  <2>1. plan = NoPlan => op[w] = TrialGrant
    BY DEF Commit, OpenInv, Inside
  <2>2. QED
    BY <2>1, CreditConstants DEF Commit, TrialGrant, Movement
<1>4. CASE plan = NoPlan
  <2>1. ledger = <<>> /\ op[w] = TrialGrant
    BY <1>4 DEF Commit, OpenInv, Inside
  <2>2. Balance(ledger) = 0 /\ Applied(ledger) = {}
    BY <2>1 DEF Balance, Applied
  <2>3. CASE pc[w] = "inserted"
    <3>1. /\ op[w].amount = MonthlyCredits[TrialPlan]
          /\ op[w].ref = TrialRef
          /\ op[w].amount > 0
      BY <2>1, <2>3, CreditConstants DEF TrialGrant, AmountInv, MayBeZero
    <3>2. ledger' = Append(ledger, NewRow(w)) /\ seen[w] = 0
      BY <2>2, <2>3 DEF Commit, SeenInv
    <3>3. Balance(ledger)' = MonthlyCredits[TrialPlan] /\ Applied(ledger)' = {TrialRef}
      BY <1>2, <2>2, <3>1, <3>2, CreditConstants
    <3>4. QED
      BY <1>3, <1>4, <3>1, <3>3 DEF Promise!Next, Promise!Open
  <2>4. CASE pc[w] = "clean"
    <3>1. ledger' = ledger
      BY <2>4 DEF Commit
    <3>2. op[w].amount = 0
      <4>1. op[w].onto # NoPlan
        BY <2>1, CreditConstants DEF TrialGrant
      <4>2. QED
        BY <4>1, <2>2, <2>4 DEF CleanInv
    <3>3. MonthlyCredits[TrialPlan] = 0
      BY <2>1, <3>2 DEF TrialGrant
    <3>4. QED
      BY <1>3, <1>4, <2>2, <3>1, <3>3 DEF Promise!Next, Promise!Open
  <2>5. QED
    BY <2>3, <2>4 DEF Commit
<1>5. CASE plan # NoPlan
  <2>1. CASE pc[w] = "clean"
    BY <1>3, <1>5, <2>1 DEF Commit, Promise!vars
  <2>2. CASE pc[w] = "inserted"
    <3>1. ledger' = Append(ledger, NewRow(w))
      BY <2>2 DEF Commit
    <3>2. /\ seen[w] = Balance(ledger)
          /\ op[w].amount # 0 /\ op[w].amount \in Int
          /\ op[w].ref \in Refs \cup {NoRef}
          /\ op[w].ref \notin Applied(ledger)
      BY <2>2 DEF SeenInv, InsertInv, AmountInv, MayBeZero, Replayed, Movement, Applied
    <3>3. Balance(ledger)' \in Nat \ {Balance(ledger)}
      <4>1. Balance(ledger)' = Balance(ledger) + op[w].amount
        BY <1>2, <3>1, <3>2
      <4>2. Balance(ledger)' \in Nat /\ Balance(ledger) \in Nat
        BY BalanceIsNat, BalanceIsNatPrime
      <4>3. QED
        BY <3>2, <4>1, <4>2
    <3>4. Promise!Move(op[w].ref)
      BY <1>2, <1>3, <1>5, <3>1, <3>2, <3>3 DEF Promise!Move
    <3>5. QED
      BY <3>2, <3>4 DEF Promise!Next
  <2>3. QED
    BY <2>1, <2>2 DEF Commit
<1>6. QED
  BY <1>4, <1>5

\* The ledger under its lock implements one atomic balance
\* (ledger.py:1-2 "locks the account row first, reads the last balance, and
\* appends one row").
THEOREM Refinement == Spec => ImplementsAccount
<1>1. Init => Promise!Init
  BY DEF Init, Promise!Init, Balance, Applied
<1>2. IInv /\ IInv' /\ [Next]_vars => [Promise!Next]_Promise!vars
  <2> SUFFICES ASSUME IInv, IInv', [Next]_vars
               PROVE  Promise!Next \/ UNCHANGED Promise!vars
    OBVIOUS
  <2>1. CASE UNCHANGED <<plan, ledger>>
    BY <2>1 DEF Promise!vars
  <2>2. ASSUME NEW w \in Workers, Commit(w)
        PROVE  Promise!Next \/ UNCHANGED Promise!vars
    BY <2>2, CommitIsMove
  <2>3. CASE UNCHANGED vars
    BY <2>1, <2>3 DEF vars
  <2>4. ASSUME NEW w \in Workers, Ensure(w) \/ Ask(w) \/ Step(w) \/ Crash(w)
        PROVE  Commit(w) \/ UNCHANGED <<plan, ledger>>
    BY <2>4 DEF Ensure, Ask, Grant, Consume, Refund, Adjust, ExpireAll, ChangePlan, Begin,
                Step, LookUp, Got, Created, LockRow, SizeExpiry, ReadBalance,
                RefuseOverdraft, RefuseReplay, Insert, Crash, Rollback
  <2>5. QED
    BY <2>1, <2>2, <2>3, <2>4 DEF Next
<1>3. QED
  BY <1>1, <1>2, Invariant, PTL DEF Spec, Promise!Spec, ImplementsAccount
=============================================================================
