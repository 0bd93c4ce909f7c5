---------------------------- MODULE CreditLedger ----------------------------
(***************************************************************************)
(* The credit ledger of ONE billing account: billing/ledger.py and the two *)
(* functions of billing/accounts.py that open an account and grant to it.  *)
(*                                                                         *)
(* A worker is a request thread or the scheduler. Its database transaction *)
(* is broken up where Postgres (READ COMMITTED) lets others in: taking the *)
(* account row's lock, reading the last row, inserting, committing. Rows   *)
(* are visible to the others only once committed; the lock falls with the  *)
(* transaction. A worker may die at any of these points.                   *)
(***************************************************************************)
EXTENDS Integers, Sequences

CONSTANTS
    Workers, NoWorker,
    Plans, NoPlan,      \* billing plans; NoPlan: there is no account yet
    TrialPlan,          \* the plan an account is opened on
    MonthlyCredits,     \* [Plans -> Nat]
    PlanRef,            \* [Plans -> SUBSET Refs] "plan:<code>:<second>:<pk>", one per second
    Refs, NoRef, TrialRef,
    Amounts,            \* the sizes a caller asks for, positive
    MaxRows             \* bound: no movement begins once the ledger is this long

ASSUME CreditConstants ==
    /\ NoWorker \notin Workers
    /\ NoPlan \notin Plans
    /\ TrialPlan \in Plans
    /\ MonthlyCredits \in [Plans -> Nat]
    /\ PlanRef \in [Plans -> SUBSET Refs]
    /\ NoRef \notin Refs
    /\ TrialRef \in Refs
    /\ \A p \in Plans : TrialRef \notin PlanRef[p]
    /\ Amounts \subseteq Nat \ {0}
    /\ MaxRows \in Nat

VARIABLES
    plan,       \* the committed account row: its plan, or NoPlan
    ledger,     \* the committed rows, oldest first
    lock,       \* who holds the account row's lock
    pc,         \* where each worker's transaction is
    op,         \* the movement each worker is making
    seen        \* the balance each worker has read

vars == <<plan, ledger, lock, pc, op, seen>>

Kinds == {"grant", "consume", "refund", "adjust", "expire"}

\* `onto` is the plan the transaction puts the account on, NoPlan for none.
Movement == [kind : Kinds, amount : Int, ref : Refs \cup {NoRef}, onto : Plans \cup {NoPlan}]

Row == [kind : Kinds, amount : Int, after : Int, ref : Refs \cup {NoRef}]

\* The points at which a transaction can be interrupted. "sized" is
\* expire_all after it has read how much to take; "clean" is a transaction
\* about to commit without a row of its own.
Inside == {"locked", "sized", "read", "inserted", "clean"}
PCs == {"idle", "ensuring", "creating", "waiting"} \cup Inside

\* balance(): the last row's balance_after, or zero.
Balance(rows) == IF rows = <<>> THEN 0 ELSE rows[Len(rows)].after

\* The references the committed rows carry.
Applied(rows) == {rows[i].ref : i \in DOMAIN rows} \ {NoRef}

\* The row _append creates from a movement and the balance it read.
NewRow(w) == [kind |-> op[w].kind, amount |-> op[w].amount,
              after |-> seen[w] + op[w].amount, ref |-> op[w].ref]

Idle == [kind |-> "grant", amount |-> 0, ref |-> NoRef, onto |-> NoPlan]

TrialGrant == [kind |-> "grant", amount |-> MonthlyCredits[TrialPlan],
               ref |-> TrialRef, onto |-> TrialPlan]

Init == /\ plan = NoPlan
        /\ ledger = <<>>
        /\ lock = NoWorker
        /\ pc = [w \in Workers |-> "idle"]
        /\ op = [w \in Workers |-> Idle]
        /\ seen = [w \in Workers |-> 0]

-----------------------------------------------------------------------------
(* What callers ask for. A refused argument changes nothing, so the checks *)
(* on amounts and reasons are the guards here.                             *)

Begin(w, m) == /\ pc[w] = "idle"
               /\ plan # NoPlan
               /\ pc' = [pc EXCEPT ![w] = "waiting"]
               /\ op' = [op EXCEPT ![w] = m]
               /\ UNCHANGED <<plan, ledger, lock, seen>>

Grant(w, n, r) ==
    Begin(w, [kind |-> "grant", amount |-> n, ref |-> r, onto |-> NoPlan])

Consume(w, n, r) ==
    Begin(w, [kind |-> "consume", amount |-> -n, ref |-> r, onto |-> NoPlan])

Refund(w, n, r) ==
    Begin(w, [kind |-> "refund", amount |-> n, ref |-> r, onto |-> NoPlan])

\* Platform staff, either way, never with a reference.
Adjust(w, n) ==
    Begin(w, [kind |-> "adjust", amount |-> n, ref |-> NoRef, onto |-> NoPlan])

ExpireAll(w, r) ==
    Begin(w, [kind |-> "expire", amount |-> 0, ref |-> r, onto |-> NoPlan])

\* change_plan: the plan and its period's credits in one transaction. Which
\* second the reference names is the clock's choice; twice the same second
\* is twice the same reference.
ChangePlan(w, p) == \E r \in PlanRef[p] :
    Begin(w, [kind |-> "grant", amount |-> MonthlyCredits[p], ref |-> r, onto |-> p])

\* ensure(): called from everywhere, before there is an account as well.
Ensure(w) == /\ pc[w] = "idle"
             /\ pc' = [pc EXCEPT ![w] = "ensuring"]
             /\ UNCHANGED <<plan, ledger, lock, op, seen>>

-----------------------------------------------------------------------------
(* Opening the account.                                                    *)

\* The unlocked look at organisation.billing_account.
LookUp(w) == /\ pc[w] = "ensuring"
             /\ pc' = [pc EXCEPT ![w] = IF plan # NoPlan THEN "idle" ELSE "creating"]
             /\ UNCHANGED <<plan, ledger, lock, op, seen>>

\* get_or_create when another worker's row is there: nothing to grant.
Got(w) == /\ pc[w] = "creating"
          /\ plan # NoPlan
          /\ pc' = [pc EXCEPT ![w] = "idle"]
          /\ UNCHANGED <<plan, ledger, lock, op, seen>>

\* get_or_create when the insert wins: the unique index makes a second
\* inserter wait for this transaction, which goes on to grant the trial.
Created(w) == /\ pc[w] = "creating"
              /\ plan = NoPlan
              /\ lock = NoWorker
              /\ lock' = w
              /\ op' = [op EXCEPT ![w] = TrialGrant]
              /\ pc' = [pc EXCEPT ![w] =
                          IF TrialGrant.amount > 0 THEN "locked" ELSE "clean"]
              /\ UNCHANGED <<plan, ledger, seen>>

-----------------------------------------------------------------------------
(* One movement.                                                           *)

\* Mutant: SELECT without FOR UPDATE.
LockRowUnlocked(w) ==
    /\ pc[w] = "waiting"
    /\ lock' = w
    /\ pc' = [pc EXCEPT ![w] =
                IF op[w].onto # NoPlan /\ op[w].amount = 0 THEN "clean" ELSE "locked"]
    /\ UNCHANGED <<plan, ledger, op, seen>>

\* Mutant: change_plan saves the plan before its transaction.
LockRowPlanSaved(w) ==
    /\ pc[w] = "waiting"
    /\ lock = NoWorker
    /\ lock' = w
    /\ pc' = [pc EXCEPT ![w] =
                IF op[w].onto # NoPlan /\ op[w].amount = 0 THEN "clean" ELSE "locked"]
    /\ plan' = IF op[w].onto # NoPlan THEN op[w].onto ELSE plan
    /\ UNCHANGED <<ledger, op, seen>>

\* _locked(): SELECT ... FOR UPDATE. change_plan to a plan without monthly
\* credits has nothing to append.
LockRow(w) == /\ pc[w] = "waiting"
              /\ lock = NoWorker
              /\ lock' = w
              /\ pc' = [pc EXCEPT ![w] =
                          IF op[w].onto # NoPlan /\ op[w].amount = 0 THEN "clean" ELSE "locked"]
              /\ UNCHANGED <<plan, ledger, op, seen>>

\* expire_all reads the balance to know what to take; at zero it is done.
SizeExpiry(w) ==
    /\ pc[w] = "locked"
    /\ op[w].kind = "expire"
    /\ IF Balance(ledger) <= 0
       THEN /\ pc' = [pc EXCEPT ![w] = "clean"]
            /\ UNCHANGED op
       ELSE /\ pc' = [pc EXCEPT ![w] = "sized"]
            /\ op' = [op EXCEPT ![w].amount = -Balance(ledger)]
    /\ UNCHANGED <<plan, ledger, lock, seen>>

\* _append reads the balance it will add to.
ReadBalance(w) ==
    /\ \/ pc[w] = "locked" /\ op[w].kind # "expire"
       \/ pc[w] = "sized"
    /\ seen' = [seen EXCEPT ![w] = Balance(ledger)]
    /\ pc' = [pc EXCEPT ![w] = "read"]
    /\ UNCHANGED <<plan, ledger, lock, op>>

\* Mutant: an error path that leaves the transaction open.
LeaveOpen(w) == /\ pc' = [pc EXCEPT ![w] = "idle"]
                /\ op' = [op EXCEPT ![w] = Idle]
                /\ seen' = [seen EXCEPT ![w] = 0]
                /\ UNCHANGED lock

\* The transaction is over, either way: its locals and its lock are gone.
Leave(w) == /\ pc' = [pc EXCEPT ![w] = "idle"]
            /\ op' = [op EXCEPT ![w] = Idle]
            /\ seen' = [seen EXCEPT ![w] = 0]
            /\ lock' = IF lock = w THEN NoWorker ELSE lock

Rollback(w) == Leave(w) /\ UNCHANGED <<plan, ledger>>

\* Mutant: a credit of grace.
OverdrawnByTwo(w) == seen[w] + op[w].amount < -1

\* The balance is checked before the reference is.
Overdrawn(w) == seen[w] + op[w].amount < 0
Replayed(w) == op[w].ref # NoRef /\ op[w].ref \in Applied(ledger)

RefuseOverdraft(w) == /\ pc[w] = "read"
                      /\ Overdrawn(w)
                      /\ Rollback(w)

\* The unique index refuses the row. change_plan swallows that and keeps its
\* own writes; everybody else's transaction is gone.
RefuseReplay(w) ==
    /\ pc[w] = "read"
    /\ ~Overdrawn(w)
    /\ Replayed(w)
    /\ \/ /\ op[w].onto = NoPlan \/ plan = NoPlan
          /\ Rollback(w)
       \/ /\ op[w].onto # NoPlan
          /\ plan # NoPlan
          /\ pc' = [pc EXCEPT ![w] = "clean"]
          /\ UNCHANGED <<plan, ledger, lock, op, seen>>

Insert(w) == /\ pc[w] = "read"
             /\ ~Overdrawn(w)
             /\ ~Replayed(w)
             /\ pc' = [pc EXCEPT ![w] = "inserted"]
             /\ UNCHANGED <<plan, ledger, lock, op, seen>>

\* COMMIT publishes the row and the plan together and drops the lock.
Commit(w) ==
    /\ pc[w] \in {"inserted", "clean"}
    /\ ledger' = IF pc[w] = "inserted" THEN Append(ledger, NewRow(w)) ELSE ledger
    /\ plan' = IF op[w].onto # NoPlan THEN op[w].onto ELSE plan
    /\ Leave(w)

\* The process goes away (a deploy, an OOM kill): Postgres rolls back.
Crash(w) == pc[w] # "idle" /\ Rollback(w)

-----------------------------------------------------------------------------
\* The keys callers make up are never those of the trial or of a plan.
CallerRefs == (Refs \ ({TrialRef} \cup UNION {PlanRef[p] : p \in Plans})) \cup {NoRef}

Ask(w) == \/ \E n \in Amounts, r \in CallerRefs :
                 Grant(w, n, r) \/ Consume(w, n, r) \/ Refund(w, n, r)
          \/ \E n \in Amounts : Adjust(w, n) \/ Adjust(w, -n)
          \/ \E r \in CallerRefs : ExpireAll(w, r)
          \/ \E p \in Plans : ChangePlan(w, p)

Step(w) == \/ LookUp(w) \/ Got(w) \/ Created(w)
           \/ LockRow(w) \/ SizeExpiry(w) \/ ReadBalance(w)
           \/ RefuseOverdraft(w) \/ RefuseReplay(w) \/ Insert(w) \/ Commit(w)

Next == \E w \in Workers : \/ Ensure(w)
                           \/ Len(ledger) < MaxRows /\ Ask(w)
                           \/ Step(w)
                           \/ Crash(w)

\* Postgres grants a contended row lock to each waiter in turn, and a running
\* statement returns; nobody is obliged to ask, nor to crash.
Fairness == \A w \in Workers : /\ WF_vars(Step(w))
                               /\ SF_vars(LockRow(w))
                               /\ SF_vars(Created(w))

Spec == Init /\ [][Next]_vars
FairSpec == Spec /\ Fairness

-----------------------------------------------------------------------------
TypeOK == /\ plan \in Plans \cup {NoPlan}
          /\ ledger \in Seq(Row)
          /\ lock \in Workers \cup {NoWorker}
          /\ pc \in [Workers -> PCs]
          /\ op \in [Workers -> Movement]
          /\ seen \in [Workers -> Int]

\* No lost update: every row's balance_after continues the row before it,
\* whichever workers wrote the two (ledger.py:29, "computed under the account
\* lock from the previous row"), and no row leaves a debt.
BalanceChain ==
    \A i \in DOMAIN ledger :
        /\ ledger[i].after = ledger[i].amount + (IF i = 1 THEN 0 ELSE ledger[i - 1].after)
        /\ ledger[i].after >= 0

\* A reference is applied at most once, however many workers bring it at the
\* same time (models.py:121).
OneRowPerReference ==
    \A i, j \in DOMAIN ledger :
        ledger[i].ref = ledger[j].ref /\ ledger[i].ref # NoRef => i = j

\* The account is never seen on a plan whose credits were not granted: the
\* plan and the grant commit together, and a swallowed duplicate was granted
\* by an earlier transaction (accounts.py:81-104; accounts.py:46-65).
PlanIsCredited ==
    plan # NoPlan /\ MonthlyCredits[plan] > 0 =>
        \E i \in DOMAIN ledger : ledger[i].ref \in PlanRef[plan] \cup
                                     (IF plan = TrialPlan THEN {TrialRef} ELSE {})

\* Nobody is left holding or waiting for the account row: every operation a
\* worker begins ends, in a row, a refusal or a crash.
EveryMovementSettles == \A w \in Workers : pc[w] # "idle" ~> pc[w] = "idle"

\* What the callers are promised: the ledger, locks and transactions are an
\* implementation of one atomic balance.
Promise == INSTANCE CreditAccount WITH
               opened <- plan # NoPlan,
               credits <- Balance(ledger),
               applied <- Applied(ledger),
               TrialCredits <- MonthlyCredits[TrialPlan]

ImplementsAccount == Promise!Spec
=============================================================================
