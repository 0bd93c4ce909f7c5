--------------------------- MODULE ModelCallsProofs ---------------------------
(***************************************************************************)
(* Proofs about ModelCalls, for any number of workers, calls, costs and    *)
(* budgets.  The steps of a call are steps of the ledger, whose invariant  *)
(* they keep (CreditLedgerProofs); what is added is the thread that runs   *)
(* from a call's phase over the movement its worker is making to the rows  *)
(* that carry its references, which nobody else's movement can carry.      *)
(***************************************************************************)
EXTENDS ModelCalls, CreditLedgerProofs, FiniteSetTheorems

CallRefs == {ChargeRef[c] : c \in Calls} \cup {RefundRef[c] : c \in Calls}

\* The two movements of a call.
ChargeOf(c) == [kind |-> "consume", amount |-> -Cost, ref |-> ChargeRef[c], onto |-> NoPlan]
RefundOf(c) == [kind |-> "refund", amount |-> Cost, ref |-> RefundRef[c], onto |-> NoPlan]

UnderWay == {"waiting", "locked", "read", "inserted"}

\* Where a worker is in get_completion says what its transaction is about.
Moving(w) ==
    /\ phase[w] \in {"checked", "building", "calling"} => pc[w] = "idle"
    /\ phase[w] \notin {"charging", "refunding"} => op[w].ref \notin CallRefs
    /\ phase[w] = "charging" => /\ pc[w] \in UnderWay
                                /\ op[w] = ChargeOf(call[w])
                                /\ Cost > 0
    /\ phase[w] = "refunding" => /\ pc[w] \in UnderWay
                                 /\ op[w] = RefundOf(call[w])
                                 /\ charged[w]

\* A worker knows whether its call is charged, and the call is not yet refunded.
Knowing(w) ==
    /\ phase[w] = "none" => call[w] = NoCall /\ ~charged[w]
    /\ phase[w] # "none" => /\ call[w] \in Calls
                            /\ fate[call[w]] = "running"
                            /\ Taken(call[w]) <=> charged[w]
                            /\ ~GivenBack(call[w])
    /\ charged[w] => phase[w] \in {"building", "calling", "refunding"} /\ Cost > 0
    /\ phase[w] \in {"building", "calling"} /\ enforced /\ Cost > 0 => charged[w]

\* No two workers make the same call.
OwnCalls == \A v, w \in Workers : v # w /\ call[w] # NoCall => call[v] # call[w]

\* A charge takes what a call costs.
ChargeRows == \A c \in Calls, i \in DOMAIN ledger :
                  ledger[i].ref = ChargeRef[c] => ledger[i].amount = -Cost

\* A step that is about another call, as far as the ledger goes.
Untouched(c) == /\ Taken(c)' <=> Taken(c)
                /\ GivenBack(c)' <=> GivenBack(c)

\* What a call has cost once it has ended.
Settled(c) ==
    /\ fate[c] = "answered" => ~GivenBack(c) /\ (enforced /\ Cost > 0 => Taken(c))
    /\ fate[c] = "failed" => Taken(c) = GivenBack(c)
    /\ fate[c] \in {"unused", "refused"} => ~Taken(c) /\ ~GivenBack(c)

CallInv == /\ CallTypeOK
           /\ \A w \in Workers : Moving(w) /\ Knowing(w)
           /\ OwnCalls
           /\ ChargeRows
           /\ RefundsMirrorCharges
           /\ \A c \in Calls : Settled(c)

-----------------------------------------------------------------------------
\* No movement but the call's own carries a call's reference.
LEMMA ReferencesOfCalls ==
  /\ NoRef \notin CallRefs
  /\ TrialRef \notin CallRefs
  /\ \A p \in Plans : PlanRef[p] \cap CallRefs = {}
  /\ Idle.ref \notin CallRefs
  /\ \A c \in Calls : /\ ChargeRef[c] \in CallRefs /\ RefundRef[c] \in CallRefs
                      /\ ChargeRef[c] # NoRef /\ RefundRef[c] # NoRef
<1>1. \A c \in Calls : ChargeRef[c] \in Refs /\ RefundRef[c] \in Refs
  BY CallConstants
<1>2. NoRef \notin CallRefs
  BY <1>1, CreditConstants DEF CallRefs
<1>3. TrialRef \notin CallRefs /\ \A p \in Plans : PlanRef[p] \cap CallRefs = {}
  <2>1. Plans # {}
    BY CreditConstants
  <2>2. QED
    BY <2>1, CallReferences DEF CallRefs
<1>4. Idle.ref = NoRef
  BY DEF Idle
<1>5. QED
  BY <1>1, <1>2, <1>3, <1>4, CreditConstants DEF CallRefs

LEMMA CallMovements ==
  ASSUME NEW c \in Calls
  PROVE  /\ ChargeOf(c) \in Movement /\ WellFormed(ChargeOf(c))
         /\ RefundOf(c) \in Movement /\ WellFormed(RefundOf(c))
         /\ ChargeOf(c).ref = ChargeRef[c] /\ RefundOf(c).ref = RefundRef[c]
<1>1. ChargeRef[c] \in Refs /\ RefundRef[c] \in Refs /\ Cost \in Int /\ -Cost \in Int
  BY CallConstants
<1>2. QED
  BY <1>1 DEF ChargeOf, RefundOf, Movement, WellFormed, Kinds

\* The only way a reference is applied is a commit of the movement that has it.
LEMMA CommitApplies ==
  ASSUME IInv, NEW w \in Workers, Commit(w), NEW c \in Calls
  PROVE  /\ pc[w] = "inserted" =>
               /\ Taken(c)' <=> (Taken(c) \/ op[w].ref = ChargeRef[c])
               /\ GivenBack(c)' <=> (GivenBack(c) \/ op[w].ref = RefundRef[c])
         /\ pc[w] # "inserted" => UNCHANGED ledger
<1>1. CASE pc[w] = "inserted"
  <2>1. NewRow(w) \in Row /\ ledger \in Seq(Row)
    BY DEF IInv, TypeOK, NewRow, Row, Movement
  <2>2. ledger' = Append(ledger, NewRow(w))
    BY <1>1 DEF Commit
  <2>3. Applied(ledger') = (Applied(ledger) \cup {op[w].ref}) \ {NoRef}
    BY <2>1, <2>2, AppendRow DEF NewRow
  <2>4. QED
    BY <1>1, <2>3, ReferencesOfCalls DEF Taken, GivenBack
<1>2. QED
  BY <1>1 DEF Commit

\* A step of one worker about one call leaves the other workers and the other
\* calls as they were.
LEMMA OthersKeep ==
  ASSUME CallInv, NEW w \in Workers, NEW d,
         d = call[w] \/ d \notin Calls \/ fate[d] = "unused",
         enforced' = enforced,
         \A v \in Workers \ {w} : /\ pc'[v] = pc[v] /\ op'[v] = op[v]
                                  /\ phase'[v] = phase[v] /\ call'[v] = call[v]
                                  /\ charged'[v] = charged[v],
         \A c \in Calls \ {d} : /\ fate'[c] = fate[c]
                                /\ Untouched(c)
  PROVE  /\ \A v \in Workers \ {w} : Moving(v)' /\ Knowing(v)'
         /\ \A c \in Calls \ {d} : Settled(c)'
<1>1. ASSUME NEW v \in Workers \ {w}
      PROVE  Moving(v)' /\ Knowing(v)'
  <2>1. Moving(v) /\ Knowing(v)
    BY DEF CallInv
  <2>2. Moving(v)'
    BY <2>1 DEF Moving
  <2>3. phase[v] # "none" => call[v] \in Calls \ {d}
    <3>1. call[v] \in Calls => call[v] # call[w]
      BY CallConstants DEF CallInv, OwnCalls
    <3>2. QED
      BY <2>1, <3>1 DEF Knowing
  <2>4. phase[v] # "none" => /\ fate'[call[v]] = fate[call[v]]
                             /\ Taken(call[v])' = Taken(call[v])
                             /\ GivenBack(call[v])' = GivenBack(call[v])
    <3>1. Taken(call[v])' = (ChargeRef[call'[v]] \in Applied(ledger)')
      BY DEF Taken
    <3>2. GivenBack(call[v])' = (RefundRef[call'[v]] \in Applied(ledger)')
      BY DEF GivenBack
    <3>3. QED
      BY <2>3, <3>1, <3>2 DEF Untouched, Taken, GivenBack
  <2>5. Knowing(v)'
    BY <2>1, <2>4 DEF Knowing
  <2>6. QED
    BY <2>2, <2>5
<1>2. ASSUME NEW c \in Calls \ {d}
      PROVE  Settled(c)'
  <2>1. fate'[c] = fate[c] /\ Untouched(c) /\ Settled(c)
    BY <1>2 DEF CallInv
  <2>2. QED
    BY <2>1 DEF Settled, Untouched, Taken, GivenBack
<1>3. QED
  BY <1>1, <1>2

\* What the rows say of charges and refunds, when none is added.
LEMMA RowsKeep ==
  ASSUME CallInv, UNCHANGED ledger
  PROVE  /\ ChargeRows' /\ RefundsMirrorCharges'
         /\ \A c \in Calls : Untouched(c)
  BY DEF CallInv, ChargeRows, RefundsMirrorCharges, Untouched, Taken, GivenBack

\* And when one is: it is a charge of the call's cost, or a refund whose charge
\* is there, or about no call.
LEMMA CommitRows ==
  ASSUME CallInv, IInv, NEW w \in Workers, Commit(w)
  PROVE  ChargeRows' /\ RefundsMirrorCharges'
<1>1. CASE pc[w] # "inserted"
  BY <1>1, RowsKeep DEF Commit
<1>2. CASE pc[w] = "inserted"
  <2> DEFINE n == Len(ledger) + 1
  <2>1. /\ n \in Nat /\ n > 0
        /\ DOMAIN ledger' = 1 .. n
        /\ DOMAIN ledger = 1 .. n - 1
        /\ ledger'[n].ref = op[w].ref /\ ledger'[n].amount = op[w].amount
        /\ \A i \in 1 .. n - 1 : ledger'[i] = ledger[i]
    <3>1. ledger \in Seq(Row) /\ ledger' = Append(ledger, NewRow(w))
      BY <1>2 DEF IInv, TypeOK, Commit
    <3>2. ledger'[n] = NewRow(w)
      BY <3>1
    <3>3. QED
      BY <3>1, <3>2 DEF NewRow
  <2>2. Moving(w) /\ Knowing(w)
    BY DEF CallInv
  <2>3. ASSUME NEW c \in Calls, op[w].ref = ChargeRef[c]
        PROVE  op[w].amount = -Cost
    <3>1. phase[w] # "none" => call[w] \in Calls
      BY <2>2 DEF Knowing
    <3>2. phase[w] = "charging"
      <4>1. phase[w] = "refunding" => op[w].ref = RefundRef[call[w]]
        BY <2>2, <3>1, CallMovements DEF Moving
      <4>2. op[w].ref \in CallRefs
        BY <2>3, ReferencesOfCalls
      <4>3. phase[w] \in {"charging", "refunding"}
        BY <2>2, <4>2 DEF Moving
      <4>4. QED
        BY <2>3, <3>1, <4>1, <4>3, CallReferences
    <3>3. QED
      BY <2>2, <3>2 DEF Moving, ChargeOf
  <2>4. ASSUME NEW c \in Calls, op[w].ref = RefundRef[c]
        PROVE  /\ op[w].amount = Cost
               /\ \E j \in 1 .. n - 1 : ledger[j].ref = ChargeRef[c] /\ ledger[j].amount = -Cost
    <3>1. phase[w] # "none" => call[w] \in Calls
      BY <2>2 DEF Knowing
    <3>2. phase[w] = "refunding"
      <4>1. phase[w] = "charging" => op[w].ref = ChargeRef[call[w]]
        BY <2>2, <3>1, CallMovements DEF Moving
      <4>2. op[w].ref \in CallRefs
        BY <2>4, ReferencesOfCalls
      <4>3. phase[w] \in {"charging", "refunding"}
        BY <2>2, <4>2 DEF Moving
      <4>4. QED
        BY <2>4, <3>1, <4>1, <4>3, CallReferences
    <3>3. op[w] = RefundOf(call[w]) /\ charged[w]
      BY <2>2, <3>2 DEF Moving
    <3>4. call[w] = c
      <4>1. call[w] \in Calls /\ op[w].ref = RefundRef[call[w]]
        BY <3>1, <3>2, <3>3, CallMovements
      <4>2. QED
        BY <2>4, <4>1, CallReferences
    <3>5. Taken(c)
      BY <2>2, <3>2, <3>3, <3>4 DEF Knowing
    <3>6. PICK j \in DOMAIN ledger : ledger[j].ref = ChargeRef[c]
      BY <3>5 DEF Taken, Applied
    <3>7. ledger[j].amount = -Cost
      BY <3>6 DEF CallInv, ChargeRows
    <3>8. QED
      BY <2>1, <3>3, <3>6, <3>7 DEF RefundOf
  <2>5. \A i \in 1 .. n : i = n \/ i \in 1 .. n - 1
    BY <2>1
  <2>6. ChargeRows'
    BY <2>1, <2>3, <2>5 DEF CallInv, ChargeRows
  <2>7. ASSUME NEW c \in Calls, NEW i \in 1 .. n, ledger'[i].ref = RefundRef[c]
        PROVE  \E j \in 1 .. i - 1 : /\ ledger'[j].ref = ChargeRef[c]
                                     /\ ledger'[j].amount = -ledger'[i].amount
    <3>1. CASE i = n
      <4>1. PICK j \in 1 .. n - 1 : ledger[j].ref = ChargeRef[c] /\ ledger[j].amount = -Cost
        BY <2>1, <2>4, <2>7, <3>1
      <4>2. op[w].amount = Cost
        BY <2>1, <2>4, <2>7, <3>1
      <4>3. QED
        BY <2>1, <3>1, <4>1, <4>2
    <3>2. CASE i \in 1 .. n - 1
      <4>1. PICK j \in 1 .. i - 1 : /\ ledger[j].ref = ChargeRef[c]
                                    /\ ledger[j].amount = -ledger[i].amount
        BY <2>1, <2>7, <3>2 DEF CallInv, RefundsMirrorCharges
      <4>2. j \in 1 .. n - 1
        BY <2>1, <3>2, <4>1
      <4>3. QED
        BY <2>1, <3>2, <4>1, <4>2
    <3>3. QED
      BY <2>5, <2>7, <3>1, <3>2
  <2>8. RefundsMirrorCharges'
    BY <2>1, <2>7 DEF RefundsMirrorCharges
  <2>9. QED
    BY <2>6, <2>8
<1>3. QED
  BY <1>1, <1>2

-----------------------------------------------------------------------------
\* A call that begins, or is refused for the budget, has cost nothing yet.
LEMMA StartKeeps ==
  ASSUME CallInv, NEW w \in Workers, NEW c \in Calls, StartCall(w, c), enforced' = enforced,
         CallTypeOK'
  PROVE  CallInv'
<1> USE DEF StartCall, vars
<1>0. Moving(w) /\ Knowing(w) /\ Settled(c) /\ CallTypeOK
  BY DEF CallInv
<1>1. UNCHANGED ledger /\ pc' = pc /\ op' = op /\ charged' = charged
  OBVIOUS
<1>2. /\ \A v \in Workers \ {w} : Moving(v)' /\ Knowing(v)'
      /\ \A d \in Calls \ {c} : Settled(d)'
  BY <1>0, <1>1, RowsKeep, OthersKeep DEF Goto, CallTypeOK
<1>3. ~Taken(c) /\ ~GivenBack(c) /\ ~Taken(c)' /\ ~GivenBack(c)'
  BY <1>0, <1>1, RowsKeep DEF Settled, Untouched
<1>4. CASE spent >= Budget
  <2>1. fate' = [fate EXCEPT ![c] = "refused"] /\ phase' = phase /\ call' = call
    BY <1>4
  <2>2. Moving(w)' /\ Knowing(w)'
    BY <1>0, <1>1, <2>1 DEF Moving, Knowing
  <2>3. Settled(c)'
    BY <1>0, <1>3, <2>1 DEF Settled, CallTypeOK
  <2>4. OwnCalls'
    BY <2>1 DEF CallInv, OwnCalls
  <2>5. QED
    BY <1>1, <1>2, <2>2, <2>3, <2>4, RowsKeep DEF CallInv
<1>5. CASE ~(spent >= Budget)
  <2>1. /\ fate' = [fate EXCEPT ![c] = "running"]
        /\ phase' = [phase EXCEPT ![w] = "checked"]
        /\ call' = [call EXCEPT ![w] = c]
    BY <1>5 DEF Goto
  <2>2. /\ fate'[c] = "running" /\ phase'[w] = "checked" /\ call'[w] = c
        /\ \A v \in Workers \ {w} : call'[v] = call[v]
    BY <1>0, <2>1 DEF CallTypeOK
  <2>3. Moving(w)' /\ Knowing(w)'
    <3>1. Taken(call[w])' = Taken(c)' /\ GivenBack(call[w])' = GivenBack(c)'
      BY <2>2 DEF Taken, GivenBack
    <3>2. QED
      BY <1>0, <1>1, <1>3, <2>2, <3>1 DEF Moving, Knowing
  <2>4. Settled(c)'
    BY <2>2 DEF Settled
  <2>5. OwnCalls'
    <3>1. \A v \in Workers : call[v] # c
      <4>1. \A v \in Workers : phase[v] # "none" => fate[call[v]] = "running"
        BY DEF CallInv, Knowing
      <4>2. \A v \in Workers : phase[v] = "none" => call[v] = NoCall
        BY DEF CallInv, Knowing
      <4>3. QED
        BY <4>1, <4>2, CallConstants
    <3>2. QED
      BY <2>2, <3>1 DEF CallInv, OwnCalls
  <2>6. QED
    BY <1>1, <1>2, <2>3, <2>4, <2>5, RowsKeep DEF CallInv
<1>6. QED
  BY <1>4, <1>5

\* The charge begins, or there is nothing to charge.
LEMMA ChargeKeeps ==
  ASSUME CallInv, NEW w \in Workers, Charge(w), enforced' = enforced, CallTypeOK'
  PROVE  CallInv'
<1> USE DEF Charge
<1>0. Moving(w) /\ Knowing(w) /\ CallTypeOK /\ call[w] \in Calls
  BY DEF CallInv, Knowing
<1>1. UNCHANGED ledger /\ call' = call /\ charged' = charged /\ fate' = fate
  BY DEF Consume, Begin, vars
<1>2. \A v \in Workers \ {w} : pc'[v] = pc[v] /\ op'[v] = op[v] /\ phase'[v] = phase[v]
  BY <1>0 DEF Consume, Begin, vars, Goto, CallTypeOK, TypeOK
<1>3. /\ \A v \in Workers \ {w} : Moving(v)' /\ Knowing(v)'
      /\ \A d \in Calls \ {call[w]} : Settled(d)'
  BY <1>1, <1>2, RowsKeep, OthersKeep
<1>4. Settled(call[w])'
  BY <1>0, <1>1 DEF Settled, Knowing
<1>5. Taken(call[w])' = Taken(call[w]) /\ GivenBack(call[w])' = GivenBack(call[w])
  BY <1>1 DEF Taken, GivenBack
<1>6. Moving(w)' /\ Knowing(w)'
  <2>1. CASE Cost = 0
    <3>1. phase'[w] = "building" /\ pc' = pc /\ op' = op
      BY <1>0, <2>1 DEF Goto, CallTypeOK, vars
    <3>2. QED
      BY <1>0, <1>1, <1>5, <2>1, <3>1 DEF Moving, Knowing
  <2>2. CASE Cost # 0
    <3>1. phase'[w] = "charging" /\ pc'[w] = "waiting" /\ op'[w] = ChargeOf(call[w])
      BY <1>0, <2>2 DEF Goto, Consume, Begin, ChargeOf, CallTypeOK, TypeOK
    <3>2. Cost > 0
      BY <2>2, CallConstants
    <3>3. Moving(w)'
      BY <1>1, <3>1, <3>2 DEF Moving, ChargeOf, UnderWay
    <3>4. QED
      BY <1>0, <1>1, <1>5, <3>1, <3>3 DEF Knowing
  <2>3. QED
    BY <2>1, <2>2
<1>7. OwnCalls'
  BY <1>1 DEF CallInv, OwnCalls
<1>8. QED
  BY <1>1, <1>3, <1>4, <1>6, <1>7, RowsKeep DEF CallInv

\* The charge is committed: the call's reference is in the ledger, and its
\* worker knows.
LEMMA ChargedKeeps ==
  ASSUME CallInv, IInv, NEW w \in Workers, Charged(w), enforced' = enforced, CallTypeOK'
  PROVE  CallInv'
<1> USE DEF Charged
<1>0. Moving(w) /\ Knowing(w) /\ CallTypeOK /\ call[w] \in Calls
  BY DEF CallInv, Knowing
<1>1. /\ pc[w] = "inserted" /\ op[w].ref = ChargeRef[call[w]] /\ Cost > 0
      /\ Commit(w) /\ call' = call /\ fate' = fate
  BY <1>0, CallMovements DEF Moving, Commit, UnderWay
<1>2. \A c \in Calls \ {call[w]} : Untouched(c)
  <2> SUFFICES ASSUME NEW c \in Calls \ {call[w]}
               PROVE  Untouched(c)
    OBVIOUS
  <2>1. op[w].ref # ChargeRef[c] /\ op[w].ref # RefundRef[c]
    BY <1>0, <1>1, CallReferences
  <2>2. QED
    BY <1>1, <2>1, CommitApplies DEF Untouched
<1>3. Taken(call[w])' /\ GivenBack(call[w])' = GivenBack(call[w])
  <2>1. /\ ChargeRef[call[w]] \in Applied(ledger')
        /\ RefundRef[call[w]] \in Applied(ledger') <=> RefundRef[call[w]] \in Applied(ledger)
    BY <1>0, <1>1, CommitApplies, CallReferences DEF Taken, GivenBack
  <2>2. QED
    BY <1>1, <2>1 DEF Taken, GivenBack
<1>4. \A v \in Workers \ {w} : /\ pc'[v] = pc[v] /\ op'[v] = op[v] /\ phase'[v] = phase[v]
                               /\ call'[v] = call[v] /\ charged'[v] = charged[v]
  BY <1>0 DEF Commit, Leave, Goto, CallTypeOK, TypeOK
<1>5. /\ \A v \in Workers \ {w} : Moving(v)' /\ Knowing(v)'
      /\ \A d \in Calls \ {call[w]} : Settled(d)'
  BY <1>1, <1>2, <1>4, OthersKeep
<1>6. Settled(call[w])'
  BY <1>0, <1>1 DEF Settled, Knowing
<1>7. phase'[w] = "building" /\ pc'[w] = "idle" /\ op'[w] = Idle /\ charged'[w] = TRUE
  BY <1>0 DEF Commit, Leave, Goto, CallTypeOK, TypeOK
<1>8. Moving(w)' /\ Knowing(w)'
  BY <1>0, <1>1, <1>3, <1>7, ReferencesOfCalls DEF Moving, Knowing
<1>9. OwnCalls'
  BY <1>1 DEF CallInv, OwnCalls
<1>10. QED
  BY <1>1, <1>5, <1>6, <1>8, <1>9, CommitRows DEF CallInv

\* The call's end, however it ends, with the ledger as its worker knows it.
LEMMA EndKeeps ==
  ASSUME CallInv, NEW w \in Workers, NEW how \in Fates \ {"unused", "running"},
         phase[w] # "none", End(w, how), enforced' = enforced, CallTypeOK',
         ChargeRows', RefundsMirrorCharges',
         \A c \in Calls \ {call[w]} : Untouched(c),
         \A v \in Workers \ {w} : pc'[v] = pc[v] /\ op'[v] = op[v],
         op'[w].ref \notin CallRefs,
         \A c \in {call[w]} : Settled(c)'
  PROVE  CallInv'
<1> USE DEF End
<1>0. Moving(w) /\ Knowing(w) /\ CallTypeOK /\ call[w] \in Calls
  BY DEF CallInv, Knowing
<1>1. /\ phase'[w] = "none" /\ call'[w] = NoCall /\ charged'[w] = FALSE
      /\ fate'[call[w]] = how
  BY <1>0 DEF CallTypeOK
<1>2. /\ \A v \in Workers \ {w} : /\ phase'[v] = phase[v] /\ call'[v] = call[v]
                                  /\ charged'[v] = charged[v]
      /\ \A c \in Calls \ {call[w]} : fate'[c] = fate[c]
  BY <1>0 DEF CallTypeOK
<1>3. /\ \A v \in Workers \ {w} : Moving(v)' /\ Knowing(v)'
      /\ \A d \in Calls \ {call[w]} : Settled(d)'
  BY <1>2, OthersKeep
<1>4. Moving(w)' /\ Knowing(w)'
  BY <1>1 DEF Moving, Knowing
<1>5. OwnCalls'
  BY <1>1, <1>2 DEF CallInv, OwnCalls
<1>6. \A c \in Calls : Settled(c)'
  BY <1>0, <1>1, <1>3
<1>7. QED
  BY <1>3, <1>4, <1>5, <1>6 DEF CallInv

\* Every end of a call that leaves the ledger as it is: a refusal, an answer, an
\* error without a charge, a crash.
LEMMA QuietEndKeeps ==
  ASSUME CallInv, NEW w \in Workers, NEW how \in {"answered", "failed", "refused", "crashed"},
         phase[w] # "none", End(w, how), UNCHANGED <<ledger, enforced>>, CallTypeOK',
         \A v \in Workers \ {w} : pc'[v] = pc[v] /\ op'[v] = op[v],
         op'[w].ref \notin CallRefs,
         how = "answered" => phase[w] = "calling",
         how = "failed" => ~charged[w],
         how = "refused" => ~charged[w]
  PROVE  CallInv'
<1>0. Knowing(w) /\ CallTypeOK
  BY DEF CallInv
<1>1. call[w] \in Calls /\ fate'[call[w]] = how
  BY <1>0 DEF Knowing, End, CallTypeOK
<1>2. \A c \in {call[w]} : Settled(c)'
  <2>1. \A c \in {call[w]} : /\ Taken(c)' <=> charged[w]
                             /\ ~GivenBack(c)'
                             /\ fate'[c] = how
    BY <1>0, <1>1, RowsKeep DEF Knowing, Untouched
  <2>2. how = "answered" /\ enforced /\ Cost > 0 => charged[w]
    BY <1>0 DEF Knowing
  <2>3. QED
    BY <2>1, <2>2 DEF Settled, Taken, GivenBack
<1>3. how \in Fates \ {"unused", "running"}
  BY DEF Fates
<1>4. QED
  BY <1>2, <1>3, RowsKeep, EndKeeps

\* A transaction that is over leaves the other workers' alone.
LEMMA LeaveFrame ==
  ASSUME TypeOK, NEW w \in Workers, Leave(w)
  PROVE  /\ \A v \in Workers \ {w} : pc'[v] = pc[v] /\ op'[v] = op[v]
         /\ pc'[w] = "idle" /\ op'[w] = Idle /\ op'[w].ref \notin CallRefs
  BY ReferencesOfCalls DEF Leave, TypeOK

\* A step that a worker takes within its call, the ledger and the calls' ends as
\* they were: what has to be shown is what that worker knows.
LEMMA InCallKeeps ==
  ASSUME CallInv, NEW w \in Workers, UNCHANGED <<ledger, enforced, call, charged, fate>>,
         \A v \in Workers \ {w} : pc'[v] = pc[v] /\ op'[v] = op[v] /\ phase'[v] = phase[v],
         CallTypeOK', Moving(w)',
         phase'[w] = "none" <=> phase[w] = "none",
         charged[w] => phase'[w] \in {"building", "calling", "refunding"},
         phase'[w] \in {"building", "calling"} /\ enforced /\ Cost > 0 => charged[w]
  PROVE  CallInv'
<1>1. Knowing(w) /\ Taken(call[w])' = Taken(call[w]) /\ GivenBack(call[w])' = GivenBack(call[w])
  BY DEF CallInv, Taken, GivenBack
<1>2. Knowing(w)'
  BY <1>1 DEF Knowing
<1>3. \A c \in Calls : fate'[c] = fate[c] /\ Untouched(c)
  BY RowsKeep
<1>4. /\ \A v \in Workers \ {w} : Moving(v)' /\ Knowing(v)'
      /\ \A d \in Calls \ {call[w]} : Settled(d)'
  BY <1>3, OthersKeep
<1>5. \A c \in Calls : Settled(c)'
  BY <1>3 DEF CallInv, Settled, Untouched, Taken, GivenBack
<1>6. OwnCalls'
  BY DEF CallInv, OwnCalls
<1>7. QED
  BY <1>2, <1>4, <1>5, <1>6, RowsKeep DEF CallInv

LEMMA ExhaustedKeeps ==
  ASSUME CallInv, NEW w \in Workers, Exhausted(w), enforced' = enforced, CallTypeOK'
  PROVE  CallInv'
<1>0. /\ Moving(w) /\ Knowing(w) /\ CallTypeOK /\ TypeOK /\ Leave(w) /\ ledger' = ledger
      /\ phase[w] = "charging" /\ ~charged[w]
  BY DEF CallInv, CallTypeOK, Knowing, Exhausted, RefuseOverdraft, Rollback
<1>1. CASE enforced /\ End(w, "refused")
  BY <1>0, <1>1, LeaveFrame, QuietEndKeeps
<1>2. CASE ~enforced /\ Goto(w, "building") /\ UNCHANGED <<call, charged, fate>>
  <2>1. /\ phase'[w] = "building"
        /\ \A v \in Workers \ {w} : phase'[v] = phase[v]
    BY <1>0, <1>2 DEF Goto, CallTypeOK
  <2>2. Moving(w)'
    BY <1>0, <2>1, LeaveFrame DEF Moving
  <2>3. QED
    BY <1>0, <1>2, <2>1, <2>2, LeaveFrame, InCallKeeps
<1>3. QED
  BY <1>1, <1>2 DEF Exhausted

LEMMA BuildClientKeeps ==
  ASSUME CallInv, NEW w \in Workers, BuildClient(w), enforced' = enforced, CallTypeOK'
  PROVE  CallInv'
<1>0. /\ Moving(w) /\ Knowing(w) /\ CallTypeOK /\ phase[w] = "building"
      /\ pc' = pc /\ op' = op /\ UNCHANGED <<ledger, enforced, call, charged, fate>>
      /\ phase' = [phase EXCEPT ![w] = "calling"]
  BY DEF CallInv, BuildClient, vars, Goto
<1>1. phase'[w] = "calling" /\ \A v \in Workers \ {w} : phase'[v] = phase[v]
  BY <1>0 DEF CallTypeOK
<1>2. Moving(w)'
  BY <1>0, <1>1 DEF Moving
<1>3. QED
  BY <1>0, <1>1, <1>2, InCallKeeps DEF Knowing

LEMMA AnswerKeeps ==
  ASSUME CallInv, NEW w \in Workers, Answer(w), enforced' = enforced, CallTypeOK'
  PROVE  CallInv'
<1>1. /\ phase[w] = "calling" /\ End(w, "answered")
      /\ pc' = pc /\ op' = op /\ ledger' = ledger /\ op[w].ref \notin CallRefs
  BY DEF CallInv, Answer, vars, Moving
<1>2. QED
  BY <1>1, QuietEndKeeps

\* The refund of what was charged begins; what was not charged needs none.
LEMMA FailKeeps ==
  ASSUME CallInv, NEW w \in Workers, Fail(w), enforced' = enforced, CallTypeOK'
  PROVE  CallInv'
<1>0. /\ Moving(w) /\ Knowing(w) /\ CallTypeOK /\ TypeOK /\ phase[w] \in {"building", "calling"}
  BY DEF CallInv, CallTypeOK, Fail
<1>1. CASE charged[w]
  <2>1. /\ Refund(w, Cost, RefundRef[call[w]]) /\ Goto(w, "refunding")
        /\ UNCHANGED <<call, charged, fate>>
    BY <1>1 DEF Fail
  <2>2. /\ phase'[w] = "refunding" /\ pc'[w] = "waiting" /\ op'[w] = RefundOf(call[w])
        /\ \A v \in Workers \ {w} : pc'[v] = pc[v] /\ op'[v] = op[v] /\ phase'[v] = phase[v]
        /\ ledger' = ledger
    BY <1>0, <2>1 DEF Refund, Begin, Goto, CallTypeOK, TypeOK, RefundOf
  <2>3. Moving(w)'
    BY <1>1, <2>1, <2>2 DEF Moving, UnderWay, RefundOf
  <2>4. QED
    BY <1>0, <1>1, <2>1, <2>2, <2>3, InCallKeeps
<1>2. CASE ~charged[w]
  <2>1. /\ End(w, "failed") /\ pc' = pc /\ op' = op /\ ledger' = ledger
        /\ op[w].ref \notin CallRefs
    BY <1>0, <1>2 DEF Fail, vars, Moving
  <2>2. QED
    BY <1>0, <1>2, <2>1, QuietEndKeeps
<1>3. QED
  BY <1>1, <1>2

\* The refund is committed: the call was charged, and is now given back.
LEMMA RefundedKeeps ==
  ASSUME CallInv, IInv, NEW w \in Workers, Refunded(w), enforced' = enforced, CallTypeOK'
  PROVE  CallInv'
<1>0. /\ Moving(w) /\ Knowing(w) /\ CallTypeOK /\ TypeOK /\ call[w] \in Calls
      /\ phase[w] = "refunding" /\ charged[w] /\ Leave(w) /\ Commit(w) /\ End(w, "failed")
  BY DEF CallInv, CallTypeOK, Knowing, Moving, Refunded, Commit
<1>1. pc[w] = "inserted" /\ op[w].ref = RefundRef[call[w]]
  BY <1>0, CallMovements DEF Moving, Commit, UnderWay
<1>2. ASSUME NEW c \in Calls \ {call[w]}
      PROVE  Untouched(c)
  <2>1. op[w].ref # ChargeRef[c] /\ op[w].ref # RefundRef[c]
    BY <1>0, <1>1, CallReferences
  <2>2. QED
    BY <1>0, <1>1, <2>1, CommitApplies DEF Untouched
<1>3. \A c \in {call[w]} : Settled(c)'
  <2>1. \A c \in {call[w]} : Taken(c)' /\ GivenBack(c)'
    BY <1>0, <1>1, CommitApplies DEF Knowing
  <2>2. fate'[call[w]] = "failed"
    BY <1>0 DEF End, CallTypeOK
  <2>3. QED
    BY <2>1, <2>2 DEF Settled, Taken, GivenBack
<1>4. "failed" \in Fates \ {"unused", "running"}
  BY DEF Fates
<1>5. QED
  BY <1>0, <1>2, <1>3, <1>4, CommitRows, LeaveFrame, EndKeeps

\* The inner steps of a transaction leave what it is about as it is.
LEMMA InnerKeeps ==
  ASSUME CallInv, NEW w \in Workers, Inner(w), enforced' = enforced, CallTypeOK'
  PROVE  CallInv'
<1>0. /\ Moving(w) /\ Knowing(w) /\ CallTypeOK /\ TypeOK
      /\ UNCHANGED <<ledger, enforced, call, charged, fate, phase, op>>
  BY DEF CallInv, CallTypeOK, Inner, callVars, LockRow, ReadBalance, Insert
<1>1. /\ \A v \in Workers \ {w} : pc'[v] = pc[v]
      /\ pc[w] # "idle"
      /\ op[w].onto = NoPlan => pc'[w] \in UnderWay
  BY <1>0 DEF Inner, LockRow, ReadBalance, Insert, TypeOK, UnderWay
<1>2. /\ phase[w] = "charging" => op[w].onto = NoPlan
      /\ phase[w] = "refunding" => op[w].onto = NoPlan
  BY <1>0 DEF Moving, ChargeOf, RefundOf
<1>3. Moving(w)'
  BY <1>0, <1>1, <1>2 DEF Moving, ChargeOf, RefundOf
<1>4. QED
  BY <1>0, <1>1, <1>3, InCallKeeps DEF Knowing

\* A worker that makes no call touches no call's reference.
LEMMA OutsideKeeps ==
  ASSUME CallInv, NEW w \in Workers, phase[w] = "none", UNCHANGED <<callVars, enforced>>,
         \A v \in Workers \ {w} : pc'[v] = pc[v] /\ op'[v] = op[v],
         op'[w].ref \notin CallRefs,
         \A c \in Calls : Untouched(c),
         ChargeRows', RefundsMirrorCharges', CallTypeOK'
  PROVE  CallInv'
<1> USE DEF callVars
<1>1. Moving(w)' /\ Knowing(w)'
  BY DEF CallInv, Moving, Knowing
<1>2. /\ \A v \in Workers \ {w} : Moving(v)' /\ Knowing(v)'
      /\ \A c \in Calls \ {NoCall} : Settled(c)'
  BY CallConstants, OthersKeep
<1>3. OwnCalls'
  BY DEF CallInv, OwnCalls
<1>4. QED
  BY <1>1, <1>2, <1>3, CallConstants DEF CallInv

LEMMA NotACallKeeps ==
  ASSUME CallInv, IInv, NEW w \in Workers, NotACall(w), enforced' = enforced, CallTypeOK'
  PROVE  CallInv'
<1>0. /\ Moving(w) /\ CallTypeOK /\ TypeOK /\ phase[w] = "none"
      /\ UNCHANGED <<callVars, enforced>> /\ op[w].ref \notin CallRefs
  BY DEF CallInv, CallTypeOK, NotACall, Moving
<1>1. ASSUME NEW m \in Movement, m.ref \notin CallRefs, Begin(w, m)
      PROVE  CallInv'
  <2>1. /\ ledger' = ledger /\ op'[w] = m
        /\ \A v \in Workers \ {w} : pc'[v] = pc[v] /\ op'[v] = op[v]
    BY <1>0, <1>1 DEF Begin, TypeOK
  <2>2. QED
    BY <1>0, <1>1, <2>1, RowsKeep, OutsideKeeps
<1>2. ASSUME NEW n \in Amounts, Adjust(w, n) \/ Adjust(w, -n)
      PROVE  CallInv'
  <2> DEFINE m(a) == [kind |-> "adjust", amount |-> a, ref |-> NoRef, onto |-> NoPlan]
  <2>1. PICK a \in {n, -n} : Begin(w, m(a))
    BY <1>2 DEF Adjust
  <2>2. m(a) \in Movement /\ m(a).ref \notin CallRefs
    BY <1>2, CreditConstants, ReferencesOfCalls DEF Movement, Kinds
  <2>3. QED
    BY <1>1, <2>1, <2>2
<1>3. ASSUME NEW p \in Plans, ChangePlan(w, p)
      PROVE  CallInv'
  <2> DEFINE m(r) == [kind |-> "grant", amount |-> MonthlyCredits[p], ref |-> r, onto |-> p]
  <2>1. PICK r \in PlanRef[p] : Begin(w, m(r))
    BY <1>3 DEF ChangePlan
  <2>2. m(r) \in Movement /\ m(r).ref \notin CallRefs
    BY <2>1, CreditConstants, ReferencesOfCalls DEF Movement, Kinds
  <2>3. QED
    BY <1>1, <2>1, <2>2
<1>4. CASE Ensure(w) \/ LookUp(w) \/ Got(w)
  <2>1. /\ ledger' = ledger /\ op' = op
        /\ \A v \in Workers \ {w} : pc'[v] = pc[v]
    BY <1>0, <1>4 DEF Ensure, LookUp, Got, TypeOK
  <2>2. QED
    BY <1>0, <2>1, RowsKeep, OutsideKeeps
<1>5. CASE Created(w)
  <2>1. /\ ledger' = ledger /\ op'[w].ref = TrialRef
        /\ \A v \in Workers \ {w} : pc'[v] = pc[v] /\ op'[v] = op[v]
    BY <1>0, <1>5 DEF Created, TypeOK, TrialGrant
  <2>2. QED
    BY <1>0, <2>1, ReferencesOfCalls, RowsKeep, OutsideKeeps
<1>6. CASE Rollback(w)
  BY <1>0, <1>6, LeaveFrame, RowsKeep, OutsideKeeps DEF Rollback
<1>7. CASE RefuseReplay(w) /\ ~Rollback(w)
  <2>1. /\ ledger' = ledger /\ op' = op
        /\ \A v \in Workers \ {w} : pc'[v] = pc[v]
    BY <1>0, <1>7 DEF RefuseReplay, TypeOK
  <2>2. QED
    BY <1>0, <2>1, RowsKeep, OutsideKeeps
<1>8. CASE Commit(w)
  <2>1. Leave(w)
    BY <1>8 DEF Commit
  <2>2. \A c \in Calls : op[w].ref # ChargeRef[c] /\ op[w].ref # RefundRef[c]
    BY <1>0, ReferencesOfCalls
  <2>3. \A c \in Calls : Untouched(c)
    BY <1>8, <2>2, CommitApplies, RowsKeep DEF Untouched
  <2>4. QED
    BY <1>0, <1>8, <2>1, <2>3, LeaveFrame, CommitRows, OutsideKeeps
<1>9. QED
  BY <1>2, <1>3, <1>4, <1>5, <1>6, <1>7, <1>8 DEF NotACall, RefuseOverdraft

LEMMA DieKeeps ==
  ASSUME CallInv, NEW w \in Workers, Die(w), enforced' = enforced, CallTypeOK'
  PROVE  CallInv'
<1>0. /\ CallTypeOK /\ TypeOK /\ Rollback(w) /\ Leave(w) /\ ledger' = ledger
  BY DEF CallInv, CallTypeOK, Die, Crash, Rollback
<1>1. CASE phase[w] = "none"
  BY <1>0, <1>1, LeaveFrame, RowsKeep, OutsideKeeps DEF Die
<1>2. CASE phase[w] # "none"
  BY <1>0, <1>2, LeaveFrame, QuietEndKeeps DEF Die
<1>3. QED
  BY <1>1, <1>2

LEMMA NewMonthKeeps ==
  ASSUME CallInv, NewMonth, enforced' = enforced, CallTypeOK'
  PROVE  CallInv'
  BY DEF NewMonth, vars, CallInv, Moving, Knowing, OwnCalls, ChargeRows,
         RefundsMirrorCharges, Settled, Taken, GivenBack

-----------------------------------------------------------------------------
\* The steps of a call are steps of the ledger.
LEMMA CallKeepsLedger ==
  ASSUME IInv, CallInv, CallNext
  PROVE  IInv'
<1>1. CASE UNCHANGED vars
  BY <1>1, NextIInv
<1>2. ASSUME NEW w \in Workers, Charge(w) PROVE IInv'
  <2>1. call[w] \in Calls
    BY <1>2 DEF CallInv, Knowing, Charge
  <2>2. CASE Cost # 0
    <3>1. Begin(w, ChargeOf(call[w]))
      BY <1>2, <2>2 DEF Charge, Consume, ChargeOf
    <3>2. ChargeOf(call[w]).amount # 0
      BY <2>2, CallConstants DEF ChargeOf
    <3>3. QED
      BY <2>1, <3>1, <3>2, CallMovements, BeginKeeps
  <2>3. QED
    BY <1>1, <1>2, <2>2 DEF Charge
<1>3. ASSUME NEW w \in Workers, Charged(w) \/ Refunded(w) PROVE IInv'
  BY <1>3, CommitKeeps DEF Charged, Refunded
<1>4. ASSUME NEW w \in Workers, Exhausted(w) PROVE IInv'
  BY <1>4, RollbackKeeps DEF Exhausted, RefuseOverdraft
<1>5. ASSUME NEW w \in Workers, Fail(w) PROVE IInv'
  <2>1. call[w] \in Calls /\ (charged[w] => Cost > 0)
    BY <1>5 DEF CallInv, Knowing, Fail
  <2>2. CASE charged[w]
    <3>1. Begin(w, RefundOf(call[w]))
      BY <1>5, <2>2 DEF Fail, Refund, RefundOf
    <3>2. RefundOf(call[w]).amount # 0
      BY <2>1, <2>2, CallConstants DEF RefundOf
    <3>3. QED
      BY <2>1, <3>1, <3>2, CallMovements, BeginKeeps
  <2>3. QED
    BY <1>1, <1>5, <2>2 DEF Fail
<1>6. ASSUME NEW w \in Workers, Inner(w) PROVE IInv'
  BY <1>6, LockRowKeeps, ReadKeeps DEF Inner
<1>7. ASSUME NEW w \in Workers, NotACall(w) PROVE IInv'
  <2>1. (\E n \in Amounts : Adjust(w, n) \/ Adjust(w, -n)) \/ (\E p \in Plans : ChangePlan(w, p))
            => Ask(w)
    BY DEF Ask
  <2>2. RefuseOverdraft(w) => Rollback(w)
    BY DEF RefuseOverdraft
  <2>3. QED
    BY <1>7, <2>1, <2>2, AskKeeps, EnsureKeeps, CreatedKeeps, RollbackKeeps,
       RefuseReplayKeeps, CommitKeeps DEF NotACall
<1>8. ASSUME NEW w \in Workers, Die(w) PROVE IInv'
  BY <1>8, RollbackKeeps DEF Die, Crash
<1>9. ASSUME NEW w \in Workers, BuildClient(w) \/ Answer(w) \/ \E c \in Calls : StartCall(w, c)
      PROVE  UNCHANGED vars
  BY <1>9 DEF BuildClient, Answer, StartCall
<1>10. QED
  BY <1>1, <1>2, <1>3, <1>4, <1>5, <1>6, <1>7, <1>8, <1>9 DEF CallNext, CallStep, NewMonth

LEMMA CallTyped ==
  ASSUME CallTypeOK, TypeOK', CallNext
  PROVE  CallTypeOK'
<1> USE CallConstants DEF CallTypeOK, Phases, Fates
<1>1. ASSUME NEW w \in Workers, NEW c \in Calls, StartCall(w, c), enforced' = enforced
      PROVE  CallTypeOK'
  BY <1>1 DEF StartCall, Goto
<1>2. ASSUME NEW w \in Workers, enforced' = enforced,
             Charge(w) \/ Charged(w) \/ BuildClient(w)
      PROVE  CallTypeOK'
  BY <1>2 DEF Charge, Charged, BuildClient, Goto
<1>3. ASSUME NEW w \in Workers, enforced' = enforced, NEW how \in Fates, End(w, how), spent' \in Nat
      PROVE  CallTypeOK'
  BY <1>3 DEF End
<1>4. ASSUME NEW w \in Workers, enforced' = enforced,
             Exhausted(w) \/ Fail(w) \/ Refunded(w)
      PROVE  CallTypeOK'
  BY <1>3, <1>4 DEF Exhausted, Fail, Refunded, Goto
<1>5. ASSUME NEW w \in Workers, enforced' = enforced, Answer(w)
      PROVE  CallTypeOK'
  <2>1. spent' \in Nat
    BY <1>5 DEF Answer
  <2>2. QED
    BY <1>3, <1>5, <2>1 DEF Answer
<1>6. ASSUME NEW w \in Workers, enforced' = enforced, Inner(w) \/ NotACall(w) \/ Die(w)
      PROVE  CallTypeOK'
  BY <1>3, <1>6 DEF Inner, NotACall, Die, callVars
<1>7. ASSUME enforced' = enforced, NewMonth
      PROVE  CallTypeOK'
  BY <1>7 DEF NewMonth
<1>8. QED
  BY <1>1, <1>2, <1>4, <1>5, <1>6, <1>7 DEF CallNext, CallStep

-----------------------------------------------------------------------------
(* Tokens. Whoever is past the budget check counts for one answer.          *)

\* Fewer in the air, or as many, and no more spent.
LEMMA FewerInFlight ==
  ASSUME OvershootIsBounded, spent \in Nat, spent' \in Nat,
         InFlight' \subseteq InFlight, spent' <= spent
  PROVE  OvershootIsBounded'
<1> USE CallConstants
<1>1. /\ IsFiniteSet(InFlight) /\ IsFiniteSet(InFlight')
      /\ Cardinality(InFlight') <= Cardinality(InFlight)
      /\ Cardinality(InFlight) \in Nat /\ Cardinality(InFlight') \in Nat
      /\ Cardinality(Workers) \in Nat
  BY FS_Subset, FS_CardinalityType DEF InFlight
<1>2. \A i, j, m \in Nat : i <= j => m * i <= m * j
  OBVIOUS
<1>3. MaxTokens * Cardinality(InFlight') <= MaxTokens * Cardinality(InFlight)
  BY <1>1, <1>2
<1>4. \A a, b, c, d, e \in Int : a <= b /\ c <= d /\ b + d < e => a + c < e
  OBVIOUS
<1>5. /\ MaxTokens * Cardinality(InFlight) \in Int /\ MaxTokens * Cardinality(InFlight') \in Int
      /\ Budget + MaxTokens * Cardinality(Workers) \in Int
  BY <1>1
<1>6. QED
  BY <1>3, <1>4, <1>5 DEF OvershootIsBounded

\* One answer: a worker less in the air, and no more tokens than it was counted for.
LEMMA OneLands ==
  ASSUME OvershootIsBounded, spent \in Nat, NEW w \in Workers, NEW t \in 0 .. MaxTokens,
         w \in InFlight, InFlight' = InFlight \ {w}, spent' = spent + t
  PROVE  OvershootIsBounded'
<1> USE CallConstants
<1> DEFINE k == Cardinality(InFlight')
<1>1. /\ IsFiniteSet(InFlight) /\ Cardinality(InFlight) = k + 1
      /\ k \in Nat /\ Cardinality(Workers) \in Nat
  <2>1. IsFiniteSet(InFlight)
    BY FS_Subset DEF InFlight
  <2>2. IsFiniteSet(InFlight') /\ Cardinality(InFlight') = Cardinality(InFlight) - 1
    BY <2>1, FS_RemoveElement
  <2>3. QED
    BY <2>1, <2>2, FS_CardinalityType
<1> HIDE DEF k
<1>2. MaxTokens * (k + 1) = MaxTokens * k + MaxTokens
  BY <1>1
<1>3. \A a, b, c, m, e \in Int : b <= m /\ a + (c + m) < e => (a + b) + c < e
  OBVIOUS
<1>4. /\ MaxTokens * k \in Int /\ MaxTokens \in Int /\ spent \in Int /\ t \in Int /\ t <= MaxTokens
      /\ Budget + MaxTokens * Cardinality(Workers) \in Int
  BY <1>1
<1>5. spent + (MaxTokens * k + MaxTokens) < Budget + MaxTokens * Cardinality(Workers)
  BY <1>1, <1>2 DEF OvershootIsBounded
<1>6. (spent + t) + MaxTokens * k < Budget + MaxTokens * Cardinality(Workers)
  BY <1>3, <1>4, <1>5
<1>7. QED
  BY <1>6 DEF OvershootIsBounded, k

\* A call that begins found the budget unspent, and there are no more in the air
\* than there are workers.
LEMMA OneTakesOff ==
  ASSUME spent \in Nat, spent' = spent, ~(spent >= Budget)
  PROVE  OvershootIsBounded'
<1> USE CallConstants
<1>1. /\ Cardinality(InFlight') \in Nat /\ Cardinality(Workers) \in Nat
      /\ Cardinality(InFlight') <= Cardinality(Workers)
  BY FS_Subset, FS_CardinalityType DEF InFlight
<1>2. \A i, j, m \in Nat : i <= j => m * i <= m * j
  OBVIOUS
<1>3. MaxTokens * Cardinality(InFlight') <= MaxTokens * Cardinality(Workers)
  BY <1>1, <1>2
<1>4. \A a, b, c, d \in Int : a < b /\ c <= d => a + c < b + d
  OBVIOUS
<1>5. /\ MaxTokens * Cardinality(InFlight') \in Int /\ MaxTokens * Cardinality(Workers) \in Int
      /\ spent \in Int /\ Budget \in Int
  BY <1>1
<1>6. spent + MaxTokens * Cardinality(InFlight') < Budget + MaxTokens * Cardinality(Workers)
  BY <1>3, <1>4, <1>5
<1>7. QED
  BY <1>6 DEF OvershootIsBounded

LEMMA NobodyInFlight ==
  ASSUME spent = 0, InFlight = {}
  PROVE  OvershootIsBounded
<1> USE CallConstants
<1>1. Cardinality(InFlight) = 0 /\ Cardinality(Workers) \in Nat
  BY FS_EmptySet, FS_CardinalityType
<1>2. Cardinality(Workers) # 0
  BY FS_EmptySet
<1>3. \A m, n \in Nat \ {0} : m * n > 0
  OBVIOUS
<1>4. MaxTokens * Cardinality(Workers) > 0 /\ MaxTokens * Cardinality(Workers) \in Int
  BY <1>1, <1>2, <1>3
<1>5. MaxTokens * Cardinality(InFlight) = 0
  BY <1>1
<1>6. QED
  BY <1>4, <1>5 DEF OvershootIsBounded

LEMMA OvershootKeeps ==
  ASSUME CallTypeOK, OvershootIsBounded, [CallNext]_allVars
  PROVE  OvershootIsBounded'
<1> USE CallConstants DEF CallTypeOK
<1>1. CASE UNCHANGED allVars
  BY <1>1 DEF allVars, callVars, OvershootIsBounded, InFlight
<1>2. ASSUME NEW w \in Workers, NEW c \in Calls, StartCall(w, c)
      PROVE  OvershootIsBounded'
  <2>1. CASE spent >= Budget
    <3>1. spent' = spent /\ phase' = phase
      BY <1>2, <2>1 DEF StartCall
    <3>2. QED
      BY <3>1 DEF OvershootIsBounded, InFlight
  <2>2. CASE ~(spent >= Budget)
    BY <1>2, <2>2, OneTakesOff DEF StartCall
  <2>3. QED
    BY <2>1, <2>2
<1>3. ASSUME NEW w \in Workers, Answer(w)
      PROVE  OvershootIsBounded'
  <2>1. PICK t \in 0 .. MaxTokens : spent' = spent + t
    BY <1>3 DEF Answer
  <2>2. w \in InFlight /\ InFlight' = InFlight \ {w}
    BY <1>3 DEF Answer, End, InFlight
  <2>3. QED
    BY <2>1, <2>2, OneLands
<1>4. ASSUME NEW w \in Workers, Charge(w) \/ Charged(w) \/ Exhausted(w) \/ BuildClient(w)
      PROVE  OvershootIsBounded'
  <2>1. spent' = spent /\ InFlight' \subseteq InFlight
    BY <1>4 DEF Charge, Charged, Exhausted, BuildClient, Goto, End, InFlight
  <2>2. QED
    BY <2>1, FewerInFlight
<1>5. ASSUME NEW w \in Workers, Fail(w) \/ Refunded(w) \/ Die(w)
      PROVE  OvershootIsBounded'
  <2>1. spent' = spent /\ InFlight' \subseteq InFlight
    BY <1>5 DEF Fail, Refunded, Die, Goto, End, InFlight, callVars
  <2>2. QED
    BY <2>1, FewerInFlight
<1>6. ASSUME NEW w \in Workers, Inner(w) \/ NotACall(w)
      PROVE  OvershootIsBounded'
  BY <1>6 DEF Inner, NotACall, callVars, OvershootIsBounded, InFlight
<1>7. CASE NewMonth
  <2>1. spent' \in Nat /\ spent' <= spent /\ InFlight' \subseteq InFlight
    BY <1>7 DEF NewMonth, InFlight
  <2>2. QED
    BY <2>1, FewerInFlight
<1>8. QED
  BY <1>1, <1>2, <1>3, <1>4, <1>5, <1>6, <1>7 DEF CallNext, CallStep

-----------------------------------------------------------------------------
LEMMA CallInit0 ==
  ASSUME CallInit
  PROVE  IInv /\ CallInv /\ OvershootIsBounded
<1> USE DEF CallInit
<1>1. IInv /\ TypeOK
  BY InitIInv DEF IInv
<1>2. CallTypeOK
  BY <1>1 DEF CallTypeOK, Phases, Fates
<1>3. \A w \in Workers : Moving(w) /\ Knowing(w)
  BY ReferencesOfCalls DEF Moving, Knowing, Init
<1>4. ledger = <<>> /\ \A c \in Calls : ~Taken(c) /\ ~GivenBack(c)
  BY DEF Init, Taken, GivenBack, Applied
<1>5. OwnCalls /\ ChargeRows /\ RefundsMirrorCharges /\ \A c \in Calls : Settled(c)
  BY <1>4 DEF OwnCalls, ChargeRows, RefundsMirrorCharges, Settled
<1>6. InFlight = {}
  BY DEF InFlight
<1>7. QED
  BY <1>1, <1>2, <1>3, <1>5, <1>6, NobodyInFlight DEF CallInv

\* One step of a paid call, or of anything else that moves credits.
LEMMA CallNextKeeps ==
  ASSUME IInv, CallInv, [CallNext]_allVars
  PROVE  IInv' /\ CallInv'
<1>1. CASE UNCHANGED allVars
  <2>1. IInv'
    BY <1>1, NextIInv DEF allVars
  <2>2. CallInv'
    BY <1>1, <2>1 DEF allVars, vars, callVars, CallInv, CallTypeOK, IInv, Moving, Knowing,
       OwnCalls, ChargeRows, RefundsMirrorCharges, Settled, Taken, GivenBack
  <2>3. QED
    BY <2>1, <2>2
<1>2. CASE CallNext
  <2>1. IInv' /\ TypeOK'
    BY <1>2, CallKeepsLedger DEF IInv
  <2>2. CallTypeOK' /\ enforced' = enforced
    BY <1>2, <2>1, CallTyped DEF CallInv, CallNext
  <2>3. CallInv'
    BY <1>2, <2>2, StartKeeps, ChargeKeeps, ChargedKeeps, ExhaustedKeeps, BuildClientKeeps,
       AnswerKeeps, FailKeeps, RefundedKeeps, InnerKeeps, NotACallKeeps, DieKeeps, NewMonthKeeps
       DEF CallNext, CallStep
  <2>4. QED
    BY <2>1, <2>3
<1>3. QED
  BY <1>1, <1>2

\* The invariants of the ledger and of the calls hold together, throughout.
THEOREM CallInvariant == CallSpec => [](IInv /\ CallInv)
<1>1. CallInit => IInv /\ CallInv
  BY CallInit0
<1>2. IInv /\ CallInv /\ [CallNext]_allVars => (IInv /\ CallInv)'
  BY CallNextKeeps
<1>3. QED
  BY <1>1, <1>2, PTL DEF CallSpec

\* Tokens overshoot the budget by less than one answer per worker, however many
\* pass the unlocked check together (anthropic_client.py:110).
THEOREM BudgetHolds == CallSpec => []OvershootIsBounded
<1>1. CallInit => OvershootIsBounded
  BY CallInit0
<1>2. CallInv /\ OvershootIsBounded /\ [CallNext]_allVars => OvershootIsBounded'
  BY OvershootKeeps DEF CallInv
<1>3. QED
  BY <1>1, <1>2, CallInvariant, PTL DEF CallSpec

\* What every call costs, by how it ended: nothing for an error or a refusal
\* (credits.py:41), its charge for an answer, and no refund without a charge as
\* large; and what the calls in the air can add to the budget.
THEOREM PaidFor == CallSpec => []CallsArePaidFor
<1>1. CallInv => CallCosts
  BY DEF CallInv, CallCosts, Settled
<1>2. CallInv /\ OvershootIsBounded => CallsArePaidFor
  BY <1>1 DEF CallsArePaidFor
<1>3. QED
  BY <1>2, CallInvariant, BudgetHolds, PTL

\* The ledger is no less safe for the calls: every step of theirs is one of the
\* atomic balance's, or none (credits.py:30-50, each of the two movements a
\* transaction of its own).
THEOREM CallsImplementAccount == CallSpec => ImplementsAccount
<1>1. CallInit => Promise!Init
  BY DEF CallInit, Init, Promise!Init, Balance, Applied
<1>2. IInv /\ IInv' /\ [CallNext]_allVars => [Promise!Next]_Promise!vars
  <2> SUFFICES ASSUME IInv, IInv', [CallNext]_allVars
               PROVE  Promise!Next \/ UNCHANGED Promise!vars
    OBVIOUS
  <2>1. CASE UNCHANGED <<plan, ledger>>
    BY <2>1 DEF Promise!vars
  <2>2. ASSUME NEW w \in Workers, Commit(w)
        PROVE  Promise!Next \/ UNCHANGED Promise!vars
    BY <2>2, CommitIsMove
  <2>3. UNCHANGED allVars \/ NewMonth => UNCHANGED <<plan, ledger>>
    BY DEF allVars, vars, NewMonth
  <2>4. ASSUME NEW w \in Workers,
               (\E c \in Calls : StartCall(w, c)) \/ CallStep(w) \/ Inner(w) \/ NotACall(w) \/ Die(w)
        PROVE  Commit(w) \/ UNCHANGED <<plan, ledger>>
    <3>1. CASE (\E c \in Calls : StartCall(w, c)) \/ CallStep(w)
      BY <3>1 DEF StartCall, CallStep, Charge, Charged, Exhausted, BuildClient, Answer, Fail,
         Refunded, Consume, Refund, Begin, RefuseOverdraft, Rollback, vars
    <3>2. CASE Inner(w) \/ NotACall(w) \/ Die(w)
      BY <3>2 DEF Inner, NotACall, Die, Ensure, Adjust, ChangePlan, Begin, LookUp, Got, Created,
         LockRow, ReadBalance, RefuseOverdraft, RefuseReplay, Insert, Crash, Rollback
    <3>3. QED
      BY <2>4, <3>1, <3>2
  <2>5. QED
    BY <2>1, <2>2, <2>3, <2>4 DEF CallNext
<1>3. QED
  BY <1>1, <1>2, CallInvariant, PTL DEF CallSpec, Promise!Spec, ImplementsAccount
=============================================================================
