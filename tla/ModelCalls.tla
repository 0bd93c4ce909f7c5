----------------------------- MODULE ModelCalls -----------------------------
(***************************************************************************)
(* Every paid call to the language model: get_completion of                *)
(* copilot/anthropic_client.py, with billing/credits.py around it and the  *)
(* monthly token budget of copilot/usage.py before it. A call charges the  *)
(* ledger, goes out with no lock and no transaction held, and gives the    *)
(* credit back if it fails; each of the three is a transaction of its own  *)
(* in CreditLedger, and a worker may die between any two of them.          *)
(***************************************************************************)
EXTENDS CreditLedger, FiniteSets

CONSTANTS
    Calls, NoCall,          \* calls, each with a uuid of its own
    ChargeRef, RefundRef,   \* [Calls -> Refs] call:<uuid> and call:<uuid>:refund
    Cost,                   \* BILLING_CREDITS_PER_MODEL_CALL
    Budget,                 \* the organisation's monthly tokens for one purpose
    MaxTokens               \* the most one answer can use

ASSUME CallConstants ==
    /\ NoCall \notin Calls
    /\ ChargeRef \in [Calls -> Refs]
    /\ RefundRef \in [Calls -> Refs]
    /\ IsFiniteSet(Workers) /\ Workers # {}
    /\ Cost \in Nat
    /\ Budget \in Nat
    /\ MaxTokens \in Nat \ {0}

\* Every call's two references are its own: the uuid is made for the call, and
\* nothing else the ledger records begins with "call:".
ASSUME CallReferences ==
    /\ \A c, d \in Calls : /\ ChargeRef[c] = ChargeRef[d] => c = d
                           /\ RefundRef[c] = RefundRef[d] => c = d
                           /\ ChargeRef[c] # RefundRef[d]
    /\ \A c \in Calls, p \in Plans :
          {ChargeRef[c], RefundRef[c]} \cap ({TrialRef} \cup PlanRef[p]) = {}

VARIABLES
    enforced,   \* BILLING_ENFORCED, as the deployment sets it
    phase,      \* where each worker is in get_completion
    call,       \* the call each worker is making
    charged,    \* did credits.charge say True?
    fate,       \* how each call ended
    spent       \* tokens on this month's ModelCall rows

callVars == <<phase, call, charged, fate, spent>>
allVars == <<vars, callVars, enforced>>

Phases == {"none", "checked", "charging", "building", "calling", "refunding"}
Fates == {"unused", "running", "answered", "failed", "refused", "crashed"}

CallInit == /\ Init
            /\ enforced \in BOOLEAN
            /\ phase = [w \in Workers |-> "none"]
            /\ call = [w \in Workers |-> NoCall]
            /\ charged = [w \in Workers |-> FALSE]
            /\ fate = [c \in Calls |-> "unused"]
            /\ spent = 0

\* get_completion returns or raises.
End(w, how) == /\ phase' = [phase EXCEPT ![w] = "none"]
               /\ call' = [call EXCEPT ![w] = NoCall]
               /\ charged' = [charged EXCEPT ![w] = FALSE]
               /\ fate' = [fate EXCEPT ![call[w]] = how]

Goto(w, next) == phase' = [phase EXCEPT ![w] = next]

\* The budget is read once, unlocked; a call that finds it spent stops here.
StartCall(w, c) ==
    /\ pc[w] = "idle" /\ phase[w] = "none" /\ fate[c] = "unused"
    /\ plan # NoPlan
    /\ IF spent >= Budget
       THEN /\ fate' = [fate EXCEPT ![c] = "refused"]
            /\ UNCHANGED <<phase, call>>
       ELSE /\ fate' = [fate EXCEPT ![c] = "running"]
            /\ call' = [call EXCEPT ![w] = c]
            /\ Goto(w, "checked")
    /\ UNCHANGED <<vars, charged, spent>>

\* credits.charge: nothing to take when a call costs nothing.
Charge(w) == /\ phase[w] = "checked"
             /\ IF Cost = 0
                THEN Goto(w, "building") /\ UNCHANGED vars
                ELSE Consume(w, Cost, ChargeRef[call[w]]) /\ Goto(w, "charging")
             /\ UNCHANGED <<call, charged, fate, spent>>

Charged(w) == /\ phase[w] = "charging"
              /\ Commit(w)
              /\ Goto(w, "building")
              /\ charged' = [charged EXCEPT ![w] = TRUE]
              /\ UNCHANGED <<call, fate, spent>>

\* No credits left: CreditsExhausted, unless billing is not enforced.
Exhausted(w) == /\ phase[w] = "charging"
                /\ RefuseOverdraft(w)
                /\ \/ enforced /\ End(w, "refused")
                   \/ ~enforced /\ Goto(w, "building") /\ UNCHANGED <<call, charged, fate>>
                /\ UNCHANGED spent

\* The client is configured.
BuildClient(w) == /\ phase[w] = "building"
                  /\ Goto(w, "calling")
                  /\ UNCHANGED <<vars, call, charged, fate, spent>>

\* The model answers. usage.record_call never raises: the row, and with it
\* the tokens, may be missing.
Answer(w) == /\ phase[w] = "calling"
             /\ \E t \in 0 .. MaxTokens : spent' = spent + t
             /\ End(w, "answered")
             /\ UNCHANGED vars

\* Mutant: a missing client keeps the credit.
FailKeepsCredit(w) ==
    /\ phase[w] \in {"building", "calling"}
    /\ IF charged[w] /\ phase[w] = "calling"
       THEN /\ Refund(w, Cost, RefundRef[call[w]])
            /\ Goto(w, "refunding")
            /\ UNCHANGED <<call, charged, fate>>
       ELSE End(w, "failed") /\ UNCHANGED vars
    /\ UNCHANGED spent

\* No client, or no answer: the credit goes back before the error is raised.
Fail(w) == /\ phase[w] \in {"building", "calling"}
           /\ IF charged[w]
              THEN /\ Refund(w, Cost, RefundRef[call[w]])
                   /\ Goto(w, "refunding")
                   /\ UNCHANGED <<call, charged, fate>>
              ELSE End(w, "failed") /\ UNCHANGED vars
           /\ UNCHANGED spent

Refunded(w) == /\ phase[w] = "refunding"
               /\ Commit(w)
               /\ End(w, "failed")
               /\ UNCHANGED spent

\* The transactions' inner steps, and the movements that are not calls.
Inner(w) == (LockRow(w) \/ ReadBalance(w) \/ Insert(w)) /\ UNCHANGED callVars

NotACall(w) == /\ phase[w] = "none"
               /\ \/ Ensure(w)
                  \/ Len(ledger) < MaxRows
                     /\ \/ \E n \in Amounts : Adjust(w, n) \/ Adjust(w, -n)
                        \/ \E p \in Plans : ChangePlan(w, p)
                  \/ LookUp(w) \/ Got(w) \/ Created(w)
                  \/ RefuseOverdraft(w) \/ RefuseReplay(w) \/ Commit(w)
               /\ UNCHANGED callVars

\* A month begins: the rows of the last one no longer count.
NewMonth == spent > 0 /\ spent' = 0 /\ UNCHANGED <<vars, phase, call, charged, fate>>

Die(w) == \/ phase[w] = "none" /\ Crash(w) /\ UNCHANGED callVars
          \/ phase[w] # "none" /\ Rollback(w) /\ End(w, "crashed") /\ UNCHANGED spent

CallStep(w) == \/ Charge(w) \/ Charged(w) \/ Exhausted(w) \/ BuildClient(w)
               \/ Answer(w) \/ Fail(w) \/ Refunded(w)

CallNext == /\ \/ \E w \in Workers : \/ \E c \in Calls : StartCall(w, c)
                                     \/ CallStep(w) \/ Inner(w) \/ NotACall(w) \/ Die(w)
               \/ NewMonth
            /\ UNCHANGED enforced

CallSpec == CallInit /\ [][CallNext]_allVars

-----------------------------------------------------------------------------
CallTypeOK == /\ TypeOK
              /\ enforced \in BOOLEAN
              /\ phase \in [Workers -> Phases]
              /\ call \in [Workers -> Calls \cup {NoCall}]
              /\ charged \in [Workers -> BOOLEAN]
              /\ fate \in [Calls -> Fates]
              /\ spent \in Nat

Taken(c) == ChargeRef[c] \in Applied(ledger)
GivenBack(c) == RefundRef[c] \in Applied(ledger)

\* No credit out of nothing: every refund row comes after the charge of the
\* same call and is exactly as large, also when billing is not enforced.
RefundsMirrorCharges ==
    \A c \in Calls, i \in DOMAIN ledger :
        ledger[i].ref = RefundRef[c] =>
            \E j \in 1 .. i - 1 : /\ ledger[j].ref = ChargeRef[c]
                                  /\ ledger[j].amount = -ledger[i].amount

\* What a call cost, by how it ended: an answer costs its charge (always,
\* when billing is enforced and calls cost something), a refusal or an error
\* nothing at all (credits.py:41 "A failed call costs nothing"). Only a
\* worker that died in between can leave a credit taken for no answer.
CallCosts ==
    /\ RefundsMirrorCharges
    /\ \A c \in Calls :
          /\ fate[c] = "answered" => ~GivenBack(c) /\ (enforced /\ Cost > 0 => Taken(c))
          /\ fate[c] = "failed" => Taken(c) = GivenBack(c)
          /\ fate[c] \in {"unused", "refused"} => ~Taken(c) /\ ~GivenBack(c)

\* Past the budget check and not yet on a ModelCall row.
InFlight == {w \in Workers : phase[w] \in {"checked", "charging", "building", "calling"}}

\* Tokens overshoot the budget by what was in the air, no more: a call that
\* finds the budget spent does not start, so however many workers passed the
\* unlocked check together, each adds one answer (anthropic_client.py:110).
OvershootIsBounded ==
    spent + MaxTokens * Cardinality(InFlight) < Budget + MaxTokens * Cardinality(Workers)

\* A call is paid for in credits by how it ended, and in tokens at the latest by
\* the next one, whatever fails or overlaps.
CallsArePaidFor == CallCosts /\ OvershootIsBounded
=============================================================================
