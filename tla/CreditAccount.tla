--------------------------- MODULE CreditAccount ---------------------------
(***************************************************************************)
(* What services/billing promises of an organisation's AI credits, with no *)
(* ledger, no lock and no transaction in sight: one balance that every     *)
(* movement changes in a single step, never below zero, and a set of       *)
(* references that are each applied once.                                  *)
(***************************************************************************)
EXTENDS Integers

CONSTANTS
    Refs,           \* idempotency keys a movement may carry
    NoRef,          \* "", the movement without a key
    TrialRef,       \* trial:<organisation>
    TrialCredits    \* what the trial plan grants

VARIABLES
    opened,     \* has the organisation an account?
    credits,    \* the balance
    applied     \* the references already spent

vars == <<opened, credits, applied>>

Init == /\ opened = FALSE
        /\ credits = 0
        /\ applied = {}

\* The account appears together with its trial credits, once.
Open == /\ ~opened
        /\ opened' = TRUE
        /\ credits' = TrialCredits
        /\ applied' = IF TrialCredits > 0 THEN {TrialRef} ELSE {}

\* Credits in or out, never into debt, under a reference nobody has used.
Move(r) == /\ opened
           /\ r \notin applied
           /\ credits' \in Nat \ {credits}
           /\ applied' = (applied \cup {r}) \ {NoRef}
           /\ UNCHANGED opened

Next == Open \/ \E r \in Refs \cup {NoRef} : Move(r)

Spec == Init /\ [][Next]_vars
=============================================================================
