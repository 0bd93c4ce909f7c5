--------------------------- MODULE MCCreditLedger ---------------------------
(***************************************************************************)
(* CreditLedger for TLC: two workers, the trial, a paid plan and one caller *)
(* supplied reference that both may bring.                                 *)
(***************************************************************************)
EXTENDS CreditLedger, TLC

CONSTANTS w1, w2, trial, pro, rTrial, rAgain, rPro, rPay

MCMonthlyCredits == (trial :> 2) @@ (pro :> 1)
MCPlanRef == (trial :> {rAgain}) @@ (pro :> {rPro})
MCAmounts == {1}
=============================================================================
