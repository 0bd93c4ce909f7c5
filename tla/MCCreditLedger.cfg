SPECIFICATION FairSpec
CONSTANTS
    w1 = w1
    w2 = w2
    trial = trial
    pro = pro
    rTrial = rTrial
    rAgain = rAgain
    rPro = rPro
    rPay = rPay
    Workers = {w1, w2}
    NoWorker = NoWorker
    Plans = {trial, pro}
    NoPlan = NoPlan
    TrialPlan = trial
    MonthlyCredits <- MCMonthlyCredits
    PlanRef <- MCPlanRef
    Refs = {rTrial, rAgain, rPro, rPay}
    NoRef = NoRef
    TrialRef = rTrial
    Amounts <- MCAmounts
    MaxRows = 3
INVARIANTS BalanceChain PlanIsCredited
PROPERTIES ImplementsAccount EveryMovementSettles
