SPECIFICATION DeskSpec
CONSTANTS
    w1 = w1
    w2 = w2
    trial = trial
    pro = pro
    c1 = c1
    c2 = c2
    c3 = c3
    rTrial = rTrial
    rPro = rPro
    r1 = r1
    r2 = r2
    r3 = r3
    b1 = b1
    b2 = b2
    b3 = b3
    Workers = {w1, w2}
    NoWorker = NoWorker
    Plans = {trial, pro}
    NoPlan = NoPlan
    TrialPlan = trial
    MonthlyCredits <- MCMonthlyCredits
    PlanRef <- MCPlanRef
    Refs = {rTrial, rPro, r1, r2, r3, b1, b2, b3}
    NoRef = NoRef
    TrialRef = rTrial
    Amounts <- MCAmounts
    MaxRows = 2
    Calls = {c1, c2, c3}
    NoCall = NoCall
    ChargeRef <- MCChargeRef
    RefundRef <- MCRefundRef
    Cost = 1
    Budget = 2
    MaxTokens = 2
    p1 = p1
    p2 = p2
    ann = ann
    bob = bob
    admin = admin
    csm = csm
    s1 = s1
    s2 = s2
    n0 = n0
    n1 = n1
    n2 = n2
    Contacts = {ann, bob}
    Users = {admin, csm}
    Sees <- AdminSeesAll
    Fields = {"subject"}
    Texts = {"", "hello"}
    Blank = ""
    Colleagues = {w1, w2}
    NoUser = NoUser
    Orgs = {acme, globex}
    NoOrg = NoOrg
    Handlers = {w1, w2}
    MaxRequests = 3
    MaxInvitations = 2
    Browsers = {w1, w2}
    Printed = {p1, p2}
    NoDevice = NoDevice
    MaxSteps = 1
    MaxSecrets = 2
    Scenarios = {s1, s2}
    Hooks = {h1}
    Nodes = {n0, n1, n2}
    Nowhere = Nowhere
    RuleSets <- MCRuleSets
    MaxEvents = 1
    MaxRuleEdits = 1
SYMMETRY Symmetry
INVARIANTS DeskTypeOK CallsArePaidFor MailedOnce SentAsShown OneOpenRowPerTenant
    CodesAreSpentOnce RunsTellTheTruth FollowUpsAreMade
PROPERTIES UnseenAreKept DecisionsAreFinal
\* Once a campaign is deleted there is nothing left to do with it.
CHECK_DEADLOCK FALSE
