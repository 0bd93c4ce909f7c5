SPECIFICATION BookSpec
CONSTANTS
    w1 = w1
    w2 = w2
    own = own
    x1 = x1
    x2 = x2
    a1 = a1
    a2 = a2
    a3 = a3
    a4 = a4
    export = "export"
    Asks = {a1, a2, a3, a4}
    Topics = {"export", "sso"}
    Curators = {w1, w2}
    Unfiled = Unfiled
    Dismissed = Dismissed
    MaxFeatures = 3
    Questions = {x1, x2}
    Subjects = {"sso"}
    Functions = {eng, sales}
    Askers = {w1, w2}
    StaleDays = 1
    MaxAsks = 1
    MaxDay = 2
    Viewers = {own, x1, x2}
    Owner = own
    Nobody = Nobody
    Visits = {w1, w2}
SYMMETRY Symmetry
INVARIANTS TypeOK EvidenceIsRight SweptIsFiled GrantsFollowChains
PROPERTIES MergesStay JobsDoNothingTwice SessionIsKept
\* A closed session, or a year whose days are over, leaves nothing to do.
CHECK_DEADLOCK FALSE
