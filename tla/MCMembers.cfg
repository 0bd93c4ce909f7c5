SPECIFICATION ModeSpec
CONSTANTS
    founder = founder
    ann = ann
    bob = bob
    w1 = w1
    w2 = w2
    People = {founder, ann, bob}
    Founder = founder
    NoOne = NoOne
    Workers = {w1, w2}
    NoWorker = NoWorker
    NoRole = NoRole
    AdminRole = "admin"
    Managing <- AdminOnly
    Roles <- StandingRoles
    Changes <- Bodies
    StartLimit = 2
    Limits <- SeatLimits
    Enforced = TRUE
SYMMETRY Symmetry
INVARIANTS ReservationHolds ActiveMembersAreSeated ExactlyOneOwner
PROPERTIES SerialRulesHold
