SPECIFICATION OnboardingSpec
CONSTANTS
    Orgs = {acme, globex}
    NoOrg = NoOrg
    Handlers = {w1}
    MaxRequests = 2
    MaxInvitations = 2
INVARIANTS WaitingIsRecorded
