SPECIFICATION WaitSpec
CONSTANTS
    acme = acme
    globex = globex
    initech = initech
    w1 = w1
    w2 = w2
    founder = founder
    ann = ann
    NoOne = NoOne
    NoWorker = NoWorker
    NoRole = NoRole
    Orgs = {acme, globex, initech}
    NoOrg = NoOrg
    Workers = {w1, w2}
INVARIANTS OneVerifiedHolder
PROPERTIES NeverUnheld EveryRequestEnds
