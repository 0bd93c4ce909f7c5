SPECIFICATION ReadingSpec
CONSTANTS
    k1 = k1
    e1 = e1
    w1 = w1
    night = night
    Interactions = {k1, e1}
    Calls = {k1}
    Readers = {w1}
    Scheduler = night
    NotYet = NotYet
    NoLabel = NoLabel
INVARIANTS ReadingTypeOK
PROPERTIES CorrectionsStand PeopleCatchUp
