SPECIFICATION Spec
CONSTANTS
    r1 = r1
    r2 = r2
    w1 = w1
    w2 = w2
    Records = {r1, r2}
    Values = {"renewing"}
    Hidden = "hidden"
    MaxTracked = 1
    Workers = {w1, w2}
    Nobody = Nobody
    NoMembers = NoMembers
    NoMeaning = NoMeaning
    Gone = Gone
    MaxDay = 3
    MaxEdits = 1
    MaxFailures = 1
INVARIANTS TypeOK HistoryIsTrue OneAlertPerChangedDay
PROPERTIES GapIsNotReported DueIsEvaluated

