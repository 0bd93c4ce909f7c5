\* A mail sent from the app is filed twice: Graph gives the send no id.
SPECIFICATION Spec
CONSTANTS
    in1 = in1
    s1 = s1
    p1 = p1
    p2 = p2
    t1 = t1
    t2 = t2
    w1 = w1
    w2 = w2
    Received = {in1}
    Sent = {s1}
    Matched = {in1, s1}
    Persons = {p1, p2}
    NoMail = NoMail
    MaxLog = 2
    MaxConnects = 2
    Tickets = {t1, t2}
    Known = {t1}
    Pullers = {w1, w2}
    MaxChanges = 2
    MaxSecrets = 2
INVARIANTS SentIsFiledOnce
CHECK_DEADLOCK FALSE
