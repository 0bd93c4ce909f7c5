SPECIFICATION Spec
CONSTANTS
    in1 = in1
    s1 = s1
    p1 = p1
    p2 = p2
    t1 = t1
    t2 = t2
    w1 = w1
    w2 = w2
    Received = {in1}
    Sent = {s1}
    Matched = {in1, s1}
    Persons = {p1, p2}
    NoMail = NoMail
    MaxLog = 2
    MaxConnects = 2
    Tickets = {t1, t2}
    Known = {t1}
    Pullers = {w1, w2}
    MaxChanges = 2
    MaxSecrets = 2
INVARIANTS TypeOK MailboxIsTrue
PROPERTIES PullsLoseNothing EverythingComesIn
\* Somebody who disconnects for good has nothing left to do.
CHECK_DEADLOCK FALSE
