------------------------------- MODULE Segments -------------------------------
(***************************************************************************)
(* ONE segment's history (segments/nightly.py, baseline.py, views.py). The *)
(* nightly passes compare the records that match with those of the last    *)
(* night and write down who entered and who left; the owner's edits start  *)
(* the history afresh. Both work under the segment's row lock while the    *)
(* records themselves move on.                                             *)
(*                                                                         *)
(* The rules are the one value of a record that they select; what a record *)
(* holds, and whether the owner may open it at all, is its place in the    *)
(* book. Members above MaxTracked are counted and not kept.                *)
(***************************************************************************)
EXTENDS Integers, FiniteSets

CONSTANTS
    Records, Values,
    Hidden,         \* the place of a record the owner cannot open, or a deleted one
    MaxTracked,
    Workers, Nobody,
    NoMembers,      \* last_members is null
    NoMeaning,      \* no transaction has read the row
    Gone,           \* the segment's row is deleted
    MaxDay, MaxEdits, MaxFailures

ASSUME SegmentConstants == /\ IsFiniteSet(Records)
                           /\ Hidden \notin Values
                           /\ MaxTracked \in Nat
                           /\ Nobody \notin Workers
                           /\ \A s \in SUBSET Records : s # NoMembers
                           /\ MaxDay \in Nat \ {0}

VARIABLES
    day,            \* the calendar
    book,           \* where each record is
    active,         \* the owner's is_active
    segment,        \* the row
    changes,        \* SegmentChange rows
    alerts,         \* how many alerts the owner got for each day
    wanted,         \* the nights compared while the owner asked for alerts (history)
    lock,           \* the worker whose transaction holds the row lock
    job,            \* per worker: where its pass or request is
    edits, failures,
    base            \* the members and the meaning the history starts from

rows == <<segment, changes, alerts, wanted, base>>
tally == <<edits, failures>>
vars == <<day, book, active, rows, lock, job, tally>>

Days == 1..MaxDay
Marks == {"none", "pinned", "excluded"}
Meanings == [rules : Values, marks : [Records -> Marks]]

Trackable == {ids \in SUBSET Records : Cardinality(ids) <= MaxTracked}
Segment == [meaning : Meanings, tells : BOOLEAN, paused : BOOLEAN,
            last : {NoMembers} \cup Trackable, count : Nat, on : Days]
Change == [record : Records, change : {"entered", "left"}, on : Days]
Job == [pc : {"idle", "due", "edit", "count", "read", "write"}, kind : {"night", "resume", "edit"},
        today : Days, meaning : {NoMeaning} \cup Meanings, tells : BOOLEAN, ids : SUBSET Records]

Idle == [pc |-> "idle", kind |-> "night", today |-> 1, meaning |-> NoMeaning, tells |-> FALSE,
         ids |-> {}]

\* The records a meaning selects now, as the owner sees them.
Members(m) == {r \in Records : /\ book[r] # Hidden
                               /\ book[r] = m.rules \/ m.marks[r] = "pinned"
                               /\ m.marks[r] # "excluded"}

\* Mutant: a list of any length is kept.
TrackedWhole(ids) == ids

Tracked(ids) == IF Cardinality(ids) <= MaxTracked THEN ids ELSE NoMembers

\* The row after rebaseline, or after a night that finds nothing to compare with.
Rebaselined(s, ids, today) ==
    [s EXCEPT !.last = Tracked(ids), !.count = Cardinality(ids), !.on = today]

\* The segment was created on the first day, with alerts or without.
Init == /\ day = 1
        /\ book \in [Records -> Values \cup {Hidden}]
        /\ active = TRUE
        /\ \E m \in [rules : Values, marks : [Records -> {"none"}]], tells \in BOOLEAN :
             /\ segment = Rebaselined([meaning |-> m, tells |-> tells, paused |-> FALSE,
                                       last |-> NoMembers, count |-> 0, on |-> 1], Members(m), 1)
             /\ base = [members |-> Members(m), meaning |-> m, on |-> 1]
        /\ job = [w \in Workers |-> Idle]
        /\ changes = {}
        /\ alerts = [d \in Days |-> 0]
        /\ wanted = {}
        /\ lock = Nobody
        /\ edits = 0 /\ failures = 0

Goto(w, pc) == job' = [job EXCEPT ![w].pc = pc]
Finish(w) == job' = [job EXCEPT ![w] = Idle]

\* The transaction ends, one way or the other.
Release(w) == Finish(w) /\ lock' = Nobody

-----------------------------------------------------------------------------
(* evaluate_nightly: the due list is read once, with the day of the pass    *)

StartNight(w) == /\ job[w].pc = "idle"
                 /\ segment # Gone /\ segment.on < day
                 /\ job' = [job EXCEPT ![w].pc = "due", ![w].today = day]
                 /\ UNCHANGED <<day, book, active, rows, lock, tally>>

\* evaluate_segment, up to its first query of the records.

\* Deleted since, or evaluated since.
DoneFor(w) == segment # Gone => segment.on >= job[w].today

Skip(w) == /\ job[w].pc = "due" /\ lock = Nobody
           /\ DoneFor(w)
           /\ Finish(w)
           /\ UNCHANGED <<day, book, active, rows, lock, tally>>

Pause(w) == /\ job[w].pc = "due" /\ lock = Nobody
            /\ ~DoneFor(w) /\ ~active
            /\ segment' = [segment EXCEPT !.paused = TRUE]
            /\ Finish(w)
            /\ UNCHANGED <<day, book, active, changes, alerts, wanted, base, lock, tally>>

TooLarge == segment.last = NoMembers /\ segment.count > MaxTracked

\* Mutant: a segment that resumes reports what happened meanwhile.
BeginCatchingUp(w) ==
    /\ job[w].pc = "due" /\ lock = Nobody
    /\ ~DoneFor(w) /\ active
    /\ lock' = w
    /\ job' = [job EXCEPT ![w] = [@ EXCEPT !.pc = IF TooLarge THEN "count" ELSE "read",
                                           !.kind = "night", !.meaning = segment.meaning,
                                           !.tells = segment.tells]]
    /\ UNCHANGED <<day, book, active, rows, tally>>

\* Mutant: nothing takes a segment out of its pause.
BeginUnpaused(w) ==
    /\ job[w].pc = "due" /\ lock = Nobody
    /\ ~DoneFor(w) /\ active /\ ~segment.paused
    /\ lock' = w
    /\ job' = [job EXCEPT ![w] = [@ EXCEPT !.pc = IF TooLarge THEN "count" ELSE "read",
                                           !.meaning = segment.meaning,
                                           !.tells = segment.tells]]
    /\ UNCHANGED <<day, book, active, rows, tally>>

\* A paused segment resumes from a fresh baseline; one known to be too large
\* is counted before its ids are read.
Begin(w) ==
    /\ job[w].pc = "due" /\ lock = Nobody
    /\ ~DoneFor(w) /\ active
    /\ lock' = w
    /\ job' = [job EXCEPT ![w] = [@ EXCEPT !.pc = IF ~segment.paused /\ TooLarge THEN "count"
                                                  ELSE "read",
                                           !.kind = IF segment.paused THEN "resume"
                                                    ELSE "night",
                                           !.meaning = segment.meaning,
                                           !.tells = segment.tells]]
    /\ UNCHANGED <<day, book, active, rows, tally>>

\* Still too large: the count is all that is saved.
Count(w) == /\ job[w].pc = "count"
            /\ LET n == Cardinality(Members(job[w].meaning)) IN
               IF n > MaxTracked
               THEN /\ segment' = [segment EXCEPT !.count = n, !.on = job[w].today]
                    /\ Release(w)
               ELSE /\ Goto(w, "read")
                    /\ UNCHANGED <<segment, lock>>
            /\ UNCHANGED <<day, book, active, changes, alerts, wanted, base, tally>>

\* member_ids: one query, under the meaning this transaction has before it.
Read(w) == /\ job[w].pc = "read"
           /\ job' = [job EXCEPT ![w].ids = Members(job[w].meaning), ![w].pc = "write"]
           /\ UNCHANGED <<day, book, active, rows, lock, tally>>

Moved(ids, today) == [record : ids \ segment.last, change : {"entered"}, on : {today}]
                       \cup [record : segment.last \ ids, change : {"left"}, on : {today}]

\* A day's row of a record is not written twice: bulk_create(ignore_conflicts).
Unrecorded(moved) == {c \in moved : \A d \in changes : <<d.record, d.on>> # <<c.record, c.on>>}

\* Mutant: the alert goes out whether the owner asked for it or not.
TellUnasked(moved, today) ==
    /\ alerts' = IF moved # {} THEN [alerts EXCEPT ![today] = @ + 1] ELSE alerts
    /\ wanted' = IF segment.tells THEN wanted \cup {today} ELSE wanted

\* The owner is told when something moved and they asked for alerts.
Tell(moved, today) ==
    /\ alerts' = IF segment.tells /\ moved # {} THEN [alerts EXCEPT ![today] = @ + 1] ELSE alerts
    /\ wanted' = IF segment.tells THEN wanted \cup {today} ELSE wanted

\* Mutant: last_members is left out of the saved fields.
CompareForgetful(w) ==
    LET ids == job[w].ids  today == job[w].today  moved == Moved(ids, today)
    IN  /\ changes' = changes \cup Unrecorded(moved)
        /\ Tell(moved, today)
        /\ segment' = [segment EXCEPT !.count = Cardinality(ids), !.on = today]
        /\ UNCHANGED base

\* The rows, the new last_members and the alert are one transaction.
Compare(w) ==
    LET ids == job[w].ids  today == job[w].today  moved == Moved(ids, today)
    IN  /\ changes' = changes \cup Unrecorded(moved)
        /\ Tell(moved, today)
        /\ segment' = Rebaselined(segment, ids, today)
        /\ UNCHANGED base

\* Nothing to compare with, too many to keep, or a segment resumed or edited.
Restart(w) ==
    LET now == [segment EXCEPT !.meaning = job[w].meaning, !.tells = job[w].tells,
                               !.paused = @ /\ job[w].kind = "edit"]
    IN  /\ segment' = Rebaselined(now, job[w].ids, job[w].today)
        /\ base' = [members |-> job[w].ids, meaning |-> job[w].meaning, on |-> job[w].today]
        /\ UNCHANGED <<changes, alerts, wanted>>

Comparable(w) == /\ job[w].kind = "night"
                 /\ segment.last # NoMembers
                 /\ Cardinality(job[w].ids) <= MaxTracked

Commit(w) == /\ job[w].pc = "write"
             /\ IF Comparable(w) THEN Compare(w) ELSE Restart(w)
             /\ Release(w)
             /\ UNCHANGED <<day, book, active, tally>>

\* A query fails or the process dies: nothing of the transaction stays. The
\* pass goes on with its next segment; this one is due again.
Fail(w) == /\ job[w].pc \in {"due", "count", "read", "write"}
           /\ failures < MaxFailures
           /\ failures' = failures + 1
           /\ Finish(w)
           /\ lock' = IF lock = w THEN Nobody ELSE lock
           /\ UNCHANGED <<day, book, active, rows, edits>>

-----------------------------------------------------------------------------
(* The owner: PATCH of the segment, PATCH of a member's state, DELETE       *)

StartEdit(w) == /\ job[w].pc = "idle"
                /\ active /\ segment # Gone /\ edits < MaxEdits
                /\ edits' = edits + 1
                /\ Goto(w, "edit")
                /\ UNCHANGED <<day, book, active, rows, lock, failures>>

\* What a body may make of the row: other rules, with alerts or without, or
\* another mark of a record.
Edited(s) == [meaning : {[s.meaning EXCEPT !.rules = v] : v \in Values}, tells : BOOLEAN]
               \cup [meaning : {[s.meaning EXCEPT !.marks[r] = k] : r \in Records, k \in Marks},
                     tells : {s.tells}]

\* The row is read again under the lock. A body that changes nothing the
\* members depend on is saved and leaves the history alone.
Edit(w) ==
    /\ job[w].pc = "edit" /\ lock = Nobody
    /\ \/ /\ segment = Gone
          /\ Finish(w)
          /\ UNCHANGED <<segment, lock>>
       \/ /\ segment # Gone
          /\ \E e \in Edited(segment) :
               IF e.meaning = segment.meaning
               THEN /\ segment' = [segment EXCEPT !.tells = e.tells]
                    /\ Finish(w)
                    /\ UNCHANGED lock
               ELSE /\ job' = [job EXCEPT ![w] = [@ EXCEPT !.pc = "read", !.kind = "edit",
                                                           !.meaning = e.meaning,
                                                           !.tells = e.tells, !.today = day]]
                    /\ lock' = w
                    /\ UNCHANGED segment
    /\ UNCHANGED <<day, book, active, changes, alerts, wanted, base, tally>>

\* The rows of its history go with the segment.
Delete == /\ active /\ segment # Gone /\ lock = Nobody
          /\ segment' = Gone
          /\ changes' = {}
          /\ UNCHANGED <<day, book, active, alerts, wanted, base, lock, job, tally>>

-----------------------------------------------------------------------------
(* What goes on meanwhile                                                   *)

\* A record changes, is handed to somebody else, is deleted or comes back.
Move == /\ \E r \in Records, place \in Values \cup {Hidden} : book' = [book EXCEPT ![r] = place]
        /\ UNCHANGED <<day, active, rows, lock, job, tally>>

Deactivate == active' = ~active /\ UNCHANGED <<day, book, rows, lock, job, tally>>

Midnight == /\ day < MaxDay
            /\ day' = day + 1
            /\ UNCHANGED <<book, active, rows, lock, job, tally>>

Night(w) == Skip(w) \/ Pause(w) \/ Begin(w) \/ Count(w) \/ Read(w) \/ Commit(w)

Next == \/ \E w \in Workers : \/ StartNight(w) \/ Night(w) \/ Fail(w)
                              \/ StartEdit(w) \/ Edit(w)
        \/ Delete \/ Move \/ Deactivate \/ Midnight

\* The scheduler starts passes for ever, and who waits at the lock gets it.
Fairness == \A w \in Workers : WF_vars(StartNight(w)) /\ WF_vars(Night(w) \/ Edit(w))

Spec == Init /\ [][Next]_vars /\ Fairness

-----------------------------------------------------------------------------
\* Every variable holds what its column or its place in the code can hold: no
\* member list longer than a row may keep.
TypeOK == /\ day \in Days
          /\ book \in [Records -> Values \cup {Hidden}]
          /\ active \in BOOLEAN
          /\ segment \in {Gone} \cup Segment
          /\ changes \subseteq Change
          /\ alerts \in [Days -> Nat] /\ wanted \subseteq Days
          /\ lock \in Workers \cup {Nobody}
          /\ job \in [Workers -> Job]
          /\ edits \in Nat /\ failures \in Nat
          /\ base \in [members : SUBSET Records, meaning : Meanings, on : Days]

\* A record's rows since the history started, and the last of them.
Since(r) == {c \in changes : c.record = r /\ c.on > base.on}
IsIn(r) == IF Since(r) = {} THEN r \in base.members
           ELSE \E c \in Since(r) : c.change = "entered" /\ \A d \in Since(r) : d.on <= c.on

\* The history adds up: the members it started from, with every entry and exit
\* since, are the members the next night compares with. No night is missed,
\* counted twice or lost in the day's unique rows, whoever overlaps.
ChangesAddUp == segment # Gone /\ segment.last # NoMembers =>
                    segment.last = {r \in Records : IsIn(r)}

\* "The history records the data moving, never an edit" (baseline.py): what it
\* started from was computed under the rules and the marks the segment has.
HistoryIsNotEdits == segment # Gone => base.meaning = segment.meaning

\* So the history is what the data did, all of it and nothing else.
HistoryIsTrue == ChangesAddUp /\ HistoryIsNotEdits

\* The owner hears once of a day with changes, if they asked for alerts by the
\* time the night was written down, and not at all of another day: however many
\* passes there are, wherever they stop, and whatever the owner asks for later.
OneAlertPerChangedDay ==
    segment # Gone =>
        \A d \in Days : alerts[d] = IF d \in wanted /\ \E c \in changes : c.on = d THEN 1 ELSE 0

\* Nights go forward: a pass that is late does not take the segment back to
\* its day, and writes no row of a day that is over for it.
NightsGoForward == [][segment' # Gone => /\ segment'.on >= segment.on
                                         /\ \A c \in changes' \ changes : c.on > segment.on]_vars

\* What happened while the owner was away is no burst of changes: a segment
\* that was paused adds no row before it has a fresh baseline.
GapIsNotReported == [][segment # Gone /\ segment' # Gone /\ segment.paused
                         => changes' = changes]_vars

\* A segment that is due is evaluated unless its owner is away: also one that
\* is paused, was too large, or had a pass die on it.
DueIsEvaluated == (day = MaxDay /\ segment # Gone) ~>
                      (segment = Gone \/ ~active \/ segment.on = MaxDay)
=============================================================================
