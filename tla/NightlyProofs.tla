---------------------------- MODULE NightlyProofs ----------------------------
(***************************************************************************)
(* Proofs about what runs at night: Segments, for any records, rules,      *)
(* workers, days and limits; and Readings, for any records and requests.   *)
(*                                                                         *)
(* Segments. What a transaction has read of the row stays so while it holds  *)
(* the lock; a night's day is later than the row's, and the row's day is   *)
(* no earlier than any row of the history, so what a night writes is the   *)
(* last word on every record it writes of.                                 *)
(***************************************************************************)
EXTENDS Segments, Readings, FiniteSetTheorems, TLAPS

Holds(w) == job[w].pc \in {"count", "read", "write"}

LockInv == \A w \in Workers : Holds(w) <=> lock = w

\* What the transaction under the lock knows of the row.
UnderLock(w) == Holds(w) => /\ segment # Gone
                            /\ job[w].meaning \in Meanings
                            /\ job[w].today >= segment.on
                            /\ job[w].kind # "edit" => /\ job[w].meaning = segment.meaning
                                                       /\ job[w].today > segment.on
                            /\ job[w].kind = "night" => ~segment.paused

Punctual == /\ \A w \in Workers : job[w].today <= day
            /\ segment # Gone => segment.on <= day

Dated == segment # Gone => /\ base.on <= segment.on
                           /\ \A c \in changes : c.on <= segment.on
                           /\ \A d \in wanted : d <= segment.on

Safe == ChangesAddUp /\ HistoryIsNotEdits /\ OneAlertPerChangedDay

IInv == /\ TypeOK
        /\ LockInv
        /\ \A w \in Workers : UnderLock(w)
        /\ Punctual
        /\ Dated
        /\ Safe

-----------------------------------------------------------------------------
LEMMA Counted == \A s \in SUBSET Records : Cardinality(s) \in Nat
BY FS_Subset, FS_CardinalityType, SegmentConstants

LEMMA MembersType == \A m : Members(m) \in SUBSET Records
BY DEF Members

\* Rebaselining keeps the row a row, with the day it is given.
LEMMA RebaselinedType ==
  ASSUME NEW s \in Segment, NEW ids \in SUBSET Records, NEW today \in Days
  PROVE  /\ Rebaselined(s, ids, today) \in Segment
         /\ Rebaselined(s, ids, today).on = today
         /\ Rebaselined(s, ids, today).meaning = s.meaning
         /\ Rebaselined(s, ids, today).paused = s.paused
         /\ Rebaselined(s, ids, today).last = Tracked(ids)
         /\ Tracked(ids) # NoMembers => Tracked(ids) = ids
BY Counted DEF Rebaselined, Segment, Tracked, Trackable

LEMMA IdleType == Idle \in Job /\ Idle.pc = "idle" /\ Idle.today = 1
BY SegmentConstants DEF Idle, Job, Days

\* What is left alone when only the work of one worker moves on.
LEMMA RowsKept ==
  ASSUME IInv, UNCHANGED rows, job' \in [Workers -> Job], lock' \in Workers \cup {Nobody},
         day' = day, book' \in [Records -> Values \cup {Hidden}], active' \in BOOLEAN,
         edits' \in Nat, failures' \in Nat,
         \A v \in Workers : job'[v].today <= day,
         LockInv', \A v \in Workers : UnderLock(v)'
  PROVE  IInv'
<1>1. /\ segment' = segment /\ changes' = changes /\ alerts' = alerts /\ wanted' = wanted
      /\ base' = base
  BY DEF rows
<1>2. TypeOK'
  BY <1>1 DEF IInv, TypeOK
<1>3. Punctual' /\ Dated'
  BY <1>1 DEF IInv, Punctual, Dated
<1>4. Safe'
  BY <1>1 DEF IInv, Safe, ChangesAddUp, IsIn, Since, HistoryIsNotEdits, OneAlertPerChangedDay
<1>. QED  BY <1>2, <1>3, <1>4 DEF IInv

LEMMA StartNightKeeps ==
  ASSUME IInv, NEW w \in Workers, StartNight(w)
  PROVE  IInv'
<1>. DEFINE mine == [job[w] EXCEPT !.pc = "due", !.today = day]
<1>1. /\ job[w].pc = "idle"
      /\ job' = [job EXCEPT ![w] = mine]
      /\ UNCHANGED <<day, book, active, rows, lock, tally>>
  BY DEF StartNight
<1>2. /\ job \in [Workers -> Job] /\ day \in Days
      /\ mine \in Job /\ mine.pc = "due" /\ mine.today = day
  BY <1>1 DEF IInv, TypeOK, Job
<1>. HIDE DEF mine
<1>3. job' \in [Workers -> Job] /\ \A v \in Workers : job'[v] = IF v = w THEN mine ELSE job[v]
  BY <1>1, <1>2
<1>4. LockInv' /\ \A v \in Workers : UnderLock(v)'
  BY <1>1, <1>2, <1>3 DEF IInv, LockInv, UnderLock, Holds, rows
<1>5. \A v \in Workers : job'[v].today <= day
  BY <1>2, <1>3 DEF IInv, Punctual, Days
<1>. QED  BY <1>1, <1>3, <1>4, <1>5, RowsKept DEF IInv, TypeOK, tally

\* A request or a pass ends that holds no lock, or gives it back unused.
LEMMA FinishKeeps ==
  ASSUME IInv, NEW w \in Workers, Finish(w), UNCHANGED <<day, book, active, rows>>,
         lock' = IF lock = w THEN Nobody ELSE lock,
         edits' \in Nat, failures' \in Nat
  PROVE  IInv'
<1>1. /\ job' = [job EXCEPT ![w] = Idle]
      /\ job \in [Workers -> Job]
      /\ Nobody \notin Workers
      /\ day \in Days
  BY SegmentConstants DEF Finish, IInv, TypeOK
<1>2. job' \in [Workers -> Job] /\ \A v \in Workers : job'[v] = IF v = w THEN Idle ELSE job[v]
  BY <1>1, IdleType
<1>3. LockInv' /\ \A v \in Workers : UnderLock(v)'
  BY <1>1, <1>2, IdleType DEF IInv, LockInv, UnderLock, Holds, rows
<1>4. \A v \in Workers : job'[v].today <= day
  BY <1>1, <1>2, IdleType DEF IInv, Punctual, Days
<1>. QED  BY <1>2, <1>3, <1>4, RowsKept DEF IInv, TypeOK

LEMMA SkipKeeps ==
  ASSUME IInv, NEW w \in Workers, Skip(w)
  PROVE  IInv'
<1>1. lock' = IF lock = w THEN Nobody ELSE lock
  BY SegmentConstants DEF Skip
<1>. QED  BY <1>1, FinishKeeps DEF Skip, IInv, TypeOK, tally

LEMMA FailKeeps ==
  ASSUME IInv, NEW w \in Workers, Fail(w)
  PROVE  IInv'
BY FinishKeeps DEF Fail, IInv, TypeOK

LEMMA PauseKeeps ==
  ASSUME IInv, NEW w \in Workers, Pause(w)
  PROVE  IInv'
<1>1. /\ lock = Nobody /\ lock' = lock
      /\ segment # Gone
      /\ segment' = [segment EXCEPT !.paused = TRUE]
      /\ job' = [job EXCEPT ![w] = Idle]
      /\ UNCHANGED <<day, book, active, changes, alerts, wanted, base, edits, failures>>
  BY DEF Pause, DoneFor, Finish, tally
<1>2. /\ segment \in Segment /\ job \in [Workers -> Job] /\ day \in Days
      /\ Nobody \notin Workers
  BY <1>1, SegmentConstants DEF IInv, TypeOK
<1>3. /\ segment' \in Segment /\ segment'.on = segment.on /\ segment'.last = segment.last
      /\ segment'.meaning = segment.meaning
  BY <1>1, <1>2 DEF Segment
<1>4. job' \in [Workers -> Job] /\ \A v \in Workers : job'[v] = IF v = w THEN Idle ELSE job[v]
  BY <1>1, <1>2, IdleType
<1>5. TypeOK'
  BY <1>1, <1>3, <1>4 DEF IInv, TypeOK
<1>6. LockInv' /\ \A v \in Workers : UnderLock(v)'
  BY <1>1, <1>2, <1>4, IdleType DEF IInv, LockInv, UnderLock, Holds
<1>7. Punctual' /\ Dated'
  BY <1>1, <1>2, <1>3, <1>4, IdleType DEF IInv, Punctual, Dated, Days
<1>8. Safe'
  BY <1>1, <1>3 DEF IInv, Safe, ChangesAddUp, IsIn, Since, HistoryIsNotEdits, OneAlertPerChangedDay
<1>. QED  BY <1>5, <1>6, <1>7, <1>8 DEF IInv

\* A transaction that takes the lock knows the row as it is.
LEMMA LockKeeps ==
  ASSUME IInv, NEW w \in Workers, NEW mine \in Job,
         lock = Nobody, lock' = w, segment # Gone,
         job' = [job EXCEPT ![w] = mine],
         mine.pc \in {"count", "read"}, mine.meaning \in Meanings, mine.today <= day,
         mine.today >= segment.on,
         mine.kind # "edit" => mine.meaning = segment.meaning /\ mine.today > segment.on,
         mine.kind = "night" => ~segment.paused,
         UNCHANGED <<day, book, active, rows, tally>>
  PROVE  IInv'
<1>1. job \in [Workers -> Job] /\ Nobody \notin Workers
  BY SegmentConstants DEF IInv, TypeOK
<1>2. job' \in [Workers -> Job] /\ \A v \in Workers : job'[v] = IF v = w THEN mine ELSE job[v]
  BY <1>1
<1>3. LockInv' /\ \A v \in Workers : UnderLock(v)'
  BY <1>1, <1>2 DEF IInv, LockInv, UnderLock, Holds, rows
<1>4. \A v \in Workers : job'[v].today <= day
  BY <1>2 DEF IInv, Punctual
<1>. QED  BY <1>2, <1>3, <1>4, RowsKept DEF IInv, TypeOK, tally

LEMMA BeginKeeps ==
  ASSUME IInv, NEW w \in Workers, Begin(w)
  PROVE  IInv'
<1>. DEFINE mine == [job[w] EXCEPT !.pc = IF ~segment.paused /\ TooLarge THEN "count" ELSE "read",
                                   !.kind = IF segment.paused THEN "resume" ELSE "night",
                                   !.meaning = segment.meaning, !.tells = segment.tells]
<1>1. /\ lock = Nobody /\ lock' = w
      /\ segment # Gone /\ ~(segment.on >= job[w].today)
      /\ job' = [job EXCEPT ![w] = mine]
      /\ UNCHANGED <<day, book, active, rows, tally>>
  BY DEF Begin, DoneFor
<1>2. /\ segment \in Segment /\ job[w] \in Job /\ job[w].today <= day /\ day \in Days
  BY <1>1 DEF IInv, TypeOK, Punctual
<1>3. /\ mine \in Job /\ mine.pc \in {"count", "read"} /\ mine.meaning = segment.meaning
      /\ mine.today = job[w].today
      /\ mine.kind \in {"night", "resume"}
      /\ mine.kind = "night" => ~segment.paused
  BY <1>2 DEF Job, Segment
<1>4. mine.today > segment.on
  BY <1>1, <1>2, <1>3 DEF Segment, Job, Days
<1>. HIDE DEF mine
<1>5. mine.today >= segment.on /\ mine.today <= day /\ mine.meaning \in Meanings
  BY <1>2, <1>3, <1>4 DEF Segment, Job, Days
<1>. QED  BY <1>1, <1>3, <1>4, <1>5, LockKeeps

\* The transaction under the lock moves on without writing.
LEMMA OnKeeps ==
  ASSUME IInv, NEW w \in Workers, NEW mine \in Job, Holds(w),
         job' = [job EXCEPT ![w] = mine],
         mine.pc \in {"read", "write"}, mine.kind = job[w].kind, mine.meaning = job[w].meaning,
         mine.today = job[w].today,
         UNCHANGED <<day, book, active, rows, lock, tally>>
  PROVE  IInv'
<1>1. job \in [Workers -> Job]
  BY DEF IInv, TypeOK
<1>2. job' \in [Workers -> Job] /\ \A v \in Workers : job'[v] = IF v = w THEN mine ELSE job[v]
  BY <1>1
<1>3. LockInv' /\ \A v \in Workers : UnderLock(v)'
  BY <1>1, <1>2 DEF IInv, LockInv, UnderLock, Holds, rows
<1>4. \A v \in Workers : job'[v].today <= day
  BY <1>2 DEF IInv, Punctual
<1>. QED  BY <1>2, <1>3, <1>4, RowsKept DEF IInv, TypeOK, tally

LEMMA ReadKeeps ==
  ASSUME IInv, NEW w \in Workers, Read(w)
  PROVE  IInv'
<1>. DEFINE mine == [job[w] EXCEPT !.ids = Members(job[w].meaning), !.pc = "write"]
<1>1. /\ job[w] \in Job /\ Holds(w)
      /\ job' = [job EXCEPT ![w] = mine]
      /\ UNCHANGED <<day, book, active, rows, lock, tally>>
  BY DEF Read, Holds, IInv, TypeOK
<1>2. /\ mine \in Job /\ mine.pc = "write" /\ mine.kind = job[w].kind
      /\ mine.meaning = job[w].meaning /\ mine.today = job[w].today
  BY <1>1, MembersType DEF Job
<1>. HIDE DEF mine
<1>. QED  BY <1>1, <1>2, OnKeeps

\* The lock is given back with a row that has taken the day of the transaction.
LEMMA ReleaseKeeps ==
  ASSUME IInv, NEW w \in Workers, Holds(w), Release(w),
         UNCHANGED <<day, book, active, tally>>,
         segment' \in Segment, segment'.on = job[w].today,
         base' \in [members : SUBSET Records, meaning : Meanings, on : Days],
         changes' \subseteq Change, alerts' \in [Days -> Nat], wanted' \subseteq Days,
         Dated', Safe'
  PROVE  IInv'
<1>1. /\ job' = [job EXCEPT ![w] = Idle]
      /\ job \in [Workers -> Job] /\ lock = w /\ lock' = Nobody
      /\ Nobody \notin Workers /\ day \in Days
  BY SegmentConstants DEF Release, Finish, IInv, TypeOK, LockInv
<1>2. job' \in [Workers -> Job] /\ \A v \in Workers : job'[v] = IF v = w THEN Idle ELSE job[v]
  BY <1>1, IdleType
<1>3. TypeOK'
  BY <1>1, <1>2 DEF IInv, TypeOK, tally
<1>4. LockInv' /\ \A v \in Workers : UnderLock(v)'
  BY <1>1, <1>2, IdleType DEF IInv, LockInv, UnderLock, Holds
<1>5. Punctual'
  BY <1>1, <1>2, IdleType DEF IInv, Punctual, Days
<1>. QED  BY <1>3, <1>4, <1>5 DEF IInv

LEMMA CountKeeps ==
  ASSUME IInv, NEW w \in Workers, Count(w)
  PROVE  IInv'
<1>. DEFINE n == Cardinality(Members(job[w].meaning))
<1>1. /\ job[w] \in Job /\ job[w].pc = "count" /\ Holds(w) /\ segment # Gone
      /\ segment \in Segment /\ n \in Nat
      /\ UNCHANGED <<day, book, active, changes, alerts, wanted, base, tally>>
  BY Counted, MembersType DEF Count, Holds, IInv, TypeOK, UnderLock
<1>2. CASE n > MaxTracked
  <2>1. /\ segment' = [segment EXCEPT !.count = n, !.on = job[w].today]
        /\ Release(w)
    BY <1>2 DEF Count
  <2>2. /\ segment' \in Segment /\ segment'.on = job[w].today
        /\ segment'.last = segment.last /\ segment'.meaning = segment.meaning
    BY <1>1, <2>1 DEF Segment, Job
  <2>3. job[w].today >= segment.on
    BY <1>1 DEF IInv, UnderLock
  <2>4. Dated'
    BY <1>1, <2>2, <2>3 DEF IInv, TypeOK, Dated, Segment, Job, Days, Change
  <2>5. Safe'
    BY <1>1, <2>2 DEF IInv, Safe, ChangesAddUp, IsIn, Since, HistoryIsNotEdits,
                      OneAlertPerChangedDay
  <2>. QED  BY <1>1, <2>1, <2>2, <2>4, <2>5, ReleaseKeeps DEF IInv, TypeOK
<1>3. CASE ~(n > MaxTracked)
  <2>. DEFINE mine == [job[w] EXCEPT !.pc = "read"]
  <2>1. /\ job' = [job EXCEPT ![w] = mine]
        /\ UNCHANGED <<day, book, active, rows, lock, tally>>
    BY <1>3 DEF Count, Goto, rows, tally
  <2>2. /\ mine \in Job /\ mine.pc = "read" /\ mine.kind = job[w].kind
        /\ mine.meaning = job[w].meaning /\ mine.today = job[w].today
    BY <1>1 DEF Job
  <2>. HIDE DEF mine
  <2>. QED  BY <1>1, <2>1, <2>2, OnKeeps
<1>. QED  BY <1>2, <1>3

\* A fresh baseline: no row is later than it, so its members are the history.
LEMMA RestartKeeps ==
  ASSUME IInv, NEW w \in Workers, job[w].pc = "write", Restart(w), Release(w),
         UNCHANGED <<day, book, active, tally>>
  PROVE  IInv'
<1>. DEFINE ids == job[w].ids
            today == job[w].today
            now == [segment EXCEPT !.meaning = job[w].meaning, !.tells = job[w].tells,
                                   !.paused = @ /\ job[w].kind = "edit"]
<1>1. /\ job[w] \in Job /\ Holds(w) /\ segment # Gone /\ segment \in Segment
      /\ job[w].meaning \in Meanings /\ today >= segment.on
  BY DEF Holds, IInv, TypeOK, UnderLock
<1>2. ids \in SUBSET Records /\ today \in Days
  BY <1>1 DEF Job
<1>3. now \in Segment /\ now.meaning = job[w].meaning
  BY <1>1 DEF Segment, Job
<1>4. /\ segment' = Rebaselined(now, ids, today)
      /\ base' = [members |-> ids, meaning |-> job[w].meaning, on |-> today]
      /\ changes' = changes /\ alerts' = alerts /\ wanted' = wanted
  BY DEF Restart
<1>. HIDE DEF now
<1>5. /\ segment' \in Segment /\ segment'.on = today /\ segment'.meaning = job[w].meaning
      /\ segment'.last = Tracked(ids)
      /\ Tracked(ids) # NoMembers => Tracked(ids) = ids
  BY <1>2, <1>3, <1>4, RebaselinedType
<1>6. /\ \A c \in changes : c.on \in Days /\ c.on <= today
      /\ \A d \in wanted : d <= today
  <2>1. \A c \in changes : c.on \in Days /\ c.on <= today
    BY <1>1, <1>2 DEF IInv, TypeOK, Dated, Segment, Change, Days
  <2>2. \A d \in wanted : d \in Days /\ d <= segment.on
    BY <1>1 DEF IInv, TypeOK, Dated
  <2>3. segment.on \in Days
    BY <1>1 DEF Segment
  <2>. QED  BY <1>1, <1>2, <2>1, <2>2, <2>3 DEF Days
<1>. HIDE DEF ids, today
<1>7. Dated'
  BY <1>2, <1>4, <1>5, <1>6 DEF Dated, Days
<1>8. \A r \in Records : Since(r)' = {}
  BY <1>2, <1>4, <1>6 DEF Since, Days
<1>9. ChangesAddUp'
  <2>1. ASSUME NEW r \in Records PROVE IsIn(r)' <=> r \in ids
    BY <1>4, <1>8 DEF IsIn
  <2>2. segment'.last # NoMembers => segment'.last = ids
    BY <1>5
  <2>3. segment'.last # NoMembers => segment'.last = {r \in Records : IsIn(r)}'
    BY <1>2, <2>1, <2>2
  <2>. QED  BY <2>3 DEF ChangesAddUp
<1>10. HistoryIsNotEdits' /\ OneAlertPerChangedDay'
  BY <1>1, <1>4, <1>5 DEF HistoryIsNotEdits, OneAlertPerChangedDay, IInv, Safe
<1>. QED  BY <1>1, <1>2, <1>4, <1>5, <1>7, <1>9, <1>10, ReleaseKeeps
          DEF IInv, TypeOK, Safe, ids, today

\* What a night records is the last word on each record it names.
LEMMA CompareKeeps ==
  ASSUME IInv, NEW w \in Workers, job[w].pc = "write", Comparable(w), Compare(w), Release(w),
         UNCHANGED <<day, book, active, tally>>
  PROVE  IInv'
<1>. DEFINE ids == job[w].ids
            today == job[w].today
            moved == Moved(ids, today)
<1>1. /\ job[w] \in Job /\ Holds(w) /\ segment # Gone /\ segment \in Segment
      /\ job[w].kind = "night" /\ segment.last # NoMembers
      /\ Cardinality(ids) <= MaxTracked
      /\ today > segment.on
  BY DEF Holds, IInv, TypeOK, UnderLock, Comparable
<1>2. ids \in SUBSET Records /\ today \in Days /\ segment.last \in SUBSET Records
  BY <1>1 DEF Job, Segment, Trackable
<1>3. \A c \in changes : c \in Change /\ c.on < today
  BY <1>1, <1>2 DEF IInv, TypeOK, Dated, Segment, Change, Days
<1>4. /\ \A c \in moved : /\ c \in Change /\ c.on = today
                          /\ c.change = "entered" => c.record \in ids \ segment.last
                          /\ c.change = "left" => c.record \in segment.last \ ids
      /\ \A r \in ids \ segment.last :
             [record |-> r, change |-> "entered", on |-> today] \in moved
      /\ \A r \in segment.last \ ids :
             [record |-> r, change |-> "left", on |-> today] \in moved
  BY <1>2 DEF Moved, Change
<1>5. /\ changes' = changes \cup Unrecorded(moved)
      /\ alerts' = IF segment.tells /\ moved # {} THEN [alerts EXCEPT ![today] = @ + 1] ELSE alerts
      /\ wanted' = IF segment.tells THEN wanted \cup {today} ELSE wanted
      /\ segment' = Rebaselined(segment, ids, today)
      /\ base' = base
  BY DEF Compare, Tell
<1>. HIDE DEF moved
<1>6. Unrecorded(moved) = moved
  BY <1>2, <1>3, <1>4 DEF Unrecorded, Change, Days
<1>7. /\ segment' \in Segment /\ segment'.on = today /\ segment'.meaning = segment.meaning
      /\ segment'.last = ids
  BY <1>1, <1>2, <1>5, RebaselinedType DEF Tracked
<1>8. base.on \in Days /\ base.on < today
  BY <1>1, <1>2 DEF IInv, TypeOK, Dated, Segment, Days
<1>. HIDE DEF ids, today
<1>9. changes' \subseteq Change /\ alerts' \in [Days -> Nat] /\ wanted' \subseteq Days
  BY <1>2, <1>3, <1>4, <1>5, <1>6 DEF IInv, TypeOK
<1>10. Dated'
  <2>1. base'.on <= segment'.on /\ \A c \in changes' : c.on <= segment'.on
    BY <1>2, <1>3, <1>4, <1>5, <1>6, <1>7, <1>8 DEF Change, Days
  <2>2. \A d \in wanted : d \in Days /\ d <= segment.on
    BY <1>1 DEF IInv, TypeOK, Dated
  <2>3. segment.on \in Days /\ today > segment.on
    BY <1>1 DEF Segment, today
  <2>4. \A d \in wanted' : d <= segment'.on
    BY <1>2, <1>5, <1>7, <2>2, <2>3 DEF Days
  <2>. QED  BY <2>1, <2>4 DEF Dated
<1>11. ChangesAddUp'
  <2>1. ASSUME NEW r \in Records PROVE IsIn(r)' <=> r \in ids
    <3>1. IsIn(r) <=> r \in segment.last
      BY <1>1 DEF IInv, Safe, ChangesAddUp
    <3>2. Since(r)' = Since(r) \cup {c \in moved : c.record = r}
      BY <1>2, <1>4, <1>5, <1>6, <1>8 DEF Since, Days
    <3>3. \A c \in Since(r) : c.on < today /\ c \in Change
      BY <1>3 DEF Since
    <3>4. CASE r \in ids \ segment.last
      <4>1. [record |-> r, change |-> "entered", on |-> today] \in Since(r)'
        BY <1>4, <3>2, <3>4
      <4>2. \A d \in Since(r)' : d.on <= today
        BY <1>2, <1>4, <3>2, <3>3 DEF Change, Days
      <4>. QED  BY <3>4, <4>1, <4>2 DEF IsIn
    <3>5. CASE r \in segment.last \ ids
      <4>1. [record |-> r, change |-> "left", on |-> today] \in Since(r)'
        BY <1>4, <3>2, <3>5
      <4>2. \A c \in Since(r)' : c.change = "entered" => c.on < today
        BY <1>4, <3>2, <3>3, <3>5
      <4>3. \A c \in Since(r)' : c.change = "entered" => ~(today <= c.on)
        BY <1>2, <1>4, <3>2, <3>3, <4>2 DEF Change, Days
      <4>. QED  BY <3>5, <4>1, <4>3 DEF IsIn
    <3>6. CASE r \in ids <=> r \in segment.last
      <4>1. Since(r)' = Since(r)
        BY <1>4, <3>2, <3>6 DEF Change
      <4>. QED  BY <1>5, <3>1, <3>6, <4>1 DEF IsIn
    <3>. QED  BY <3>4, <3>5, <3>6
  <2>. QED  BY <1>2, <1>7, <2>1 DEF ChangesAddUp
<1>12. HistoryIsNotEdits'
  BY <1>1, <1>5, <1>7 DEF HistoryIsNotEdits, IInv, Safe
<1>13. OneAlertPerChangedDay'
  <2>1. ASSUME NEW d \in Days
        PROVE alerts'[d] = IF d \in wanted' /\ \E c \in changes' : c.on = d THEN 1 ELSE 0
    <3>1. alerts[d] = IF d \in wanted /\ \E c \in changes : c.on = d THEN 1 ELSE 0
      BY <1>1 DEF IInv, Safe, OneAlertPerChangedDay
    <3>2. alerts \in [Days -> Nat]
      BY DEF IInv, TypeOK
    <3>3. CASE d = today /\ segment.tells
      <4>1. alerts[d] = 0
        BY <1>2, <1>3, <3>1, <3>3 DEF Change, Days
      <4>2. (\E c \in changes' : c.on = d) <=> moved # {}
        BY <1>2, <1>3, <1>4, <1>5, <1>6, <3>3 DEF Change, Days
      <4>3. d \in wanted'
        BY <1>5, <3>3
      <4>. QED  BY <1>2, <1>5, <3>2, <3>3, <4>1, <4>2, <4>3
    <3>4. CASE d = today /\ ~segment.tells
      <4>1. alerts'[d] = 0
        BY <1>2, <1>3, <1>5, <3>1, <3>4 DEF Change, Days
      <4>2. \A e \in Days : e \in wanted => e <= segment.on
        BY <1>1 DEF IInv, Dated
      <4>3. d \notin wanted'
        BY <1>1, <1>2, <1>5, <3>4, <4>2 DEF Segment, Days
      <4>. QED  BY <4>1, <4>3
    <3>5. CASE d # today
      <4>1. (\E c \in changes' : c.on = d) <=> (\E c \in changes : c.on = d)
        BY <1>4, <1>5, <1>6, <3>5
      <4>2. d \in wanted' <=> d \in wanted
        BY <1>5, <3>5
      <4>. QED  BY <1>2, <1>5, <3>1, <3>2, <3>5, <4>1, <4>2
    <3>. QED  BY <3>3, <3>4, <3>5
  <2>. QED  BY <2>1 DEF OneAlertPerChangedDay
<1>. QED  BY <1>1, <1>5, <1>7, <1>9, <1>10, <1>11, <1>12, <1>13, ReleaseKeeps
          DEF IInv, TypeOK, Safe, today

LEMMA CommitKeeps ==
  ASSUME IInv, NEW w \in Workers, Commit(w)
  PROVE  IInv'
BY CompareKeeps, RestartKeeps DEF Commit

-----------------------------------------------------------------------------
LEMMA StartEditKeeps ==
  ASSUME IInv, NEW w \in Workers, StartEdit(w)
  PROVE  IInv'
<1>. DEFINE mine == [job[w] EXCEPT !.pc = "edit"]
<1>1. /\ job[w].pc = "idle" /\ edits' = edits + 1 /\ failures' = failures
      /\ job' = [job EXCEPT ![w] = mine]
      /\ UNCHANGED <<day, book, active, rows, lock>>
  BY DEF StartEdit, Goto
<1>2. /\ job \in [Workers -> Job] /\ edits' \in Nat
      /\ mine \in Job /\ mine.pc = "edit" /\ mine.today = job[w].today
  <2>1. job \in [Workers -> Job] /\ edits \in Nat
    BY DEF IInv, TypeOK
  <2>2. job[w] \in Job
    BY <2>1
  <2>3. mine \in Job /\ mine.pc = "edit" /\ mine.today = job[w].today
    BY <2>2 DEF Job
  <2>. QED  BY <1>1, <2>1, <2>3
<1>. HIDE DEF mine
<1>3. job' \in [Workers -> Job] /\ \A v \in Workers : job'[v] = IF v = w THEN mine ELSE job[v]
  BY <1>1, <1>2
<1>4. LockInv' /\ \A v \in Workers : UnderLock(v)'
  BY <1>1, <1>2, <1>3 DEF IInv, LockInv, UnderLock, Holds, rows
<1>5. \A v \in Workers : job'[v].today <= day
  BY <1>2, <1>3 DEF IInv, Punctual
<1>. QED  BY <1>1, <1>2, <1>3, <1>4, <1>5, RowsKept DEF IInv, TypeOK

\* A body that asks for alerts, or for none, and for nothing else.
LEMMA TellsKeeps ==
  ASSUME IInv, NEW w \in Workers, NEW tells \in BOOLEAN,
         lock = Nobody, lock' = Nobody, segment # Gone,
         segment' = [segment EXCEPT !.tells = tells], Finish(w),
         UNCHANGED <<day, book, active, changes, alerts, wanted, base, tally>>
  PROVE  IInv'
<1>1. /\ job' = [job EXCEPT ![w] = Idle]
      /\ segment \in Segment /\ job \in [Workers -> Job] /\ day \in Days
      /\ Nobody \notin Workers
  BY SegmentConstants DEF Finish, IInv, TypeOK
<1>2. /\ segment' \in Segment /\ segment'.on = segment.on /\ segment'.last = segment.last
      /\ segment'.meaning = segment.meaning
  BY <1>1 DEF Segment
<1>3. job' \in [Workers -> Job] /\ \A v \in Workers : job'[v] = IF v = w THEN Idle ELSE job[v]
  BY <1>1, IdleType
<1>4. TypeOK'
  BY <1>2, <1>3 DEF IInv, TypeOK, tally
<1>5. LockInv' /\ \A v \in Workers : UnderLock(v)'
  BY <1>1, <1>3, IdleType DEF IInv, LockInv, UnderLock, Holds
<1>6. Punctual' /\ Dated'
  BY <1>1, <1>2, <1>3, IdleType DEF IInv, Punctual, Dated, Days
<1>7. Safe'
  BY <1>2 DEF IInv, Safe, ChangesAddUp, IsIn, Since, HistoryIsNotEdits, OneAlertPerChangedDay
<1>. QED  BY <1>4, <1>5, <1>6, <1>7 DEF IInv

LEMMA EditKeeps ==
  ASSUME IInv, NEW w \in Workers, Edit(w)
  PROVE  IInv'
<1>1. lock = Nobody /\ UNCHANGED <<day, book, active, changes, alerts, wanted, base, tally>>
  BY DEF Edit
<1>2. CASE segment = Gone
  <2>1. Finish(w) /\ segment' = segment /\ lock' = lock
    BY <1>2 DEF Edit
  <2>2. lock' = IF lock = w THEN Nobody ELSE lock
    BY <1>1, <2>1, SegmentConstants
  <2>. QED  BY <1>1, <2>1, <2>2, FinishKeeps DEF IInv, TypeOK, tally, rows
<1>3. CASE segment # Gone
  <2>1. PICK e \in Edited(segment) :
             IF e.meaning = segment.meaning
             THEN /\ segment' = [segment EXCEPT !.tells = e.tells]
                  /\ Finish(w)
                  /\ UNCHANGED lock
             ELSE /\ job' = [job EXCEPT ![w] = [@ EXCEPT !.pc = "read", !.kind = "edit",
                                                         !.meaning = e.meaning,
                                                         !.tells = e.tells, !.today = day]]
                  /\ lock' = w
                  /\ UNCHANGED segment
    BY <1>3 DEF Edit
  <2>2. /\ segment \in Segment /\ job[w] \in Job /\ day \in Days /\ day >= segment.on
    BY <1>3 DEF IInv, TypeOK, Punctual, Segment, Days
  <2>3. e.meaning \in Meanings /\ e.tells \in BOOLEAN
    <3>1. segment.meaning \in Meanings /\ segment.tells \in BOOLEAN
      BY <2>2 DEF Segment
    <3>2. /\ \A v \in Values : [segment.meaning EXCEPT !.rules = v] \in Meanings
          /\ \A r \in Records, k \in Marks : [segment.meaning EXCEPT !.marks[r] = k] \in Meanings
      BY <3>1 DEF Meanings
    <3>. QED  BY <3>1, <3>2 DEF Edited
  <2>4. CASE e.meaning = segment.meaning
    BY <1>1, <1>3, <2>1, <2>3, <2>4, TellsKeeps
  <2>5. CASE e.meaning # segment.meaning
    <3>. DEFINE mine == [job[w] EXCEPT !.pc = "read", !.kind = "edit", !.meaning = e.meaning,
                                       !.tells = e.tells, !.today = day]
    <3>1. /\ mine \in Job /\ mine.pc = "read" /\ mine.kind = "edit"
          /\ mine.meaning = e.meaning /\ mine.today = day
      BY <2>2, <2>3 DEF Job
    <3>2. job' = [job EXCEPT ![w] = mine] /\ lock' = w /\ segment' = segment
      BY <2>1, <2>5
    <3>. HIDE DEF mine
    <3>3. mine.today <= day /\ mine.today >= segment.on
      BY <2>2, <3>1 DEF Days
    <3>. QED  BY <1>1, <1>3, <2>3, <3>1, <3>2, <3>3, LockKeeps DEF rows
  <2>. QED  BY <2>4, <2>5
<1>. QED  BY <1>2, <1>3

LEMMA DeleteKeeps ==
  ASSUME IInv, Delete
  PROVE  IInv'
<1>1. /\ lock = Nobody /\ segment' = Gone /\ changes' = {}
      /\ UNCHANGED <<day, book, active, alerts, wanted, base, lock, job, edits, failures>>
  BY DEF Delete, tally
<1>2. \A w \in Workers : ~Holds(w) /\ ~Holds(w)'
  BY <1>1, SegmentConstants DEF IInv, LockInv, Holds
<1>3. TypeOK'
  BY <1>1 DEF IInv, TypeOK
<1>4. LockInv' /\ \A w \in Workers : UnderLock(w)'
  BY <1>1, <1>2 DEF IInv, LockInv, UnderLock, Holds
<1>5. Punctual' /\ Dated' /\ Safe'
  BY <1>1 DEF IInv, Punctual, Dated, Safe, ChangesAddUp, HistoryIsNotEdits, OneAlertPerChangedDay
<1>. QED  BY <1>3, <1>4, <1>5 DEF IInv

LEMMA WorldKeeps ==
  ASSUME IInv, Move \/ Deactivate \/ Midnight
  PROVE  IInv'
<1>1. /\ day \in Days /\ active \in BOOLEAN /\ book \in [Records -> Values \cup {Hidden}]
  BY DEF IInv, TypeOK
<1>2. /\ UNCHANGED <<segment, changes, alerts, wanted, base, lock, job, edits, failures>>
      /\ day' \in Days /\ day' >= day
  BY <1>1, SegmentConstants DEF Move, Deactivate, Midnight, rows, tally, Days
<1>3. book' \in [Records -> Values \cup {Hidden}]
  BY <1>1 DEF Move, Deactivate, Midnight
<1>4. active' \in BOOLEAN
  BY <1>1 DEF Move, Deactivate, Midnight
<1>5. /\ UNCHANGED <<segment, changes, alerts, wanted, base, lock, job, edits, failures>>
      /\ day' \in Days /\ day' >= day
      /\ book' \in [Records -> Values \cup {Hidden}] /\ active' \in BOOLEAN
  BY <1>2, <1>3, <1>4
<1>6. TypeOK'
  BY <1>5 DEF IInv, TypeOK
<1>7. Punctual'
  BY <1>5 DEF IInv, Punctual, TypeOK, Segment, Job, Days
<1>8. LockInv' /\ (\A w \in Workers : UnderLock(w)') /\ Dated'
  BY <1>5 DEF IInv, LockInv, UnderLock, Holds, Dated
<1>9. Safe'
  BY <1>5 DEF IInv, Safe, ChangesAddUp, IsIn, Since, HistoryIsNotEdits, OneAlertPerChangedDay
<1>. QED  BY <1>6, <1>7, <1>8, <1>9 DEF IInv

-----------------------------------------------------------------------------
LEMMA InitIInv == Init => IInv
<1>. SUFFICES ASSUME Init PROVE IInv
  OBVIOUS
<1>1. PICK m \in [rules : Values, marks : [Records -> {"none"}]], tells \in BOOLEAN :
         /\ segment = Rebaselined([meaning |-> m, tells |-> tells, paused |-> FALSE,
                                   last |-> NoMembers, count |-> 0, on |-> 1], Members(m), 1)
         /\ base = [members |-> Members(m), meaning |-> m, on |-> 1]
         /\ job = [w \in Workers |-> Idle]
  BY DEF Init
<1>. DEFINE fresh == [meaning |-> m, tells |-> tells, paused |-> FALSE, last |-> NoMembers,
                      count |-> 0, on |-> 1]
<1>2. m \in Meanings /\ 1 \in Days
  BY SegmentConstants DEF Meanings, Marks, Days
<1>3. fresh \in Segment /\ fresh.meaning = m
  BY <1>2 DEF Segment
<1>. HIDE DEF fresh
<1>4. segment = Rebaselined(fresh, Members(m), 1)
  BY <1>1 DEF fresh
<1>5. /\ segment \in Segment /\ segment.on = 1 /\ segment.meaning = m
      /\ segment.last = Tracked(Members(m))
      /\ Tracked(Members(m)) # NoMembers => Tracked(Members(m)) = Members(m)
  <2>1. Members(m) \in SUBSET Records
    BY MembersType
  <2>2. /\ Rebaselined(fresh, Members(m), 1) \in Segment
        /\ Rebaselined(fresh, Members(m), 1).on = 1
        /\ Rebaselined(fresh, Members(m), 1).meaning = fresh.meaning
        /\ Rebaselined(fresh, Members(m), 1).last = Tracked(Members(m))
        /\ Tracked(Members(m)) # NoMembers => Tracked(Members(m)) = Members(m)
    BY <1>2, <1>3, <2>1, RebaselinedType
  <2>. QED  BY <1>3, <1>4, <2>2
<1>6. /\ day = 1 /\ book \in [Records -> Values \cup {Hidden}] /\ active = TRUE
      /\ changes = {} /\ alerts = [d \in Days |-> 0] /\ wanted = {} /\ lock = Nobody
      /\ edits = 0 /\ failures = 0
  BY DEF Init
<1>7. TypeOK
  BY <1>1, <1>2, <1>5, <1>6, IdleType, MembersType DEF TypeOK
<1>8. LockInv /\ \A w \in Workers : UnderLock(w)
  BY <1>1, <1>6, IdleType, SegmentConstants DEF LockInv, UnderLock, Holds
<1>9. Punctual /\ Dated
  BY <1>1, <1>5, <1>6, IdleType DEF Punctual, Dated
<1>10. ChangesAddUp
  <2>1. ASSUME NEW r \in Records PROVE IsIn(r) <=> r \in Members(m)
    BY <1>1, <1>6 DEF IsIn, Since
  <2>. QED  BY <1>5, <2>1, MembersType DEF ChangesAddUp
<1>11. HistoryIsNotEdits /\ OneAlertPerChangedDay
  BY <1>1, <1>5, <1>6 DEF HistoryIsNotEdits, OneAlertPerChangedDay
<1>. QED  BY <1>7, <1>8, <1>9, <1>10, <1>11 DEF IInv, Safe

LEMMA NextIInv == IInv /\ [Next]_vars => IInv'
<1>. SUFFICES ASSUME IInv, [Next]_vars PROVE IInv'
  OBVIOUS
<1>1. ASSUME NEW w \in Workers, StartNight(w) \/ Night(w) \/ Fail(w) PROVE IInv'
  BY <1>1, StartNightKeeps, SkipKeeps, PauseKeeps, BeginKeeps, CountKeeps, ReadKeeps, CommitKeeps,
     FailKeeps DEF Night
<1>2. ASSUME NEW w \in Workers, StartEdit(w) \/ Edit(w) PROVE IInv'
  BY <1>2, StartEditKeeps, EditKeeps
<1>3. CASE Delete \/ Move \/ Deactivate \/ Midnight
  BY <1>3, DeleteKeeps, WorldKeeps
<1>4. CASE UNCHANGED vars
  <2>1. UNCHANGED <<day, book, active, segment, changes, alerts, wanted, base, lock, job, edits,
                    failures>>
    BY <1>4 DEF vars, rows, tally
  <2>2. TypeOK' /\ LockInv' /\ (\A w \in Workers : UnderLock(w)') /\ Punctual' /\ Dated'
    BY <2>1 DEF IInv, TypeOK, LockInv, UnderLock, Holds, Punctual, Dated
  <2>3. Safe'
    BY <2>1 DEF IInv, Safe, ChangesAddUp, IsIn, Since, HistoryIsNotEdits, OneAlertPerChangedDay
  <2>. QED  BY <2>2, <2>3 DEF IInv
<1>. QED  BY <1>1, <1>2, <1>3, <1>4 DEF Next

LEMMA Inductive == Spec => []IInv
BY InitIInv, NextIInv, PTL DEF Spec

\* Every reachable state of the segment and of its passes and edits is well
\* typed; the member list is never longer than a row may keep.
THEOREM TypeCorrect == Spec => []TypeOK
BY Inductive, PTL DEF IInv

\* For any records and any overlap of passes and edits, the history adds up to
\* the members the next night compares with (evaluate_segment's bulk_create),
\* from a start under the meaning the segment has: no edit is in it.
THEOREM HistoryAddsUp == Spec => []HistoryIsTrue
<1>1. IInv => HistoryIsTrue
  BY DEF IInv, Safe, HistoryIsTrue
<1>. QED  BY <1>1, Inductive, PTL

\* One alert for a day with changes whose night the owner wanted to hear of
\* (alert_on_changes), none for another, whatever overlaps, dies or is edited.
THEOREM OneAlert == Spec => []OneAlertPerChangedDay
<1>1. IInv => OneAlertPerChangedDay
  BY DEF IInv, Safe
<1>. QED  BY <1>1, Inductive, PTL

\* A step under the lock writes a day the row has not passed.
LEMMA StepForward ==
  ASSUME IInv, [Next]_vars, segment # Gone, segment' # Gone
  PROVE  /\ segment'.on >= segment.on
         /\ \A c \in changes' \ changes : c.on > segment.on
         /\ segment.paused => changes' = changes
<1>0. segment \in Segment /\ segment.on >= segment.on
  BY DEF IInv, TypeOK, Segment, Days
<1>1. CASE UNCHANGED <<segment, changes>>
  BY <1>0, <1>1
<1>2. ASSUME NEW w \in Workers, Pause(w)
      PROVE  segment'.on = segment.on /\ changes' = changes
  BY <1>0, <1>2 DEF Pause, Segment
<1>3. ASSUME NEW w \in Workers, Count(w)
      PROVE  segment'.on >= segment.on /\ changes' = changes
  <2>1. segment'.on = segment.on \/ segment'.on = job[w].today
    BY <1>0, <1>3 DEF Count, Segment
  <2>2. job[w].today >= segment.on
    BY <1>3 DEF Count, IInv, UnderLock, Holds
  <2>. QED  BY <1>0, <1>3, <2>1, <2>2 DEF Count
<1>4. ASSUME NEW w \in Workers, Commit(w)
      PROVE  /\ segment'.on >= segment.on
             /\ \A c \in changes' \ changes : c.on > segment.on
             /\ segment.paused => changes' = changes
  <2>1. job[w] \in Job /\ UnderLock(w) /\ Holds(w)
    BY <1>4 DEF Commit, IInv, TypeOK, Holds
  <2>2. job[w].today \in Days /\ job[w].today >= segment.on
    BY <2>1 DEF UnderLock, Job
  <2>3. CASE Comparable(w) /\ Compare(w)
    <3>1. ~segment.paused /\ job[w].today > segment.on
      BY <2>1, <2>3 DEF UnderLock, Comparable
    <3>2. segment'.on = job[w].today
      BY <1>0, <2>3 DEF Compare, Rebaselined, Segment
    <3>3. \A c \in changes' \ changes : c.on = job[w].today
      BY <2>3 DEF Compare, Unrecorded, Moved
    <3>. QED  BY <2>2, <3>1, <3>2, <3>3
  <2>4. CASE Restart(w)
    <3>1. segment'.on = job[w].today /\ changes' = changes
      BY <1>0, <2>4 DEF Restart, Rebaselined, Segment
    <3>. QED  BY <2>2, <3>1
  <2>. QED  BY <1>4, <2>3, <2>4 DEF Commit
<1>5. ASSUME NEW w \in Workers, Edit(w)
      PROVE  segment'.on = segment.on /\ changes' = changes
  BY <1>0, <1>5 DEF Edit, Segment
<1>. QED  BY <1>0, <1>1, <1>2, <1>3, <1>4, <1>5
          DEF Next, Night, StartNight, Skip, Begin, Read, Fail, StartEdit, Delete, Move,
              Deactivate, Midnight, vars, rows

\* A late pass takes the segment back to no earlier day and writes no old row.
THEOREM Forward == Spec => NightsGoForward
<1>1. IInv /\ [Next]_vars =>
        [segment' # Gone => /\ segment'.on >= segment.on
                            /\ \A c \in changes' \ changes : c.on > segment.on]_vars
  <2>. SUFFICES ASSUME IInv, [Next]_vars, segment' # Gone
                PROVE  \/ /\ segment'.on >= segment.on
                          /\ \A c \in changes' \ changes : c.on > segment.on
                       \/ UNCHANGED vars
    OBVIOUS
  <2>1. CASE segment # Gone
    BY <2>1, StepForward
  <2>2. CASE segment = Gone
    <3>1. segment' = segment
      BY <2>2 DEF Next, Night, StartNight, Skip, Pause, Begin, Count, Read, Commit, Fail, StartEdit,
                  Edit, Delete, Move, Deactivate, Midnight, DoneFor, vars, rows, IInv, UnderLock,
                  Holds
    <3>. QED  BY <2>2, <3>1
  <2>. QED  BY <2>1, <2>2
<1>. QED  BY <1>1, Inductive, PTL DEF Spec, NightsGoForward

\* A segment that was paused adds no row before it has a fresh baseline.
THEOREM PauseIsSilent == Spec => GapIsNotReported
<1>1. IInv /\ [Next]_vars =>
        [segment # Gone /\ segment' # Gone /\ segment.paused => changes' = changes]_vars
  BY StepForward
<1>. QED  BY <1>1, Inductive, PTL DEF Spec, GapIsNotReported

-----------------------------------------------------------------------------
(* Readings.  A pass that is not told to include corrected rows has loaded *)
(* none; and a worker writes of what it has loaded only.                   *)

Places == {"idle", "ask", "write", "people", "hear", "save", "correct", "patch"}

Work == [pc : Places, kind : Kinds, phase : {"mark", "batch", "all"},
         copy : [Interactions -> {NotYet} \cup Record], todo : SUBSET Interactions,
         placed : SUBSET Interactions, touched : BOOLEAN, contact : Contact,
         label : Sounds \cup {NoLabel}]

\* What a worker may hold, of given rows and calls without words.
Fits(r, store, mute) ==
    /\ r \in Work
    /\ \A i \in Interactions : r.copy[i] # NotYet => store[i] # NotYet
    /\ \A i \in r.todo : r.copy[i] # NotYet
    /\ \A i \in r.placed : r.copy[i] # NotYet /\ i \notin mute
    /\ r.pc = "idle" => r = NoReading
    /\ r.pc = "correct" => r.kind = "request"
    /\ r.kind \in {"arrival", "night", "reclassify"} =>
          \A i \in Interactions : r.copy[i] # NotYet => ~r.copy[i].corrected

ReadingInv ==
    /\ ReadingTypeOK /\ DOMAIN reading = AllReaders
    /\ \A i \in There : records[i].corrected => records[i].read
    /\ \A w \in AllReaders : Fits(reading[w], records, wordless)

\* One worker goes on; rows stay or come.
LEMMA ReaderGoesOn ==
  ASSUME ReadingInv, NEW w \in AllReaders, NEW new,
         reading' = [reading EXCEPT ![w] = new], wordless' = wordless,
         contact' \in Contact, records' \in [Interactions -> {NotYet} \cup Record],
         \A i \in Interactions : records[i] # NotYet => records'[i] # NotYet,
         \A i \in Interactions : records'[i] # NotYet /\ records'[i].corrected => records'[i].read,
         Fits(new, records', wordless)
  PROVE  ReadingInv'
<1>1. /\ DOMAIN reading' = AllReaders /\ reading'[w] = new
      /\ \A v \in AllReaders \ {w} : reading'[v] = reading[v]
  BY DEF ReadingInv
<1>2. \A v \in AllReaders : Fits(reading'[v], records', wordless')
  BY <1>1 DEF ReadingInv, Fits
<1>3. ASSUME NEW v \in AllReaders
      PROVE  /\ reading'[v].kind \in Kinds /\ reading'[v].contact \in Contact
             /\ reading'[v].label \in Sounds \cup {NoLabel}
             /\ reading'[v].placed \subseteq Batch(v)'
             /\ reading'[v].todo \subseteq Interactions
  BY <1>2 DEF Fits, Work, Batch, Loaded
<1>4. ReadingTypeOK'
  BY <1>3 DEF ReadingInv, ReadingTypeOK
<1>. QED  BY <1>1, <1>2, <1>4 DEF ReadingInv, There

\* So it is of a step that leaves the rows alone.
LEMMA ReaderOnly ==
  ASSUME ReadingInv, NEW w \in AllReaders, NEW new,
         reading' = [reading EXCEPT ![w] = new], wordless' = wordless, records' = records,
         contact' \in Contact, Fits(new, records, wordless)
  PROVE  ReadingInv'
BY ReaderGoesOn DEF ReadingInv, ReadingTypeOK, There

LEMMA NothingFits ==
  ASSUME NEW store, NEW mute
  PROVE  /\ Fits(NoReading, store, mute) /\ NoReading \in Work
         /\ NoReading.pc = "idle" /\ NoReading.kind = "request" /\ NoReading.todo = {}
         /\ NoReading.placed = {} /\ \A i \in Interactions : NoReading.copy[i] = NotYet
<1>1. NoReading \in Work
  BY DEF NoReading, Work, Places, Kinds, Contact, Sounds, Sources
<1>2. /\ NoReading.pc = "idle" /\ NoReading.kind = "request" /\ NoReading.todo = {}
      /\ NoReading.placed = {} /\ \A i \in Interactions : NoReading.copy[i] = NotYet
  BY DEF NoReading
<1>. QED  BY <1>1, <1>2 DEF Fits

\* Without copies there is nothing to write.
LEMMA EmptyHands ==
  ASSUME NEW store, NEW mute, NEW place \in Places \ {"idle"}, NEW kind \in Kinds,
         NEW phase \in {"mark", "batch", "all"}, place # "correct" \/ kind = "request"
  PROVE  /\ Fits([NoReading EXCEPT !.pc = place, !.kind = kind, !.phase = phase], store, mute)
         /\ [NoReading EXCEPT !.pc = place, !.kind = kind, !.phase = phase].pc = place
<1>. DEFINE r == [NoReading EXCEPT !.pc = place, !.kind = kind, !.phase = phase]
<1>1. /\ r \in Work /\ r.pc = place /\ r.kind = kind /\ r.todo = NoReading.todo
      /\ r.placed = NoReading.placed /\ r.copy = NoReading.copy
  BY NothingFits DEF Work
<1>. HIDE DEF r
<1>2. Fits(r, store, mute)
  BY <1>1, NothingFits DEF Fits
<1>. QED  BY <1>1, <1>2 DEF r

\* Where a worker goes when a phase is over.
LEMMA AfterFits ==
  ASSUME ReadingInv, NEW w \in AllReaders, NEW phase, NEW store,
         \A i \in Interactions : records[i] # NotYet => store[i] # NotYet
  PROVE  /\ Fits(After(w, phase), store, wordless)
         /\ After(w, phase).pc \in {"ask", "people", "idle"}
<1>1. /\ Fits(reading[w], records, wordless) /\ reading[w] \in Work /\ NoReading.contact \in Contact
      /\ NoReading.label = NoLabel
  BY NothingFits DEF ReadingInv, Fits, Work, NoReading
<1>2. CASE phase = "mark" /\ Batch(w) # {}
  <2>. DEFINE r == [reading[w] EXCEPT !.pc = "ask", !.phase = "batch", !.touched = FALSE,
                                      !.contact = NoReading.contact, !.label = NoLabel]
  <2>1. /\ r \in Work /\ r.pc = "ask" /\ r.kind = reading[w].kind /\ r.todo = reading[w].todo
        /\ r.placed = reading[w].placed /\ r.copy = reading[w].copy
    BY <1>1 DEF Work, Places
  <2>. HIDE DEF r
  <2>2. Fits(r, store, wordless)
    BY <1>1, <2>1 DEF Fits
  <2>3. After(w, phase) = r
    BY <1>2 DEF After, r
  <2>. QED  BY <2>1, <2>2, <2>3
<1>3. CASE ~(phase = "mark" /\ Batch(w) # {}) /\ reading[w].kind = "night" /\ phase # "all"
  <2>1. After(w, phase) = [NoReading EXCEPT !.pc = "people", !.kind = "night", !.phase = "all"]
    BY <1>3 DEF After
  <2>2. "people" \in Places \ {"idle"} /\ "night" \in Kinds /\ "people" # "correct"
    BY DEF Places, Kinds
  <2>3. "night" \in Kinds /\ "people" \in Places \ {"idle"} /\ "all" \in {"mark", "batch", "all"}
    BY <2>2
  <2>. DEFINE q == [NoReading EXCEPT !.pc = "people", !.kind = "night", !.phase = "all"]
  <2>4. Fits(q, store, wordless) /\ q.pc = "people"
    BY <2>2, <2>3, EmptyHands
  <2>. HIDE DEF q
  <2>5. After(w, phase) = q
    BY <2>1 DEF q
  <2>. QED  BY <2>4, <2>5
<1>4. CASE ~(phase = "mark" /\ Batch(w) # {}) /\ ~(reading[w].kind = "night" /\ phase # "all")
  BY <1>4, NothingFits DEF After
<1>5. CASE ~(phase = "mark" /\ Batch(w) # {})
  BY <1>3, <1>4, <1>5
<1>. QED  BY <1>2, <1>5

LEMMA ToPeopleFits ==
  ASSUME ReadingInv, NEW w \in AllReaders, NEW store,
         \A i \in Interactions : records[i] # NotYet => store[i] # NotYet
  PROVE  Fits(ToPeople(w), store, wordless) /\ ToPeople(w).pc = "people"
<1>1. Fits(reading[w], records, wordless) /\ reading[w] \in Work
  BY DEF ReadingInv, Fits
<1>2. CASE reading[w].phase = "mark"
  <2>. DEFINE r == [reading[w] EXCEPT !.pc = "people", !.todo = {}]
  <2>1. /\ r \in Work /\ r.pc = "people" /\ r.kind = reading[w].kind /\ r.todo = {}
        /\ r.placed = reading[w].placed /\ r.copy = reading[w].copy
    BY <1>1 DEF Work, Places
  <2>. HIDE DEF r
  <2>2. Fits(r, store, wordless)
    BY <1>1, <2>1 DEF Fits
  <2>3. ToPeople(w) = r
    BY <1>2 DEF ToPeople, r
  <2>. QED  BY <2>1, <2>2, <2>3
<1>3. CASE reading[w].phase # "mark"
  <2>. DEFINE kind == IF reading[w].kind = "night" THEN "night" ELSE "request"
              r == [NoReading EXCEPT !.pc = "people", !.kind = kind]
  <2>1. kind \in Kinds
    BY DEF Kinds
  <2>. HIDE DEF kind
  <2>2. /\ r \in Work /\ r.pc = "people" /\ r.kind = kind /\ r.todo = NoReading.todo
        /\ r.placed = NoReading.placed /\ r.copy = NoReading.copy
    BY <2>1, NothingFits DEF Work, Places
  <2>. HIDE DEF r
  <2>3. Fits(r, store, wordless)
    BY <2>2, NothingFits DEF Fits
  <2>4. ToPeople(w) = r
    BY <1>3 DEF ToPeople, r, kind
  <2>. QED  BY <2>2, <2>3, <2>4
<1>. QED  BY <1>2, <1>3

\* What each verdict makes of a row.
LEMMA VerdictIs ==
  ASSUME NEW row \in Record, NEW copy \in Record, NEW tagged \in BOOLEAN, NEW s \in Sounds
  PROVE  /\ Marked(row) \in Record /\ Marked(row).read
         /\ Placed(row, copy, s) \in Record /\ Placed(row, copy, s).read
         /\ Cleared(row) \in Record /\ Cleared(row).read
         /\ Corrected(row, copy, tagged, s) \in Record /\ Corrected(row, copy, tagged, s).read
         /\ Glance(row) \in Record /\ Glance(row).corrected = row.corrected
<1>1. /\ row.nothing \in BOOLEAN /\ copy.nothing \in BOOLEAN /\ "neutral" \in Sounds
      /\ row.corrected \in BOOLEAN /\ Unread \in Record
  BY DEF Record, Sounds, Unread
<1>2. (row.nothing /\ ~copy.nothing) \in BOOLEAN
  BY <1>1
<1>3. Marked(row) \in Record /\ Marked(row).read
  BY <1>1 DEF Marked, Record
<1>4. Placed(row, copy, s) \in Record /\ Placed(row, copy, s).read
  BY <1>1, <1>2 DEF Placed, Record
<1>5. Cleared(row) \in Record /\ Cleared(row).read
  BY DEF Cleared, Record
<1>6. Corrected(row, copy, tagged, s) \in Record /\ Corrected(row, copy, tagged, s).read
  BY <1>1, <1>2 DEF Corrected, Record
<1>7. Glance(row) \in Record /\ Glance(row).corrected = row.corrected
  BY <1>1 DEF Glance, Record
<1>. QED  BY <1>3, <1>4, <1>5, <1>6, <1>7

\* A pass has copied what it takes, and marks some of it.
LEMMA PassFits ==
  ASSUME ReadingInv, NEW kind \in {"night", "reclassify", "override"}
  PROVE  Fits(Pass(kind, Pending(kind)), records, wordless)
<1>. DEFINE ids == Pending(kind)
            r == Pass(kind, ids)
<1>1. /\ ids \subseteq There
      /\ kind \in {"night", "reclassify"} => \A i \in ids : ~records[i].corrected
  BY DEF ReadingInv, Pending, There
<1>. HIDE DEF ids
<1>2. \A i \in There : records[i] \in Record
  BY DEF ReadingInv, ReadingTypeOK, There
<1>3. \A i \in Interactions :
        /\ i \in ids => Copied(ids)[i] \in Record /\ Copied(ids)[i].corrected = records[i].corrected
        /\ i \notin ids => Copied(ids)[i] = NotYet
  <2>. SUFFICES ASSUME NEW i \in Interactions
                PROVE  /\ i \in ids => /\ Copied(ids)[i] \in Record
                                       /\ Copied(ids)[i].corrected = records[i].corrected
                       /\ i \notin ids => Copied(ids)[i] = NotYet
    OBVIOUS
  <2>1. Copied(ids)[i] = IF i \in ids THEN Glance(records[i]) ELSE NotYet
    BY DEF Copied
  <2>2. ASSUME i \in ids
        PROVE  Glance(records[i]) \in Record /\ Glance(records[i]).corrected = records[i].corrected
    <3>1. records[i] \in Record
      BY <1>1, <1>2, <2>2
    <3>2. "neutral" \in Sounds /\ TRUE \in BOOLEAN
      BY DEF Sounds
    <3>. QED  BY <3>1, <3>2, VerdictIs
  <2>. QED  BY <2>1, <2>2
<1>4. Copied(ids) \in [Interactions -> {NotYet} \cup Record]
  <2>1. \A i \in Interactions : Copied(ids)[i] \in {NotYet} \cup Record
    BY <1>3
  <2>. QED  BY <2>1 DEF Copied
<1>5. /\ r \in Work /\ r.pc \in {"write", "ask"} /\ r.kind = kind /\ r.copy = Copied(ids)
      /\ r.todo = ids \cap wordless /\ r.placed = {}
  <2>. DEFINE at == IF ids \cap wordless # {} THEN "write" ELSE "ask"
              phase == IF ids \cap wordless # {} THEN "mark" ELSE "batch"
              copies == Copied(ids)
              marked == ids \cap wordless
  <2>1. /\ at \in {"write", "ask"} /\ phase \in {"mark", "batch", "all"} /\ kind \in Kinds
        /\ copies \in [Interactions -> {NotYet} \cup Record] /\ marked \in SUBSET Interactions
    BY <1>1, <1>4 DEF Kinds, There
  <2>. HIDE DEF at, phase, copies, marked
  <2>. DEFINE q == [NoReading EXCEPT !.kind = kind, !.copy = copies, !.pc = at, !.phase = phase,
                                     !.todo = marked]
  <2>2. /\ q \in Work /\ q.pc = at /\ q.kind = kind /\ q.copy = copies /\ q.todo = marked
        /\ q.placed = NoReading.placed
    BY <2>1, NothingFits DEF Work, Places
  <2>. HIDE DEF q
  <2>3. r = q
    BY DEF Pass, q, at, phase, copies, marked
  <2>. HIDE DEF r
  <2>. QED  BY <2>1, <2>2, <2>3, NothingFits DEF copies, marked
<1>. HIDE DEF r
<1>6. /\ \A i \in Interactions : r.copy[i] # NotYet => i \in ids
      /\ \A i \in ids : i \in Interactions /\ r.copy[i] # NotYet
  BY <1>1, <1>3, <1>5, NoRecord DEF There
<1>7. Fits(r, records, wordless)
  <2>1. /\ \A i \in Interactions : r.copy[i] # NotYet => records[i] # NotYet
        /\ \A i \in r.todo : r.copy[i] # NotYet
        /\ \A i \in r.placed : r.copy[i] # NotYet /\ i \notin wordless
    BY <1>1, <1>5, <1>6 DEF There
  <2>2. r.pc # "idle" /\ r.pc # "correct"
    BY <1>5
  <2>3. r.kind \in {"arrival", "night", "reclassify"} =>
           \A i \in Interactions : r.copy[i] # NotYet => ~r.copy[i].corrected
    BY <1>1, <1>3, <1>5, <1>6
  <2>. QED  BY <1>5, <2>1, <2>2, <2>3 DEF Fits
<1>. QED  BY <1>7 DEF r, ids

\* Rows that stand: what a step may do to what is there.
Stand == \A i \in There :
           records[i].corrected /\ Reading(records'[i]) # Reading(records[i]) =>
             \E w \in AllReaders :
                /\ i \in Loaded(w) /\ reading'[w] # reading[w]
                /\ reading[w].kind \in {"request", "override"} \/ ~reading[w].copy[i].corrected

\* A row that changes was loaded by the worker, who is allowed to or had it uncorrected.
LEMMA RowsStand ==
  ASSUME ReadingInv, NEW w \in AllReaders, reading'[w] # reading[w],
         \A i \in There : records'[i] # records[i] => i \in Loaded(w)
  PROVE  Stand
<1>. SUFFICES ASSUME NEW i \in There, Reading(records'[i]) # Reading(records[i])
              PROVE  /\ i \in Loaded(w)
                     /\ reading[w].kind \in {"request", "override"}
                          \/ ~reading[w].copy[i].corrected
  BY DEF Stand
<1>1. i \in Loaded(w) /\ i \in Interactions
  BY DEF There
<1>2. Fits(reading[w], records, wordless)
  BY DEF ReadingInv
<1>. QED  BY <1>1, <1>2 DEF Fits, Work, Kinds, Loaded

\* Nothing changes in the rows.
LEMMA SameRows == ASSUME records' = records PROVE Stand
BY DEF Stand

\* A worker who goes on from where they are, with other words only.
LEMMA StillFits ==
  ASSUME ReadingInv, NEW w \in AllReaders, NEW r, NEW store,
         \A i \in Interactions : records[i] # NotYet => store[i] # NotYet,
         r \in Work, r.pc # "idle", r.pc = "correct" => r.kind = "request",
         r.kind = reading[w].kind, r.copy = reading[w].copy, r.todo \subseteq Loaded(w),
         r.placed \subseteq Batch(w)
  PROVE  Fits(r, store, wordless)
<1>1. Fits(reading[w], records, wordless)
  BY DEF ReadingInv
<1>. QED  BY <1>1 DEF Fits, Loaded, Batch, Work

LEMMA AtWork ==
  ASSUME ReadingInv, NEW w \in AllReaders
  PROVE  /\ reading[w] \in Work /\ Fits(reading[w], records, wordless) /\ contact \in Contact
         /\ reading[w].todo \subseteq Loaded(w) /\ reading[w].placed \subseteq Batch(w)
         /\ Loaded(w) \subseteq There /\ Batch(w) \subseteq Loaded(w)
         /\ Loaded(w) \subseteq Interactions
BY DEF ReadingInv, ReadingTypeOK, Fits, Work, Loaded, Batch, There

LEMMA ReceiveKeeps ==
  ASSUME ReadingInv, NEW w \in AllReaders, Receive(w)
  PROVE  ReadingInv' /\ Stand
<1>1. PICK new \in SUBSET (Interactions \ There) :
        /\ records' = [i \in Interactions |-> IF i \in new THEN Unread ELSE records[i]]
        /\ reading' = [reading EXCEPT ![w] =
                         [NoReading EXCEPT !.kind = "arrival", !.todo = new \cap wordless,
                            !.copy = [i \in Interactions |-> IF i \in new THEN Unread ELSE NotYet],
                            !.pc = IF new \subseteq wordless THEN "people" ELSE "ask"]]
  BY DEF Receive
<1>2. /\ Unread \in Record /\ ~Unread.corrected /\ Unread # NotYet
      /\ wordless' = wordless /\ contact' = contact
  <2>1. Unread \in Record /\ ~Unread.corrected
    BY DEF Unread, Record, Sounds
  <2>2. wordless' = wordless /\ contact' = contact
    BY DEF Receive
  <2>. QED  BY <2>1, <2>2, NoRecord
<1>3. records \in [Interactions -> {NotYet} \cup Record] /\ contact \in Contact
  BY DEF ReadingInv, ReadingTypeOK
<1>4. /\ records' \in [Interactions -> {NotYet} \cup Record]
      /\ \A i \in Interactions : records'[i] = IF i \in new THEN Unread ELSE records[i]
  BY <1>1, <1>2, <1>3
<1>5. /\ \A i \in Interactions : records[i] # NotYet => records'[i] # NotYet
      /\ \A i \in Interactions : records'[i] # NotYet /\ records'[i].corrected => records'[i].read
  BY <1>2, <1>4 DEF ReadingInv, There
<1>. DEFINE copies == [i \in Interactions |-> IF i \in new THEN Unread ELSE NotYet]
            marked == new \cap wordless
            at == IF new \subseteq wordless THEN "people" ELSE "ask"
            r == [NoReading EXCEPT !.kind = "arrival", !.todo = marked, !.copy = copies, !.pc = at]
<1>6. /\ copies \in [Interactions -> {NotYet} \cup Record] /\ marked \in SUBSET Interactions
      /\ at \in {"people", "ask"} /\ "arrival" \in Kinds
      /\ \A i \in Interactions : copies[i] = IF i \in new THEN Unread ELSE NotYet
  BY <1>2 DEF Kinds
<1>7. reading' = [reading EXCEPT ![w] = r]
  BY <1>1
<1>8. \A i \in marked : i \in new
  OBVIOUS
<1>. HIDE DEF copies, marked, at
<1>9. /\ r \in Work /\ r.pc = at /\ r.kind = "arrival" /\ r.copy = copies /\ r.todo = marked
      /\ r.placed = {}
  BY <1>6, NothingFits DEF Work, Places
<1>. HIDE DEF r
<1>10. Fits(r, records', wordless)
  <2>1. /\ \A i \in Interactions : r.copy[i] # NotYet => records'[i] # NotYet
        /\ \A i \in r.todo : r.copy[i] # NotYet
        /\ \A i \in r.placed : r.copy[i] # NotYet /\ i \notin wordless
    BY <1>2, <1>4, <1>6, <1>8, <1>9
  <2>2. \A i \in Interactions : r.copy[i] # NotYet => ~r.copy[i].corrected
    BY <1>2, <1>6, <1>9
  <2>3. r.pc # "idle" /\ r.pc # "correct"
    BY <1>6, <1>9
  <2>. QED  BY <1>9, <2>1, <2>2, <2>3 DEF Fits
<1>11. ReadingInv'
  BY <1>2, <1>3, <1>4, <1>5, <1>7, <1>10, ReaderGoesOn
<1>12. \A i \in There : records'[i] = records[i]
  BY <1>1, <1>4 DEF There
<1>. QED  BY <1>11, <1>12 DEF Stand

LEMMA StartMaintenanceKeeps ==
  ASSUME ReadingInv, NEW w \in AllReaders, StartMaintenance(w)
  PROVE  ReadingInv' /\ Stand
<1>. DEFINE q == [NoReading EXCEPT !.pc = "people", !.kind = "night", !.phase = "all"]
            r == IF Pending("night") = {} THEN q ELSE Pass("night", Pending("night"))
<1>1. /\ reading' = [reading EXCEPT ![w] = r] /\ wordless' = wordless /\ records' = records
      /\ contact' = contact
  BY DEF StartMaintenance
<1>2. Fits(q, records, wordless)
  <2>1. /\ "night" \in Kinds /\ "people" \in Places \ {"idle"} /\ "people" # "correct"
        /\ "all" \in {"mark", "batch", "all"}
    BY DEF Kinds, Places
  <2>. QED  BY <2>1, EmptyHands
<1>3. Fits(Pass("night", Pending("night")), records, wordless)
  BY PassFits
<1>. HIDE DEF q
<1>4. Fits(r, records, wordless)
  BY <1>2, <1>3
<1>. HIDE DEF r
<1>. QED  BY <1>1, <1>4, ReaderOnly, AtWork, SameRows

LEMMA StartReclassifyKeeps ==
  ASSUME ReadingInv, NEW w \in AllReaders, StartReclassify(w)
  PROVE  ReadingInv' /\ Stand
<1>1. PICK kind \in {"reclassify", "override"} :
         reading' = [reading EXCEPT ![w] = Pass(kind, Pending(kind))]
  BY DEF StartReclassify
<1>2. wordless' = wordless /\ records' = records /\ contact' = contact
  BY DEF StartReclassify
<1>3. Fits(Pass(kind, Pending(kind)), records, wordless)
  BY PassFits
<1>. QED  BY <1>1, <1>2, <1>3, ReaderOnly, AtWork, SameRows

LEMMA AskKeeps ==
  ASSUME ReadingInv, NEW w \in AllReaders, Ask(w)
  PROVE  ReadingInv' /\ Stand
<1>1. PICK placed \in SUBSET Batch(w) :
         reading' = [reading EXCEPT ![w].pc = "write", ![w].todo = Batch(w), ![w].placed = placed]
  BY DEF Ask
<1>2. wordless' = wordless /\ records' = records /\ contact' = contact
  BY DEF Ask
<1>. DEFINE batch == Batch(w)
            r == [reading[w] EXCEPT !.pc = "write", !.todo = batch, !.placed = placed]
<1>3. /\ batch \in SUBSET Interactions /\ placed \in SUBSET Interactions
      /\ batch \subseteq Loaded(w)
      /\ "write" \in Places /\ placed \subseteq Batch(w)
  BY <1>1, AtWork DEF Places
<1>4. reading' = [reading EXCEPT ![w] = r]
  BY <1>1 DEF ReadingInv
<1>. HIDE DEF batch
<1>5. /\ r \in Work /\ r.pc = "write" /\ r.kind = reading[w].kind /\ r.copy = reading[w].copy
      /\ r.todo = batch /\ r.placed = placed
  BY <1>3, AtWork DEF Work
<1>. HIDE DEF r
<1>6. Fits(r, records, wordless)
  BY <1>3, <1>5, StillFits
<1>. QED  BY <1>2, <1>4, <1>6, ReaderOnly, AtWork, SameRows

LEMMA RefusedKeeps ==
  ASSUME ReadingInv, NEW w \in AllReaders, Refused(w)
  PROVE  ReadingInv' /\ Stand
<1>. DEFINE r == IF reading[w].kind = "arrival" /\ Batch(w) \subseteq Calls
                 THEN ToPeople(w) ELSE After(w, "batch")
<1>1. /\ reading' = [reading EXCEPT ![w] = r] /\ wordless' = wordless /\ records' = records
      /\ contact' = contact
  BY DEF Refused
<1>2. Fits(r, records, wordless)
  BY AfterFits, ToPeopleFits
<1>. HIDE DEF r
<1>. QED  BY <1>1, <1>2, ReaderOnly, AtWork, SameRows

LEMMA LoadPeopleKeeps ==
  ASSUME ReadingInv, NEW w \in AllReaders, LoadPeople(w)
  PROVE  ReadingInv' /\ Stand
<1>. DEFINE seen == [reading[w].contact EXCEPT !.source = contact.source]
            r == [reading[w] EXCEPT !.pc = "hear", !.contact = seen]
<1>1. /\ reading' = [reading EXCEPT ![w] = r] /\ wordless' = wordless /\ records' = records
      /\ contact' = contact
  BY DEF LoadPeople, ReadingInv
<1>2. seen \in Contact /\ "hear" \in Places
  BY AtWork DEF Work, Contact, Places
<1>. HIDE DEF seen
<1>3. /\ r \in Work /\ r.pc = "hear" /\ r.kind = reading[w].kind /\ r.copy = reading[w].copy
      /\ r.todo = reading[w].todo /\ r.placed = reading[w].placed
  BY <1>2, AtWork DEF Work
<1>. HIDE DEF r
<1>4. Fits(r, records, wordless)
  BY <1>3, AtWork, StillFits
<1>. QED  BY <1>1, <1>4, ReaderOnly, AtWork, SameRows

LEMMA HearKeeps ==
  ASSUME ReadingInv, NEW w \in AllReaders, Hear(w)
  PROVE  ReadingInv' /\ Stand
<1>. DEFINE heard == Label(Evidence)
            r == [reading[w] EXCEPT !.pc = "save", !.label = heard]
<1>1. /\ reading' = [reading EXCEPT ![w] = r] /\ wordless' = wordless /\ records' = records
      /\ contact' = contact
  BY DEF Hear, ReadingInv
<1>2. heard \in Sounds \cup {NoLabel} /\ "save" \in Places
  BY DEF Label, Sounds, Places
<1>. HIDE DEF heard
<1>3. /\ r \in Work /\ r.pc = "save" /\ r.kind = reading[w].kind /\ r.copy = reading[w].copy
      /\ r.todo = reading[w].todo /\ r.placed = reading[w].placed
  BY <1>2, AtWork DEF Work
<1>. HIDE DEF r
<1>4. Fits(r, records, wordless)
  BY <1>3, AtWork, StillFits
<1>. QED  BY <1>1, <1>4, ReaderOnly, AtWork, SameRows

\* What a pass makes of a row, it makes of a row it has loaded.
LEMMA VerdictsAreRows ==
  ASSUME ReadingInv, NEW w \in AllReaders, NEW i \in Loaded(w), NEW row \in Verdicts(w, i)
  PROVE  row \in Record /\ (row.corrected => row.read)
<1>1. /\ i \in Interactions /\ records[i] \in Record /\ i \in There
      /\ records[i].corrected => records[i].read
  BY AtWork DEF ReadingInv, ReadingTypeOK, There
<1>2. reading[w].copy[i] \in Record
  BY <1>1, AtWork DEF Work, Loaded
<1>3. TRUE \in BOOLEAN /\ "neutral" \in Sounds
  BY DEF Sounds
<1>4. \/ row = Marked(records[i])
      \/ \E s \in Sounds : row = Placed(records[i], reading[w].copy[i], s)
      \/ row = Cleared(records[i])
      \/ row = records[i]
  BY DEF Verdicts
<1>5. CASE row = Marked(records[i])
  BY <1>1, <1>3, <1>5, VerdictIs
<1>6. ASSUME NEW s \in Sounds, row = Placed(records[i], reading[w].copy[i], s)
      PROVE  row \in Record /\ row.read
  <2>1. /\ Placed(records[i], reading[w].copy[i], s) \in Record
        /\ Placed(records[i], reading[w].copy[i], s).read
    BY <1>1, <1>2, <1>3, VerdictIs
  <2>. QED  BY <1>6, <2>1
<1>7. CASE row = Cleared(records[i])
  BY <1>1, <1>3, <1>7, VerdictIs
<1>8. CASE row = records[i]
  BY <1>1, <1>8
<1>. QED  BY <1>4, <1>5, <1>6, <1>7, <1>8

LEMMA WriteKeeps ==
  ASSUME ReadingInv, NEW w \in AllReaders, NEW i \in Interactions, Write(w, i)
  PROVE  ReadingInv' /\ Stand
<1>. DEFINE left == reading[w].todo \ {i}
            touched == reading[w].touched \/ Touches(w, i)
            r == [reading[w] EXCEPT !.todo = left, !.touched = touched]
            new == CASE left # {} -> r
                     [] left = {} /\ touched -> ToPeople(w)
                     [] OTHER -> After(w, reading[w].phase)
<1>1. /\ reading[w].pc = "write" /\ i \in reading[w].todo
      /\ reading' = [reading EXCEPT ![w] = new] /\ wordless' = wordless /\ contact' = contact
  BY DEF Write, ReadingInv
<1>2. PICK row \in Verdicts(w, i) : records' = [records EXCEPT ![i] = row]
  BY DEF Write
<1>3. i \in Loaded(w) /\ row \in Record /\ (row.corrected => row.read) /\ row # NotYet
  BY <1>1, <1>2, AtWork, VerdictsAreRows, NoRecord
<1>4. records \in [Interactions -> {NotYet} \cup Record]
  BY DEF ReadingInv, ReadingTypeOK
<1>5. /\ records' \in [Interactions -> {NotYet} \cup Record]
      /\ \A j \in Interactions : records'[j] = IF j = i THEN row ELSE records[j]
  BY <1>2, <1>3, <1>4
<1>6. /\ \A j \in Interactions : records[j] # NotYet => records'[j] # NotYet
      /\ \A j \in Interactions : records'[j] # NotYet /\ records'[j].corrected => records'[j].read
  BY <1>3, <1>5 DEF ReadingInv, There
<1>7. left \in SUBSET Interactions /\ left \subseteq Loaded(w) /\ i \notin left
  BY AtWork
<1>8. touched \in BOOLEAN
  <2>1. reading[w].touched \in BOOLEAN /\ Touches(w, i) \in BOOLEAN
    BY AtWork DEF Work, Touches, Declined
  <2>. QED  BY <2>1
<1>. HIDE DEF left, touched
<1>9. /\ r \in Work /\ r.pc = reading[w].pc /\ r.kind = reading[w].kind /\ r.copy = reading[w].copy
      /\ r.todo = left /\ r.placed = reading[w].placed
  BY <1>7, <1>8, AtWork DEF Work
<1>. HIDE DEF r
<1>10. Fits(r, records', wordless)
  BY <1>1, <1>6, <1>7, <1>9, AtWork, StillFits
<1>11. /\ Fits(ToPeople(w), records', wordless) /\ ToPeople(w).pc = "people"
       /\ Fits(After(w, reading[w].phase), records', wordless)
       /\ After(w, reading[w].phase).pc \in {"ask", "people", "idle"}
  BY <1>6, AfterFits, ToPeopleFits
<1>12. new \in {r, ToPeople(w), After(w, reading[w].phase)}
  BY <1>8
<1>. HIDE DEF new
<1>13. Fits(new, records', wordless)
  BY <1>10, <1>11, <1>12
<1>14. new # reading[w]
  <2>1. i \in reading[w].todo /\ r.todo = left
    BY <1>1, <1>9
  <2>. QED  BY <1>1, <1>7, <1>11, <1>12, <2>1
<1>15. ReadingInv'
  BY <1>1, <1>5, <1>6, <1>13, AtWork, ReaderGoesOn
<1>16. reading'[w] # reading[w]
  BY <1>1, <1>14 DEF ReadingInv
<1>17. \A j \in There : records'[j] # records[j] => j \in Loaded(w)
  BY <1>3, <1>5 DEF There
<1>. QED  BY <1>15, <1>16, <1>17, RowsStand

LEMMA SavePeopleKeeps ==
  ASSUME ReadingInv, NEW w \in AllReaders, SavePeople(w)
  PROVE  ReadingInv' /\ Stand
<1>. DEFINE new == After(w, reading[w].phase)
<1>1. /\ reading[w].pc = "save" /\ wordless' = wordless
      /\ records' = [i \in Interactions |-> IF i \in reading[w].todo THEN Marked(records[i])
                                            ELSE records[i]]
      /\ reading' = [reading EXCEPT ![w] = new]
  BY DEF SavePeople, ReadingInv
<1>2. contact' \in Contact
  <2>1. contact \in Contact /\ reading[w].label \in Sounds \cup {NoLabel}
    BY AtWork DEF Work
  <2>2. "manual" \in Sources /\ "computed" \in Sources
    BY DEF Sources
  <2>3. [contact EXCEPT !.source = "manual"] \in Contact
    BY <2>1, <2>2 DEF Contact
  <2>4. ASSUME reading[w].label \in Sounds
        PROVE  [sounds |-> reading[w].label, source |-> "computed"] \in Contact
    BY <2>2, <2>4 DEF Contact
  <2>5. SaveLabel(w)
    BY DEF SavePeople
  <2>. QED  BY <2>1, <2>3, <2>4, <2>5 DEF SaveLabel
<1>3. \A i \in Interactions : /\ records'[i] = IF i \in reading[w].todo THEN Marked(records[i])
                                               ELSE records[i]
                              /\ i \in reading[w].todo => i \in Loaded(w) /\ records[i] \in Record
                              /\ records[i] \in {NotYet} \cup Record
  BY <1>1, AtWork DEF ReadingInv, ReadingTypeOK, There
<1>4. \A i \in Interactions :
         i \in reading[w].todo => Marked(records[i]) \in Record /\ Marked(records[i]).read
  <2>. SUFFICES ASSUME NEW i \in Interactions, i \in reading[w].todo
                PROVE  Marked(records[i]) \in Record /\ Marked(records[i]).read
    OBVIOUS
  <2>1. records[i] \in Record /\ TRUE \in BOOLEAN /\ "neutral" \in Sounds
    BY <1>3 DEF Sounds
  <2>. QED  BY <2>1, VerdictIs
<1>5. records' \in [Interactions -> {NotYet} \cup Record]
  <2>1. \A i \in Interactions : records'[i] \in {NotYet} \cup Record
    BY <1>3, <1>4
  <2>. QED  BY <1>1, <2>1
<1>6. /\ \A i \in Interactions : records[i] # NotYet => records'[i] # NotYet
      /\ \A i \in Interactions : records'[i] # NotYet /\ records'[i].corrected => records'[i].read
  BY <1>3, <1>4, NoRecord DEF ReadingInv, There
<1>7. Fits(new, records', wordless) /\ new.pc \in {"ask", "people", "idle"}
  BY <1>6, AfterFits
<1>. HIDE DEF new
<1>8. ReadingInv'
  BY <1>1, <1>2, <1>5, <1>6, <1>7, ReaderGoesOn
<1>9. reading'[w] # reading[w]
  BY <1>1, <1>7 DEF ReadingInv
<1>10. \A i \in There : records'[i] # records[i] => i \in Loaded(w)
  BY <1>3 DEF There
<1>. QED  BY <1>8, <1>9, <1>10, RowsStand

LEMMA CorrectKeeps ==
  ASSUME ReadingInv, NEW w \in AllReaders, NEW i \in Interactions, Correct(w, i)
  PROVE  ReadingInv' /\ Stand
<1>1. PICK tagged \in BOOLEAN, sounds \in Sounds :
         LET copy == reading[w].copy[i]
         IN  IF copy.tagged = tagged /\ copy.sounds = sounds /\ ~copy.nothing
             THEN /\ reading' = [reading EXCEPT ![w] = NoReading]
                  /\ UNCHANGED records
             ELSE /\ records' = [records EXCEPT ![i] = Corrected(@, copy, tagged, sounds)]
                  /\ reading' = [reading EXCEPT ![w] = [NoReading EXCEPT !.pc = "people"]]
  BY DEF Correct
<1>2. /\ reading[w].pc = "correct" /\ i \in Loaded(w) /\ wordless' = wordless /\ contact' = contact
  BY DEF Correct
<1>3. CASE records' = records /\ reading' = [reading EXCEPT ![w] = NoReading]
  BY <1>2, <1>3, NothingFits, ReaderOnly, AtWork, SameRows
<1>4. CASE /\ records' = [records EXCEPT ![i] = Corrected(@, reading[w].copy[i], tagged, sounds)]
           /\ reading' = [reading EXCEPT ![w] = [NoReading EXCEPT !.pc = "people"]]
  <2>. DEFINE row == Corrected(records[i], reading[w].copy[i], tagged, sounds)
              r == [NoReading EXCEPT !.pc = "people"]
  <2>1. records \in [Interactions -> {NotYet} \cup Record] /\ i \in There /\ contact \in Contact
    BY <1>2, AtWork DEF ReadingInv, ReadingTypeOK
  <2>2. records[i] \in Record /\ reading[w].copy[i] \in Record
    BY <1>2, <2>1, AtWork DEF There, Work, Loaded
  <2>3. row \in Record /\ row.read /\ row # NotYet
    <3>1. /\ Corrected(records[i], reading[w].copy[i], tagged, sounds) \in Record
          /\ Corrected(records[i], reading[w].copy[i], tagged, sounds).read
      BY <2>2, VerdictIs
    <3>. QED  BY <3>1, NoRecord
  <2>4. records' = [records EXCEPT ![i] = row] /\ reading' = [reading EXCEPT ![w] = r]
    BY <1>4, <2>1
  <2>. HIDE DEF row
  <2>5. /\ records' \in [Interactions -> {NotYet} \cup Record]
        /\ \A j \in Interactions : records'[j] = IF j = i THEN row ELSE records[j]
    BY <2>1, <2>3, <2>4
  <2>6. /\ \A j \in Interactions : records[j] # NotYet => records'[j] # NotYet
        /\ \A j \in Interactions : records'[j] # NotYet /\ records'[j].corrected => records'[j].read
    BY <2>3, <2>5 DEF ReadingInv, There
  <2>7. /\ r \in Work /\ r.pc = "people" /\ r.kind = "request" /\ r.todo = {} /\ r.placed = {}
        /\ \A j \in Interactions : r.copy[j] = NotYet
    BY NothingFits DEF Work, Places
  <2>. HIDE DEF r
  <2>8. Fits(r, records', wordless)
    BY <2>7 DEF Fits
  <2>9. ReadingInv'
    BY <1>2, <2>1, <2>4, <2>5, <2>6, <2>8, ReaderGoesOn
  <2>10. reading'[w] # reading[w]
    BY <1>2, <2>4, <2>7 DEF ReadingInv
  <2>11. \A j \in There : records'[j] # records[j] => j \in Loaded(w)
    BY <1>2, <2>5 DEF There
  <2>. QED  BY <2>9, <2>10, <2>11, RowsStand
<1>. QED  BY <1>1, <1>3, <1>4

LEMMA PatchKeeps ==
  ASSUME ReadingInv, NEW w \in AllReaders, OpenContact(w) \/ SaveContact(w) \/ ReaderDies(w)
  PROVE  ReadingInv' /\ Stand
<1>1. /\ wordless' = wordless /\ records' = records
  BY DEF OpenContact, SaveContact, ReaderDies
<1>2. CASE OpenContact(w)
  <2>. DEFINE r == [reading[w] EXCEPT !.pc = "patch", !.contact = contact]
  <2>1. reading' = [reading EXCEPT ![w] = r] /\ contact' = contact
    BY <1>2 DEF OpenContact, ReadingInv
  <2>2. /\ r \in Work /\ r.pc = "patch" /\ r.kind = reading[w].kind /\ r.copy = reading[w].copy
        /\ r.todo = reading[w].todo /\ r.placed = reading[w].placed
    BY AtWork DEF Work, Places
  <2>. HIDE DEF r
  <2>3. Fits(r, records, wordless)
    BY <2>2, AtWork, StillFits
  <2>. QED  BY <1>1, <2>1, <2>3, ReaderOnly, AtWork, SameRows
<1>3. CASE SaveContact(w) \/ ReaderDies(w)
  <2>1. reading' = [reading EXCEPT ![w] = NoReading]
    BY <1>3 DEF SaveContact, ReaderDies
  <2>2. contact' \in Contact
    <3>1. reading[w].contact \in Contact /\ contact \in Contact
      BY AtWork DEF Work
    <3>2. \A s \in Sounds : [sounds |-> s, source |-> "manual"] \in Contact
      BY DEF Contact, Sources
    <3>. QED  BY <1>3, <3>1, <3>2 DEF SaveContact, ReaderDies
  <2>. QED  BY <1>1, <2>1, <2>2, NothingFits, ReaderOnly, SameRows
<1>. QED  BY <1>2, <1>3

LEMMA OpenRecordKeeps ==
  ASSUME ReadingInv, NEW w \in AllReaders, NEW i \in Interactions, OpenRecord(w, i)
  PROVE  ReadingInv' /\ Stand
<1>. DEFINE copies == [reading[w].copy EXCEPT ![i] = records[i]]
            r == [reading[w] EXCEPT !.pc = "correct", !.copy = copies]
<1>1. /\ reading' = [reading EXCEPT ![w] = r] /\ wordless' = wordless /\ records' = records
      /\ contact' = contact /\ reading[w].pc = "idle" /\ i \in There
  BY DEF OpenRecord, ReadingInv
<1>2. reading[w] = NoReading
  BY <1>1 DEF ReadingInv, Fits
<1>3. /\ copies \in [Interactions -> {NotYet} \cup Record]
      /\ \A j \in Interactions : copies[j] = IF j = i THEN records[i] ELSE NotYet
  <2>1. records[i] \in {NotYet} \cup Record
    BY DEF ReadingInv, ReadingTypeOK
  <2>2. reading[w].copy \in [Interactions -> {NotYet} \cup Record]
    BY AtWork DEF Work
  <2>. QED  BY <1>2, <2>1, <2>2, NothingFits
<1>. HIDE DEF copies
<1>4. /\ r \in Work /\ r.pc = "correct" /\ r.kind = "request" /\ r.copy = copies
      /\ r.todo = {} /\ r.placed = {}
  BY <1>2, <1>3, AtWork, NothingFits DEF Work, Places
<1>. HIDE DEF r
<1>5. Fits(r, records, wordless)
  BY <1>1, <1>3, <1>4 DEF Fits, There
<1>. QED  BY <1>1, <1>5, ReaderOnly, AtWork, SameRows

LEMMA ReadingStart == ReadingInit => ReadingInv
<1>. SUFFICES ASSUME ReadingInit PROVE ReadingInv
  OBVIOUS
<1>1. \A w \in AllReaders : reading[w] = NoReading
  BY DEF ReadingInit
<1>2. \A w \in AllReaders : Fits(reading[w], records, wordless) /\ reading[w] \in Work
  BY <1>1, NothingFits
<1>3. /\ wordless \subseteq Calls /\ records \in [Interactions -> {NotYet} \cup Record]
      /\ contact \in Contact /\ There = {} /\ DOMAIN reading = AllReaders
  <2>1. wordless \subseteq Calls /\ DOMAIN reading = AllReaders
    BY DEF ReadingInit
  <2>2. records \in [Interactions -> {NotYet} \cup Record] /\ There = {}
    BY DEF ReadingInit, There
  <2>3. contact \in Contact
    BY DEF ReadingInit, Contact, Sources
  <2>. QED  BY <2>1, <2>2, <2>3
<1>4. ReadingTypeOK
  <2>. SUFFICES ASSUME NEW w \in AllReaders
                PROVE  /\ reading[w].kind \in Kinds /\ reading[w].contact \in Contact
                       /\ reading[w].label \in Sounds \cup {NoLabel}
                       /\ reading[w].placed \subseteq Batch(w)
                       /\ reading[w].todo \subseteq Interactions
    BY <1>3 DEF ReadingTypeOK
  <2>. QED  BY <1>1, <1>2, NothingFits DEF Work
<1>. QED  BY <1>2, <1>3, <1>4 DEF ReadingInv

LEMMA ReadingKept == ReadingInv /\ [ReadingNext]_readingVars => ReadingInv' /\ Stand
<1>. SUFFICES ASSUME ReadingInv, [ReadingNext]_readingVars PROVE ReadingInv' /\ Stand
  OBVIOUS
<1>1. Scheduler \in AllReaders /\ Readers \subseteq AllReaders
  BY DEF AllReaders
<1>2. CASE StartMaintenance(Scheduler)
  BY <1>1, <1>2, StartMaintenanceKeeps
<1>3. ASSUME NEW w \in Readers,
             \/ Receive(w) \/ StartReclassify(w) \/ OpenContact(w)
             \/ \E i \in Interactions : OpenRecord(w, i)
      PROVE  ReadingInv' /\ Stand
  BY <1>1, <1>3, ReceiveKeeps, StartReclassifyKeeps, PatchKeeps, OpenRecordKeeps
<1>4. ASSUME NEW w \in AllReaders, ReadingStep(w) PROVE ReadingInv' /\ Stand
  BY <1>4, AskKeeps, RefusedKeeps, LoadPeopleKeeps, HearKeeps, SavePeopleKeeps, PatchKeeps,
     WriteKeeps, CorrectKeeps DEF ReadingStep
<1>5. ASSUME NEW w \in AllReaders, ReaderDies(w) PROVE ReadingInv' /\ Stand
  BY <1>5, PatchKeeps
<1>6. CASE UNCHANGED readingVars
  <2>1. /\ wordless' = wordless /\ records' = records /\ contact' = contact /\ reading' = reading
    BY <1>6 DEF readingVars
  <2>. QED  BY <2>1, SameRows
            DEF ReadingInv, ReadingTypeOK, There, Batch, Loaded, Fits
<1>. QED  BY <1>2, <1>3, <1>4, <1>5, <1>6 DEF ReadingNext

\* Records, contacts and workers are what they should be, whatever the number of
\* records and of requests: a pass writes and is answered of its own batch only.
THEOREM ReadingTypes == ReadingSpec => []ReadingTypeOK
<1>1. ReadingInv => ReadingTypeOK
  BY DEF ReadingInv
<1>. QED  BY <1>1, ReadingStart, ReadingKept, PTL DEF ReadingSpec

\* A person's correction stands: no nightly or ordinary pass takes a corrected row,
\* and what it says changes at a worker's hand who had loaded it before or may.
THEOREM CorrectionStands == ReadingSpec => CorrectionsStand
<1>1. Stand =>
        \A i \in There :
         records[i].corrected /\ Reading(records'[i]) # Reading(records[i]) =>
           \E w \in AllReaders :
              /\ i \in Loaded(w) /\ reading'[w] # reading[w]
              /\ reading[w].kind \in {"request", "override"} \/ ~reading[w].copy[i].corrected
  BY DEF Stand
<1>. QED  BY <1>1, ReadingStart, ReadingKept, PTL DEF ReadingSpec, CorrectionsStand
=============================================================================
