--------------------------- MODULE MembersProofs ---------------------------
(***************************************************************************)
(* Proofs about Members, for any people, workers, roles and limits. Two    *)
(* locks carry the argument: whoever was promised a seat, or saves an      *)
(* active member, holds the account's row; and a user row is written by    *)
(* one transaction at a time.  The last part is about requests that come   *)
(* one at a time, whose unlocked checks nobody else's write can outdate.   *)
(***************************************************************************)
EXTENDS MCMembers, FiniteSetTheorems, TLAPS

\* An active member is being saved, and the seat is dealt with.
SeatsActive(w) == pc[w] = "seated" /\ Draft(w).active

\* A running request is about somebody; an admission has a role for them, a
\* transfer is from one person to another member.
Asked(w) == /\ pc[w] # "idle" => req[w].who \in People
            /\ pc[w] \in {"approving", "admitting"} => req[w].change.role \in Roles
            /\ pc[w] = "transferring" => req[w].by \in People /\ joined[req[w].who].live

\* Seats are promised and opened under the account's lock only.
UnderLock(w) == HoldsReservation(w) \/ SeatsActive(w) => lock = w

\* What a transaction will do to the seat is decided in it, by its draft.
SeatOpFits(w) == /\ seatOp[w] = "open" => SeatsActive(w) \/ pc[w] = "admitting"
                 /\ seatOp[w] = "close" => pc[w] = "seated" /\ ~Draft(w).active

\* A seat left as it was is still there at the commit, or, for somebody
\* admitted twice, they have been deactivated since.
SeatStays(w) == /\ SeatsActive(w) /\ seatOp[w] = "keep" => req[w].who \in seated
                /\ pc[w] = "admitting" /\ seatOp[w] = "keep" =>
                       req[w].who \in seated \/ ~users[req[w].who].active

Promised(w) == Enforced /\ HoldsReservation(w) => Cardinality(seated) < limit

WorkerInv(w) == /\ Asked(w)
                /\ UnderLock(w)
                /\ SeatOpFits(w)
                /\ SeatStays(w)
                /\ Promised(w)

Writes(w) == pc[w] \in {"saved", "seated"}

\* Two transactions never hold the same user row.
RowsExclusive == \A v, w \in Workers :
                     v # w /\ Writes(v) /\ Writes(w) => req[v].who # req[w].who

IInv == /\ TypeOK
        /\ \A w \in Workers : WorkerInv(w)
        /\ RowsExclusive
        /\ ActiveMembersAreSeated
        /\ ExactlyOneOwner

-----------------------------------------------------------------------------
(* What an action of one worker leaves alone in another one's request.      *)

\* v's request is not touched.
Same(v) == /\ pc'[v] = pc[v]
           /\ req'[v] = req[v]
           /\ copy'[v] = copy[v]
           /\ seatOp'[v] = seatOp[v]

LEMMA SameDraft ==
  ASSUME NEW v \in Workers, req'[v] = req[v], copy'[v] = copy[v]
  PROVE  Draft(v)' = Draft(v) /\ (Reactivating(v)' <=> Reactivating(v))
BY DEF Draft, Reactivating

LEMMA SameStanding ==
  ASSUME NEW v \in Workers, Same(v)
  PROVE  /\ Draft(v)' = Draft(v)
         /\ HoldsReservation(v)' <=> HoldsReservation(v)
         /\ SeatsActive(v)' <=> SeatsActive(v)
BY SameDraft DEF Same, HoldsReservation, SeatsActive

\* A request is safe from a step that leaves it alone, takes no seat it was
\* promised and closes no seat it counts on.
LEMMA KeepsWorker ==
  ASSUME NEW v \in Workers, WorkerInv(v), Same(v),
         lock = v => lock' = v,
         lock = v /\ Cardinality(seated) < limit => Cardinality(seated') < limit',
         SeatsActive(v) /\ req[v].who \in seated => req[v].who \in seated',
         pc[v] = "admitting" /\ (req[v].who \in seated \/ ~users[req[v].who].active) =>
             req[v].who \in seated' \/ ~users'[req[v].who].active,
         \A p \in People : joined[p].live => joined'[p].live
  PROVE  WorkerInv(v)'
<1> USE SameStanding DEF WorkerInv
<1>1. Asked(v)'
  BY DEF Asked, Same
<1>2. UnderLock(v)'
  BY DEF UnderLock
<1>3. SeatOpFits(v)'
  BY DEF SeatOpFits, Same
<1>4. SeatStays(v)'
  BY DEF SeatStays, Same
<1>5. Promised(v)'
  BY DEF Promised, UnderLock
<1>6. QED
  BY <1>1, <1>2, <1>3, <1>4, <1>5

LEMMA DraftType ==
  ASSUME TypeOK, NEW w \in Workers
  PROVE  Draft(w) \in User
<1>1. copy[w] \in User /\ req[w].change \in Bodies
  BY DEF TypeOK, Requests
<1>2. QED
  BY <1>1 DEF Draft, User, Bodies

\* Leaving, as seen from the outside.
LEMMA LeaveFrame ==
  ASSUME TypeOK, NEW w \in Workers, Leave(w)
  PROVE  /\ pc'[w] = "idle" /\ seatOp'[w] = "keep"
         /\ \A v \in Workers \ {w} : Same(v) /\ (lock = v => lock' = v)
         /\ pc' \in [Workers -> PCs]
         /\ req' \in [Workers -> Requests]
         /\ copy' \in [Workers -> User]
         /\ seatOp' \in [Workers -> {"open", "close", "keep"}]
         /\ lock' \in Workers \cup {NoWorker}
         /\ RowsExclusive => RowsExclusive'
<1> USE DEF Leave, Goto, TypeOK
<1>1. NoRequest \in Requests /\ NoUser \in User
  BY DEF NoRequest, Nothing, Requests, Bodies, NoUser, User
<1>2. /\ pc'[w] = "idle" /\ seatOp'[w] = "keep"
      /\ \A v \in Workers \ {w} : Same(v) /\ (lock = v => lock' = v)
  BY DEF Same
<1>3. /\ pc' \in [Workers -> PCs]
      /\ seatOp' \in [Workers -> {"open", "close", "keep"}]
      /\ lock' \in Workers \cup {NoWorker}
  BY DEF PCs
<1>4. req' \in [Workers -> Requests] /\ copy' \in [Workers -> User]
  BY <1>1
<1>5. RowsExclusive => RowsExclusive'
  BY <1>2 DEF RowsExclusive, Writes, Same
<1>6. QED
  BY <1>2, <1>3, <1>4, <1>5

\* A refusal, an abort, a crash: nothing is written.
LEMMA RefuseKeeps ==
  ASSUME IInv, NEW w \in Workers, Refuse(w)
  PROVE  IInv'
<1> USE DEF IInv, Refuse, data
<1>1. TypeOK'
  BY LeaveFrame DEF TypeOK
<1>2. WorkerInv(w)'
  BY LeaveFrame DEF WorkerInv, Asked, UnderLock, SeatOpFits, SeatStays, Promised,
                    HoldsReservation, SeatsActive
<1>3. ASSUME NEW v \in Workers \ {w} PROVE WorkerInv(v)'
  BY LeaveFrame, KeepsWorker
<1>4. RowsExclusive'
  BY LeaveFrame
<1>5. ActiveMembersAreSeated' /\ ExactlyOneOwner'
  BY DEF ActiveMembersAreSeated, ExactlyOneOwner
<1>6. QED
  BY <1>1, <1>2, <1>3, <1>4, <1>5


-----------------------------------------------------------------------------
(* One lemma per action.                                                   *)

\* A request that arrives has decided nothing yet.
LEMMA ReceiveKeeps ==
  ASSUME IInv, NEW w \in Workers, NEW r \in Requests, r.who \in People,
         NEW place \in {"loaded", "approving", "transferring"},
         place = "approving" => r.change.role \in Roles,
         place = "transferring" => r.by \in People /\ joined[r.who].live,
         Receive(w, r, place),
         copy' \in [Workers -> User],
         \A v \in Workers \ {w} : copy'[v] = copy[v]
  PROVE  IInv'
<1> USE DEF IInv, Receive, Goto, data
<1>1. TypeOK'
  BY DEF TypeOK, PCs
<1>2. pc'[w] = place /\ req'[w] = r /\ seatOp'[w] = "keep"
  <2>1. seatOp[w] = "keep"
    BY DEF TypeOK, WorkerInv, SeatOpFits, SeatsActive
  <2>2. QED
    BY <2>1 DEF TypeOK
<1>3. \A v \in Workers \ {w} : Same(v)
  BY DEF TypeOK, Same
<1>4. WorkerInv(w)'
  BY <1>2 DEF WorkerInv, Asked, UnderLock, SeatOpFits, SeatStays, Promised,
              HoldsReservation, SeatsActive
<1>5. ASSUME NEW v \in Workers \ {w} PROVE WorkerInv(v)'
  BY <1>3, KeepsWorker
<1>6. RowsExclusive'
  BY <1>2, <1>3 DEF RowsExclusive, Writes, Same
<1>7. ActiveMembersAreSeated' /\ ExactlyOneOwner'
  BY DEF ActiveMembersAreSeated, ExactlyOneOwner
<1>8. QED
  BY <1>1, <1>4, <1>5, <1>6, <1>7

LEMMA AskKeeps ==
  ASSUME IInv, NEW w \in Workers, Ask(w)
  PROVE  IInv'
<1>1. CASE \E a, p \in People, c \in Changes : Load(w, a, p, c)
  <2>1. PICK a \in People, p \in People, c \in Changes : Load(w, a, p, c)
    BY <1>1
  <2> DEFINE r == [kind |-> "patch", by |-> IF a = p THEN p ELSE NoOne,
                   who |-> p, change |-> c]
  <2>2. r \in Requests /\ r.who = p
    BY MemberConstants DEF Requests
  <2>3. /\ copy' \in [Workers -> User]
        /\ \A v \in Workers \ {w} : copy'[v] = copy[v]
    BY <2>1 DEF Load, IInv, TypeOK
  <2>4. Receive(w, r, "loaded")
    BY <2>1 DEF Load
  <2> HIDE DEF r
  <2>5. QED
    BY <2>2, <2>3, <2>4, ReceiveKeeps
<1>2. CASE \E a, p \in People, role \in Roles : Approve(w, a, p, role)
  <2>1. PICK a \in People, p \in People, role \in Roles : Approve(w, a, p, role)
    BY <1>2
  <2> DEFINE r == [kind |-> "admit", by |-> NoOne, who |-> p,
                   change |-> [active |-> "same", role |-> role]]
  <2>2. r \in Requests /\ r.who = p /\ r.change.role = role
    BY DEF Requests, Bodies
  <2>3. /\ copy' \in [Workers -> User]
        /\ \A v \in Workers \ {w} : copy'[v] = copy[v]
    BY <2>1 DEF Approve, IInv, TypeOK
  <2>4. Receive(w, r, "approving")
    BY <2>1 DEF Approve
  <2> HIDE DEF r
  <2>5. QED
    BY <2>2, <2>3, <2>4, ReceiveKeeps
<1>3. CASE \E o, t \in People : LoadTransfer(w, o, t)
  <2>1. PICK o \in People, t \in People : LoadTransfer(w, o, t)
    BY <1>3
  <2> DEFINE r == [kind |-> "transfer", by |-> o, who |-> t, change |-> Nothing]
  <2>2. r \in Requests /\ r.who = t /\ r.by = o
    BY DEF Requests, Bodies, Nothing
  <2>3. /\ copy' \in [Workers -> User]
        /\ \A v \in Workers \ {w} : copy'[v] = copy[v]
        /\ joined[t].live
    BY <2>1 DEF LoadTransfer, IInv, TypeOK
  <2>4. Receive(w, r, "transferring")
    BY <2>1 DEF LoadTransfer
  <2> HIDE DEF r
  <2>5. QED
    BY <2>2, <2>3, <2>4, ReceiveKeeps
<1>4. QED
  BY <1>1, <1>2, <1>3 DEF Ask

\* The steps of a PATCH that write nothing others see.
LEMMA AdvanceKeeps ==
  ASSUME IInv, NEW w \in Workers, Validate(w) \/ Save(w)
  PROVE  IInv'
<1> USE DEF IInv, data
<1>1. /\ UNCHANGED <<data, lock, req, copy, seatOp>>
      /\ pc' = [pc EXCEPT ![w] = pc'[w]]
      /\ \/ pc[w] = "loaded" /\ pc'[w] = "valid"
         \/ pc[w] = "valid" /\ ~Reactivating(w) /\ ~RowTaken(w) /\ pc'[w] = "saved"
         \/ pc[w] = "reserved" /\ ~RowTaken(w) /\ pc'[w] = "saved"
  BY DEF Validate, Save, Goto, TypeOK
<1>2. TypeOK'
  BY <1>1 DEF TypeOK, PCs
<1>3. \A v \in Workers \ {w} : Same(v)
  BY <1>1 DEF TypeOK, Same
<1>4. WorkerInv(w)'
  BY <1>1, SameDraft DEF WorkerInv, Asked, UnderLock, SeatOpFits, SeatStays, Promised,
              HoldsReservation, SeatsActive
<1>5. ASSUME NEW v \in Workers \ {w} PROVE WorkerInv(v)'
  BY <1>1, <1>3, KeepsWorker
<1>6. RowsExclusive'
  BY <1>1, <1>3 DEF RowsExclusive, Writes, RowTaken, Same
<1>7. ActiveMembersAreSeated' /\ ExactlyOneOwner'
  BY <1>1 DEF ActiveMembersAreSeated, ExactlyOneOwner
<1>8. QED
  BY <1>2, <1>4, <1>5, <1>6, <1>7

\* A seat is promised to whoever finds the lock free and a seat left.
LEMMA ReserveAgainKeeps ==
  ASSUME IInv, NEW w \in Workers, ReserveAgain(w), ~Full
  PROVE  IInv'
<1> USE DEF IInv, ReserveAgain, Goto, data
<1>1. TypeOK'
  BY DEF TypeOK, PCs
<1>2. \A v \in Workers \ {w} : Same(v) /\ lock # v
  BY MemberConstants DEF TypeOK, Same
<1>3. Cardinality(seated) \in Nat /\ limit \in Nat
  BY MemberConstants, FS_Subset, FS_CardinalityType DEF TypeOK
<1>4. pc'[w] = "reserved" /\ pc[w] = "valid"
  BY DEF TypeOK
<1>5. WorkerInv(w)'
  BY <1>3, <1>4 DEF WorkerInv, Asked, UnderLock, SeatOpFits, SeatStays, Promised,
              HoldsReservation, SeatsActive, Full
<1>6. ASSUME NEW v \in Workers \ {w} PROVE WorkerInv(v)'
  BY <1>2, KeepsWorker
<1>7. RowsExclusive'
  BY <1>2, <1>4 DEF RowsExclusive, Writes, Same
<1>8. ActiveMembersAreSeated' /\ ExactlyOneOwner'
  BY DEF ActiveMembersAreSeated, ExactlyOneOwner
<1>9. QED
  BY <1>1, <1>5, <1>6, <1>7, <1>8

LEMMA ReserveKeeps ==
  ASSUME IInv, NEW w \in Workers, Reserve(w), ~Full
  PROVE  IInv'
<1> USE DEF IInv, Reserve, Goto, data
<1>1. TypeOK'
  BY DEF TypeOK, PCs
<1>2. \A v \in Workers \ {w} : Same(v) /\ lock # v
  BY MemberConstants DEF TypeOK, Same
<1>3. Cardinality(seated) \in Nat /\ limit \in Nat
  BY MemberConstants, FS_Subset, FS_CardinalityType DEF TypeOK
<1>4. /\ pc'[w] = "admitting" /\ pc[w] = "approving"
      /\ seatOp'[w] = IF req[w].who \in seated THEN "keep" ELSE "open"
  BY DEF TypeOK
<1>5. WorkerInv(w)'
  BY <1>3, <1>4 DEF WorkerInv, Asked, UnderLock, SeatOpFits, SeatStays, Promised,
              HoldsReservation, SeatsActive, Full
<1>6. ASSUME NEW v \in Workers \ {w} PROVE WorkerInv(v)'
  BY <1>2, KeepsWorker
<1>7. RowsExclusive'
  BY <1>2, <1>4 DEF RowsExclusive, Writes, Same
<1>8. ActiveMembersAreSeated' /\ ExactlyOneOwner'
  BY DEF ActiveMembersAreSeated, ExactlyOneOwner
<1>9. QED
  BY <1>1, <1>5, <1>6, <1>7, <1>8

\* The seat is settled: opened or kept under the lock, closed without it.
LEMMA SeatKeeps ==
  ASSUME IInv, NEW w \in Workers, Seat(w)
  PROVE  IInv'
<1> USE DEF IInv, Seat, Goto, data
<1>1. TypeOK'
  BY DEF TypeOK, PCs
<1>2. \A v \in Workers \ {w} : Same(v) /\ (lock = v => lock' = v)
  BY MemberConstants DEF TypeOK, Same
<1>3. /\ pc'[w] = "seated" /\ pc[w] = "saved"
      /\ Draft(w)' = Draft(w) /\ (Reactivating(w)' <=> Reactivating(w))
      /\ IF Draft(w).active
         THEN lock' = w /\ seatOp'[w] = IF req[w].who \in seated THEN "keep" ELSE "open"
         ELSE lock' = lock /\ seatOp'[w] = IF req[w].who \in seated THEN "close" ELSE "keep"
  BY SameDraft DEF TypeOK
<1>4. WorkerInv(w)'
  BY <1>3 DEF WorkerInv, Asked, UnderLock, SeatOpFits, SeatStays, Promised,
              HoldsReservation, SeatsActive
<1>5. ASSUME NEW v \in Workers \ {w} PROVE WorkerInv(v)'
  BY <1>2, KeepsWorker
<1>6. RowsExclusive'
  BY <1>2, <1>3 DEF RowsExclusive, Writes, Same
<1>7. ActiveMembersAreSeated' /\ ExactlyOneOwner'
  BY DEF ActiveMembersAreSeated, ExactlyOneOwner
<1>8. QED
  BY <1>1, <1>4, <1>5, <1>6, <1>7

\* The seats a commit leaves are people's, and no more than there were unless
\* it holds the lock.
LEMMA SeatsAfterFacts ==
  ASSUME IInv, NEW w \in Workers, pc[w] # "idle"
  PROVE  /\ SeatsAfter(w) \subseteq People
         /\ seatOp[w] # "open" => Cardinality(SeatsAfter(w)) =< Cardinality(seated)
         /\ Cardinality(SeatsAfter(w)) \in Nat /\ Cardinality(seated) \in Nat
         /\ seatOp[w] # "close" => seated \subseteq SeatsAfter(w)
         /\ \A p \in People : p # req[w].who => (p \in SeatsAfter(w) <=> p \in seated)
<1>1. SeatsAfter(w) \subseteq People
  BY DEF IInv, WorkerInv, Asked, TypeOK, SeatsAfter
<1>2. IsFiniteSet(seated) /\ IsFiniteSet(SeatsAfter(w))
  BY <1>1, MemberConstants, FS_Subset DEF IInv, TypeOK
<1>3. seatOp[w] # "open" => SeatsAfter(w) \subseteq seated
  BY DEF SeatsAfter
<1>4. seatOp[w] # "open" => Cardinality(SeatsAfter(w)) =< Cardinality(seated)
  BY <1>2, <1>3, FS_Subset
<1>5. QED
  BY <1>1, <1>2, <1>4, FS_CardinalityType DEF SeatsAfter

\* The person's row, the seats and the lock, together.
LEMMA CommitPatchKeeps ==
  ASSUME IInv, NEW w \in Workers, CommitPatch(w)
  PROVE  IInv'
<1> DEFINE p == req[w].who
<1>1. /\ pc[w] = "seated" /\ p \in People /\ Draft(w) \in User
      /\ users' = [users EXCEPT ![p] = Draft(w)]
      /\ seated' = SeatsAfter(w)
      /\ Leave(w)
      /\ UNCHANGED <<joined, limit>>
  BY DraftType DEF CommitPatch, IInv, WorkerInv, Asked
<1>2. TypeOK'
  BY <1>1, LeaveFrame, SeatsAfterFacts DEF IInv, TypeOK
<1>3. WorkerInv(w)'
  BY <1>1, LeaveFrame DEF IInv, WorkerInv, Asked, UnderLock, SeatOpFits, SeatStays, Promised,
                    HoldsReservation, SeatsActive
<1>4. ASSUME NEW v \in Workers \ {w} PROVE WorkerInv(v)'
  <2>1. WorkerInv(v) /\ Same(v) /\ (lock = v => lock' = v)
    BY <1>1, LeaveFrame DEF IInv
  <2>2. lock = v => ~Draft(w).active /\ seatOp[w] # "open"
    BY <1>1 DEF IInv, WorkerInv, UnderLock, SeatOpFits, SeatsActive
  <2>3. lock = v /\ Cardinality(seated) < limit => Cardinality(seated') < limit'
    BY <1>1, <2>2, SeatsAfterFacts DEF IInv, TypeOK
  <2>4. SeatsActive(v) /\ req[v].who \in seated => req[v].who \in seated'
    <3>1. SeatsActive(v) => req[v].who # p
      BY <1>1 DEF IInv, RowsExclusive, Writes, SeatsActive
    <3>2. QED
      BY <1>1, <3>1, SeatsAfterFacts DEF IInv, TypeOK
  <2>5. pc[v] = "admitting" /\ (req[v].who \in seated \/ ~users[req[v].who].active) =>
            req[v].who \in seated' \/ ~users'[req[v].who].active
    <3>1. pc[v] = "admitting" => lock = v /\ req[v].who \in People
      BY <2>1 DEF WorkerInv, UnderLock, HoldsReservation, Asked
    <3>2. CASE pc[v] = "admitting" /\ req[v].who = p
      BY <1>1, <2>2, <3>1, <3>2 DEF IInv, TypeOK
    <3>3. CASE pc[v] = "admitting" /\ req[v].who # p
      BY <1>1, <3>1, <3>3, SeatsAfterFacts DEF IInv, TypeOK
    <3>4. QED
      BY <3>2, <3>3
  <2>6. QED
    BY <1>1, <2>1, <2>3, <2>4, <2>5, KeepsWorker
<1>5. RowsExclusive'
  BY <1>1, LeaveFrame DEF IInv
<1>6. ActiveMembersAreSeated'
  <2>1. Draft(w).active => p \in SeatsAfter(w)
    BY <1>1 DEF IInv, TypeOK, WorkerInv, SeatOpFits, SeatStays, SeatsActive, SeatsAfter
  <2>2. ASSUME NEW q \in People, joined'[q].live, users'[q].active PROVE q \in seated'
    BY <1>1, <2>1, <2>2, SeatsAfterFacts DEF IInv, TypeOK, ActiveMembersAreSeated
  <2>3. QED
    BY <2>2 DEF ActiveMembersAreSeated
<1>7. ExactlyOneOwner'
  BY <1>1 DEF IInv, ExactlyOneOwner
<1>8. QED
  BY <1>2, <1>3, <1>4, <1>5, <1>6, <1>7 DEF IInv

\* Somebody is in, with their seat.
LEMMA CommitAdmissionKeeps ==
  ASSUME IInv, NEW w \in Workers, CommitAdmission(w)
  PROVE  IInv'
<1> DEFINE p == req[w].who
           r == req[w].change.role
<1>1. /\ pc[w] = "admitting" /\ p \in People /\ r \in Roles /\ lock = w
      /\ users' = [users EXCEPT ![p].role = r]
      /\ joined' = [joined EXCEPT ![p] = [@ EXCEPT !.live = TRUE, !.role = r]]
      /\ seated' = SeatsAfter(w)
      /\ Leave(w)
      /\ limit' = limit
  BY DEF CommitAdmission, IInv, WorkerInv, Asked, UnderLock, HoldsReservation
<1> DEFINE person == [users[p] EXCEPT !.role = r]
           member == [joined[p] EXCEPT !.live = TRUE, !.role = r]
<1>2. /\ users' = [users EXCEPT ![p] = person]
      /\ joined' = [joined EXCEPT ![p] = member]
      /\ person \in User /\ person.active = users[p].active
      /\ member \in Membership /\ member.live = TRUE /\ member.owner = joined[p].owner
  <2>1. users[p] \in User /\ joined[p] \in Membership
    BY <1>1 DEF IInv, TypeOK
  <2>2. person \in User /\ person.active = users[p].active
    BY <1>1, <2>1 DEF User
  <2>3. member \in Membership /\ member.live = TRUE /\ member.owner = joined[p].owner
    BY <1>1, <2>1 DEF Membership
  <2>4. QED
    BY <1>1, <2>2, <2>3
<1> HIDE DEF person, member
<1>3. TypeOK'
  BY <1>1, <1>2, LeaveFrame, SeatsAfterFacts DEF IInv, TypeOK
<1>4. WorkerInv(w)'
  BY <1>1, LeaveFrame DEF IInv, WorkerInv, Asked, UnderLock, SeatOpFits, SeatStays, Promised,
                    HoldsReservation, SeatsActive
<1>5. ASSUME NEW v \in Workers \ {w} PROVE WorkerInv(v)'
  <2>1. WorkerInv(v) /\ Same(v) /\ lock # v
    BY <1>1, LeaveFrame DEF IInv
  <2>2. pc[v] # "admitting"
    BY <2>1 DEF WorkerInv, UnderLock, HoldsReservation
  <2>3. seated \subseteq seated'
    BY <1>1, SeatsAfterFacts DEF IInv, WorkerInv, SeatOpFits
  <2>4. \A q \in People : joined[q].live => joined'[q].live
    BY <1>1, <1>2 DEF IInv, TypeOK
  <2>5. QED
    BY <2>1, <2>2, <2>3, <2>4, KeepsWorker
<1>6. RowsExclusive'
  BY <1>1, LeaveFrame DEF IInv
<1>7. ActiveMembersAreSeated'
  <2>1. users[p].active => p \in SeatsAfter(w)
    BY <1>1 DEF IInv, TypeOK, WorkerInv, SeatOpFits, SeatStays, SeatsAfter
  <2>2. ASSUME NEW q \in People, joined'[q].live, users'[q].active PROVE q \in seated'
    BY <1>1, <1>2, <2>1, <2>2, SeatsAfterFacts DEF IInv, TypeOK, ActiveMembersAreSeated
  <2>3. QED
    BY <2>2 DEF ActiveMembersAreSeated
<1>8. ExactlyOneOwner'
  <2>1. \A q \in People : /\ joined'[q].owner <=> joined[q].owner
                          /\ joined[q].live => joined'[q].live
    BY <1>1, <1>2 DEF IInv, TypeOK
  <2>2. PICK first \in People : /\ joined[first].owner /\ joined[first].live
                                /\ \A q \in People : joined[q].owner => q = first
    BY DEF IInv, ExactlyOneOwner
  <2>3. joined'[first].owner /\ joined'[first].live
    BY <2>1, <2>2
  <2>4. \A q \in People : joined'[q].owner => q = first
    BY <2>1, <2>2
  <2>5. QED
    BY <2>3, <2>4 DEF ExactlyOneOwner
<1>9. QED
  BY <1>3, <1>4, <1>5, <1>6, <1>7, <1>8 DEF IInv

\* The organisation changes hands, or the index says no.
LEMMA CommitTransferKeeps ==
  ASSUME IInv, NEW w \in Workers, CommitTransfer(w)
  PROVE  IInv'
<1> DEFINE old == req[w].by
           new == req[w].who
<1>1. CASE \E p \in People \ {old, new} : joined[p].owner
  BY <1>1, RefuseKeeps DEF CommitTransfer
<1>2. CASE \A p \in People \ {old, new} : ~joined[p].owner
  <2> DEFINE giver == [joined[old] EXCEPT !.owner = FALSE]
             taker == [live |-> TRUE, role |-> AdminRole, owner |-> TRUE]
             person == [users[new] EXCEPT !.role = AdminRole]
  <2>1. /\ old \in People /\ new \in People /\ joined[new].live
        /\ pc[w] = "transferring" /\ seatOp[w] = "keep"
    BY DEF CommitTransfer, IInv, TypeOK, WorkerInv, Asked, SeatOpFits, SeatsActive
  <2>2. /\ joined' = [joined EXCEPT ![old].owner = FALSE,
                                    ![new] = [live |-> @.live, role |-> AdminRole, owner |-> TRUE]]
        /\ users' = [users EXCEPT ![new].role = AdminRole]
        /\ Leave(w)
        /\ UNCHANGED <<seated, limit>>
    BY <1>2 DEF CommitTransfer
  <2>3. /\ giver \in Membership /\ giver.owner = FALSE /\ giver.live = joined[old].live
        /\ taker \in Membership /\ taker.owner = TRUE /\ taker.live = TRUE
        /\ person \in User /\ person.active = users[new].active
    <3>1. users[new] \in User /\ joined[old] \in Membership /\ AdminRole \in Roles
      BY <2>1, MemberConstants DEF IInv, TypeOK
    <3>2. giver \in Membership /\ giver.owner = FALSE /\ giver.live = joined[old].live
      BY <3>1 DEF Membership
    <3>3. taker \in Membership /\ taker.owner = TRUE /\ taker.live = TRUE
      BY <3>1 DEF Membership
    <3>4. person \in User /\ person.active = users[new].active
      BY <3>1 DEF User
    <3>5. QED
      BY <3>2, <3>3, <3>4
  <2>4. /\ users' = [users EXCEPT ![new] = person]
        /\ joined' = [q \in People |-> IF q = new THEN taker
                                       ELSE IF q = old THEN giver ELSE joined[q]]
    <3>1. joined[new].live = TRUE
      BY <2>1 DEF IInv, TypeOK, Membership
    <3>2. joined' = [joined EXCEPT ![old] = giver, ![new] = taker]
      BY <2>2, <3>1 DEF IInv, TypeOK
    <3>3. QED
      BY <2>1, <2>2, <3>2 DEF IInv, TypeOK
  <2> HIDE DEF giver, taker, person
  <2>5. TypeOK'
    BY <2>1, <2>2, <2>3, <2>4, LeaveFrame DEF IInv, TypeOK
  <2>6. \A q \in People : /\ joined[q].live => joined'[q].live
                          /\ users'[q].active = users[q].active
                          /\ joined'[q].owner <=> q = new
    BY <1>2, <2>1, <2>3, <2>4 DEF IInv, TypeOK
  <2>7. \A q \in People : joined'[q].live => joined[q].live
    BY <2>1, <2>3, <2>4
  <2>8. WorkerInv(w)'
    BY <2>2, LeaveFrame DEF IInv, WorkerInv, Asked, UnderLock, SeatOpFits, SeatStays, Promised,
                      HoldsReservation, SeatsActive
  <2>9. ASSUME NEW v \in Workers \ {w} PROVE WorkerInv(v)'
    <3>1. WorkerInv(v) /\ Same(v) /\ (lock = v => lock' = v)
      BY <2>2, LeaveFrame DEF IInv
    <3>2. pc[v] = "admitting" => req[v].who \in People
      BY <3>1 DEF WorkerInv, Asked
    <3>3. pc[v] = "admitting" => users'[req[v].who].active = users[req[v].who].active
      BY <2>6, <3>2
    <3>4. QED
      BY <2>2, <2>6, <3>1, <3>3, KeepsWorker
  <2>10. RowsExclusive'
    BY <2>2, LeaveFrame DEF IInv
  <2>11. ActiveMembersAreSeated'
    BY <2>2, <2>6, <2>7 DEF IInv, ActiveMembersAreSeated
  <2>12. ExactlyOneOwner'
    BY <2>1, <2>6 DEF ExactlyOneOwner
  <2>13. QED
    BY <2>5, <2>8, <2>9, <2>10, <2>11, <2>12 DEF IInv
<1>3. QED
  BY <1>1, <1>2

\* A new limit is set when nobody holds the lock, so nobody was promised a
\* seat under the old one.
LEMMA StaffKeeps ==
  ASSUME IInv, Staff
  PROVE  IInv'
<1>1. PICK n \in Limits : SetSeats(n) \/ ChangePlan(n)
  BY DEF Staff
<1>2. /\ lock = NoWorker /\ limit' = n /\ n \in Nat
      /\ UNCHANGED <<users, joined, seated, lock, pc, req, copy, seatOp>>
  BY <1>1, MemberConstants DEF SetSeats, ChangePlan
<1>3. TypeOK'
  BY <1>2 DEF IInv, TypeOK
<1>4. ASSUME NEW v \in Workers PROVE WorkerInv(v)'
  BY <1>2, KeepsWorker, MemberConstants DEF IInv, Same
<1>5. RowsExclusive' /\ ActiveMembersAreSeated' /\ ExactlyOneOwner'
  BY <1>2 DEF IInv, RowsExclusive, Writes, ActiveMembersAreSeated, ExactlyOneOwner
<1>6. QED
  BY <1>3, <1>4, <1>5 DEF IInv

-----------------------------------------------------------------------------
(* The theorems.                                                           *)

\* An organisation starts with its founder: owner, member and seated.
LEMMA Starts == Init => IInv
<1> SUFFICES ASSUME Init PROVE IInv
  OBVIOUS
<1> USE MemberConstants DEF Init
<1>1. TypeOK
  BY DEF TypeOK, User, Membership, PCs, Requests, Bodies, NoRequest, NoUser, Nothing
<1>2. ASSUME NEW w \in Workers PROVE WorkerInv(w)
  BY DEF WorkerInv, Asked, UnderLock, SeatOpFits, SeatStays, Promised,
         HoldsReservation, SeatsActive
<1>3. RowsExclusive /\ ActiveMembersAreSeated /\ ExactlyOneOwner
  BY DEF RowsExclusive, Writes, ActiveMembersAreSeated, ExactlyOneOwner
<1>4. QED
  BY <1>1, <1>2, <1>3 DEF IInv

LEMMA Stutters == IInv /\ UNCHANGED vars => IInv'
<1> SUFFICES ASSUME IInv, UNCHANGED vars PROVE IInv'
  OBVIOUS
<1> USE DEF vars, data
<1>1. TypeOK' /\ RowsExclusive' /\ ActiveMembersAreSeated' /\ ExactlyOneOwner'
  BY DEF IInv, TypeOK, RowsExclusive, Writes, ActiveMembersAreSeated, ExactlyOneOwner
<1>2. ASSUME NEW v \in Workers PROVE WorkerInv(v)'
  BY KeepsWorker DEF IInv, Same
<1>3. QED
  BY <1>1, <1>2 DEF IInv

LEMMA NextKeeps == IInv /\ [Next]_vars => IInv'
<1> SUFFICES ASSUME IInv, Next PROVE IInv'
  BY Stutters
<1>1. ASSUME NEW w \in Workers, Ask(w) PROVE IInv'
  BY <1>1, AskKeeps
<1>2. ASSUME NEW w \in Workers, Step(w) PROVE IInv'
  <2>1. CASE Validate(w) \/ Save(w)
    BY <2>1, AdvanceKeeps
  <2>2. CASE Invalid(w)
    BY <2>2, RefuseKeeps DEF Invalid
  <2>3. CASE ReserveAgain(w)
    BY <2>3, RefuseKeeps, ReserveAgainKeeps DEF ReserveAgain
  <2>4. CASE Seat(w)
    BY <2>4, SeatKeeps
  <2>5. CASE CommitPatch(w)
    BY <2>5, CommitPatchKeeps
  <2>6. CASE Reserve(w)
    BY <2>6, RefuseKeeps, ReserveKeeps DEF Reserve
  <2>7. CASE CommitAdmission(w)
    BY <2>7, CommitAdmissionKeeps
  <2>8. CASE CommitTransfer(w)
    BY <2>8, CommitTransferKeeps
  <2>9. QED
    BY <1>2, <2>1, <2>2, <2>3, <2>4, <2>5, <2>6, <2>7, <2>8 DEF Step
<1>3. ASSUME NEW w \in Workers, Abort(w) \/ Crash(w) PROVE IInv'
  BY <1>3, RefuseKeeps DEF Abort, Crash
<1>4. CASE Staff
  BY <1>4, StaffKeeps
<1>5. QED
  BY <1>1, <1>2, <1>3, <1>4 DEF Next

\* The invariant the four theorems below are read from.
THEOREM Invariant == Spec => []IInv
<1>1. QED
  BY Starts, NextKeeps, PTL DEF Spec

\* Every row and every request in progress is well typed.
THEOREM TypeCorrect == Spec => []TypeOK
<1>1. IInv => TypeOK
  BY DEF IInv
<1>2. QED
  BY <1>1, Invariant, PTL

\* seats.reserve's promise: between the check and the commit, nobody else's
\* admission, return or new limit takes the seat.
THEOREM SeatsArePromisedOnce == Spec => []ReservationHolds
<1>1. IInv => ReservationHolds
  BY DEF IInv, WorkerInv, Promised, ReservationHolds
<1>2. QED
  BY <1>1, Invariant, PTL

\* billing/signals.py and the PATCH keep the seat table true: whoever is in
\* and active holds a seat.
THEOREM MembersAreSeated == Spec => []ActiveMembersAreSeated
<1>1. IInv => ActiveMembersAreSeated
  BY DEF IInv
<1>2. QED
  BY <1>1, Invariant, PTL

\* ownership.transfer neither loses nor doubles the owner.
THEOREM OneOwner == Spec => []ExactlyOneOwner
<1>1. IInv => ExactlyOneOwner
  BY DEF IInv
<1>2. QED
  BY <1>1, Invariant, PTL
-----------------------------------------------------------------------------
(* One request at a time.  What is checked without a lock is then still so *)
(* at the commit.                                                          *)

FitsNow(w) ==
    /\ pc[w] \in {"loaded", "valid", "reserved", "saved", "seated"} =>
          copy[w] = users[req[w].who] /\ joined[req[w].who].live
    /\ pc[w] \in {"valid", "reserved", "saved", "seated"} =>
          ~OwnerRuleBroken(w) /\ ~LockoutRuleBroken(w)
    /\ pc[w] \in {"approving", "admitting"} => ~joined[req[w].who].live
    /\ pc[w] = "transferring" => req[w].kind = "transfer" /\ users[req[w].who].active

TurnInv == AtMostOne /\ SomebodyManagesUsers /\ \A w \in Workers : FitsNow(w)

\* What a step may not do.
RulesKept == SomebodyManagesUsers' /\ OwnerIsLeftAlone /\ OpensWithinLimit

LEMMA TurnStarts == Init => TurnInv
<1> SUFFICES ASSUME Init PROVE TurnInv
  OBVIOUS
<1>1. \A w \in Workers : pc[w] = "idle"
  BY DEF Init
<1>2. IsManager(Founder)
  BY MemberConstants DEF Init, IsManager
<1>3. QED
  BY <1>1, <1>2, MemberConstants DEF TurnInv, AtMostOne, SomebodyManagesUsers, FitsNow

\* Nobody else is at anything, before or after w's step.
LEMMA OthersRest ==
  ASSUME AtMostOne, AtMostOne', NEW w \in Workers, pc[w] # "idle" \/ pc'[w] # "idle",
         \A v \in Workers \ {w} : pc'[v] = pc[v]
  PROVE  \A v \in Workers \ {w} : pc[v] = "idle" /\ pc'[v] = "idle"
BY DEF AtMostOne

\* A step of w that writes no row.
LEMMA QuietTurn ==
  ASSUME TurnInv, AtMostOne', NEW w \in Workers, pc[w] # "idle" \/ pc'[w] # "idle",
         \A v \in Workers \ {w} : pc'[v] = pc[v], UNCHANGED data, FitsNow(w)'
  PROVE  TurnInv' /\ RulesKept
<1>1. users' = users /\ joined' = joined /\ seated' = seated
  BY DEF data
<1>2. SomebodyManagesUsers'
  BY <1>1 DEF TurnInv, SomebodyManagesUsers, IsManager
<1>3. \A v \in Workers \ {w} : pc'[v] = "idle"
  BY OthersRest DEF TurnInv
<1>4. \A v \in Workers : FitsNow(v)'
  BY <1>3 DEF FitsNow
<1>5. OwnerIsLeftAlone /\ OpensWithinLimit
  BY <1>1 DEF OwnerIsLeftAlone, OpensWithinLimit
<1>6. QED
  BY <1>2, <1>4, <1>5 DEF TurnInv, RulesKept

LEMMA RefuseTurn ==
  ASSUME IInv, TurnInv, AtMostOne', NEW w \in Workers, pc[w] # "idle", Refuse(w)
  PROVE  TurnInv' /\ RulesKept
<1>1. /\ pc'[w] = "idle" /\ \A v \in Workers \ {w} : pc'[v] = pc[v]
      /\ UNCHANGED data
  BY LeaveFrame DEF Refuse, IInv, Same
<1>2. FitsNow(w)'
  BY <1>1 DEF FitsNow
<1>3. QED
  BY <1>1, <1>2, QuietTurn

\* A commit of w.
LEMMA CommitTurn ==
  ASSUME IInv, TurnInv, AtMostOne', NEW w \in Workers, pc[w] # "idle", Leave(w),
         SomebodyManagesUsers', OpensWithinLimit,
         req[w].kind \in {"patch", "admit"} /\ req[w].by # req[w].who /\ joined[req[w].who].owner =>
            /\ users[req[w].who].active => users'[req[w].who].active
            /\ users'[req[w].who].role = users[req[w].who].role
  PROVE  TurnInv' /\ RulesKept
<1>1. /\ pc'[w] = "idle" /\ \A v \in Workers \ {w} : pc'[v] = pc[v]
  BY LeaveFrame DEF IInv, Same
<1>2. \A v \in Workers \ {w} : pc'[v] = "idle"
  BY <1>1, OthersRest DEF TurnInv
<1>3. \A v \in Workers : FitsNow(v)'
  BY <1>1, <1>2 DEF FitsNow
<1>4. OwnerIsLeftAlone
  BY <1>1 DEF OwnerIsLeftAlone
<1>5. QED
  BY <1>3, <1>4 DEF TurnInv, RulesKept

\* A request begins with what it reads.
LEMMA AskTurn ==
  ASSUME IInv, TurnInv, AtMostOne', NEW w \in Workers, Ask(w)
  PROVE  TurnInv' /\ RulesKept
<1>1. ASSUME NEW r, NEW place, place # "idle", Receive(w, r, place)
      PROVE  /\ pc'[w] = place /\ req'[w] = r /\ \A v \in Workers \ {w} : pc'[v] = pc[v]
             /\ UNCHANGED data /\ users' = users /\ joined' = joined
  BY <1>1 DEF Receive, Goto, data, IInv, TypeOK
<1>2. ASSUME NEW a \in People, NEW p \in People, NEW c \in Changes, Load(w, a, p, c)
      PROVE  TurnInv' /\ RulesKept
  <2>1. PICK r : /\ r.who = p /\ Receive(w, r, "loaded")
                 /\ joined[p].live /\ copy' = [copy EXCEPT ![w] = users[p]]
    BY <1>2 DEF Load
  <2>2. /\ pc'[w] = "loaded" /\ req'[w] = r /\ \A v \in Workers \ {w} : pc'[v] = pc[v]
        /\ UNCHANGED data /\ users' = users /\ joined' = joined
    BY <1>1, <2>1
  <2>3. copy'[w] = users[p]
    BY <2>1 DEF IInv, TypeOK
  <2>4. FitsNow(w)'
    BY <2>1, <2>2, <2>3 DEF FitsNow
  <2>5. QED
    BY <2>2, <2>4, QuietTurn
<1>3. ASSUME NEW a \in People, NEW p \in People, NEW r \in Roles, Approve(w, a, p, r)
      PROVE  TurnInv' /\ RulesKept
  <2>1. PICK s : s.who = p /\ Receive(w, s, "approving") /\ ~joined[p].live
    BY <1>3 DEF Approve
  <2>2. /\ pc'[w] = "approving" /\ req'[w] = s /\ \A v \in Workers \ {w} : pc'[v] = pc[v]
        /\ UNCHANGED data /\ users' = users /\ joined' = joined
    BY <1>1, <2>1
  <2>3. FitsNow(w)'
    BY <2>1, <2>2 DEF FitsNow
  <2>4. QED
    BY <2>2, <2>3, QuietTurn
<1>4. ASSUME NEW o \in People, NEW t \in People, LoadTransfer(w, o, t)
      PROVE  TurnInv' /\ RulesKept
  <2>1. PICK r : /\ r.who = t /\ r.kind = "transfer" /\ Receive(w, r, "transferring")
                 /\ users[t].active
    BY <1>4 DEF LoadTransfer
  <2>2. /\ pc'[w] = "transferring" /\ req'[w] = r /\ \A v \in Workers \ {w} : pc'[v] = pc[v]
        /\ UNCHANGED data /\ users' = users /\ joined' = joined
    BY <1>1, <2>1
  <2>3. FitsNow(w)'
    BY <2>1, <2>2 DEF FitsNow
  <2>4. QED
    BY <2>2, <2>3, QuietTurn
<1>5. QED
  BY <1>2, <1>3, <1>4 DEF Ask

\* The checks, the locks and the seat on the way to a commit.
LEMMA AdvanceTurn ==
  ASSUME IInv, TurnInv, AtMostOne', NEW w \in Workers,
         Validate(w) \/ Invalid(w) \/ ReserveAgain(w) \/ Save(w) \/ Seat(w) \/ Reserve(w)
  PROVE  TurnInv' /\ RulesKept
<1>1. CASE Refuse(w)
  <2>1. pc[w] # "idle"
    BY DEF Validate, Invalid, ReserveAgain, Save, Seat, Reserve
  <2>2. QED
    BY <1>1, <2>1, RefuseTurn
<1>2. CASE ~Refuse(w)
  <2>1. PICK place \in PCs : Goto(w, place)
    BY <1>2 DEF Validate, Invalid, ReserveAgain, Save, Seat, Reserve, PCs
  <2>2. /\ pc[w] # "idle" /\ UNCHANGED data /\ req' = req /\ copy' = copy
        /\ users' = users /\ joined' = joined
        /\ pc'[w] = place /\ \A v \in Workers \ {w} : pc'[v] = pc[v]
    BY <1>2, <2>1 DEF Validate, Invalid, ReserveAgain, Save, Seat, Reserve, Goto, data, IInv,
                      TypeOK
  <2>3. \/ place \in {"valid", "reserved", "saved", "seated"}
           /\ pc[w] \in {"loaded", "valid", "reserved", "saved", "seated"}
           /\ \/ pc[w] = "loaded" /\ ~OwnerRuleBroken(w) /\ ~LockoutRuleBroken(w)
              \/ pc[w] \in {"valid", "reserved", "saved", "seated"}
        \/ place = "admitting" /\ pc[w] = "approving"
    BY <1>2, <2>2 DEF Validate, Invalid, ReserveAgain, Save, Seat, Reserve, Goto, IInv, TypeOK
  <2>4. /\ OwnerRuleBroken(w)' <=> OwnerRuleBroken(w)
        /\ LockoutRuleBroken(w)' <=> LockoutRuleBroken(w)
    BY <2>2 DEF OwnerRuleBroken, LockoutRuleBroken, Draft, IsManager
  <2>5. FitsNow(w)
    BY DEF TurnInv
  <2>6. FitsNow(w)'
    BY <2>2, <2>3, <2>4, <2>5 DEF FitsNow
  <2>7. QED
    BY <2>2, <2>6, QuietTurn
<1>3. QED
  BY <1>1, <1>2

\* The checks of a PATCH still hold of what it commits.
LEMMA CommitPatchTurn ==
  ASSUME IInv, TurnInv, AtMostOne', NEW w \in Workers, CommitPatch(w)
  PROVE  TurnInv' /\ RulesKept
<1> DEFINE p == req[w].who
<1>1. /\ pc[w] = "seated" /\ p \in People /\ Draft(w) \in User /\ Leave(w)
      /\ users' = [users EXCEPT ![p] = Draft(w)] /\ seated' = SeatsAfter(w)
      /\ joined' = joined /\ limit' = limit
  BY DraftType DEF CommitPatch, IInv, WorkerInv, Asked
<1>2. /\ copy[w] = users[p] /\ joined[p].live
      /\ ~OwnerRuleBroken(w) /\ ~LockoutRuleBroken(w)
  BY <1>1 DEF TurnInv, FitsNow
<1>3. users'[p] = Draft(w) /\ \A q \in People \ {p} : users'[q] = users[q]
  BY <1>1 DEF IInv, TypeOK
<1>4. SomebodyManagesUsers'
  <2>1. CASE Draft(w).active /\ Draft(w).role \in Managing
    BY <1>1, <1>2, <1>3, <2>1 DEF SomebodyManagesUsers, IsManager
  <2>2. CASE \E q \in People \ {p} : IsManager(q)
    BY <1>1, <1>3, <2>2 DEF SomebodyManagesUsers, IsManager
  <2>3. QED
    BY <1>2, <2>1, <2>2 DEF LockoutRuleBroken
<1>5. OpensWithinLimit
  <2>1. CASE seatOp[w] = "open" /\ p \notin seated
    <3>1. Draft(w).active
      BY <1>1, <2>1 DEF IInv, WorkerInv, SeatOpFits, SeatsActive
    <3>2. ~users[p].active
      BY <1>1, <1>2, <2>1 DEF IInv, ActiveMembersAreSeated
    <3>3. Reactivating(w)
      BY <1>2, <3>1, <3>2 DEF Draft, Reactivating
    <3>4. Enforced => Cardinality(seated) < limit
      BY <1>1, <3>3 DEF IInv, WorkerInv, Promised, HoldsReservation
    <3>5. IsFiniteSet(seated) /\ limit \in Nat
      BY MemberConstants, FS_Subset DEF IInv, TypeOK
    <3>6. Cardinality(seated \cup {p}) = Cardinality(seated) + 1 /\ Cardinality(seated) \in Nat
      BY <2>1, <3>5, FS_AddElement, FS_CardinalityType
    <3>7. seated' = seated \cup {p}
      BY <1>1, <2>1 DEF SeatsAfter
    <3>8. QED
      BY <1>1, <3>4, <3>5, <3>6, <3>7 DEF OpensWithinLimit
  <2>2. CASE ~(seatOp[w] = "open" /\ p \notin seated)
    <3>1. seated' \subseteq seated
      BY <1>1, <2>2 DEF SeatsAfter
    <3>2. QED
      BY <3>1 DEF OpensWithinLimit
  <2>3. QED
    BY <2>1, <2>2
<1>6. ASSUME req[w].by # p, joined[p].owner
      PROVE  (users[p].active => users'[p].active) /\ users'[p].role = users[p].role
  <2>1. req[w].change.active \in {"on", "same"} /\ req[w].change.role = "same"
    BY <1>2, <1>6 DEF OwnerRuleBroken, IInv, TypeOK, Requests, Bodies
  <2>2. Draft(w).role = copy[w].role
    BY <2>1 DEF Draft
  <2>3. Draft(w).active = IF req[w].change.active = "same" THEN copy[w].active
                          ELSE req[w].change.active = "on"
    BY DEF Draft
  <2>4. CASE req[w].change.active = "same"
    BY <1>2, <1>3, <2>2, <2>3, <2>4
  <2>5. CASE req[w].change.active = "on"
    BY <1>2, <1>3, <2>2, <2>3, <2>5
  <2>6. QED
    BY <2>1, <2>4, <2>5
<1>7. QED
  BY <1>1, <1>4, <1>5, <1>6, CommitTurn

\* Whoever comes in was not in, so not the owner and no manager.
LEMMA CommitAdmissionTurn ==
  ASSUME IInv, TurnInv, AtMostOne', NEW w \in Workers, CommitAdmission(w)
  PROVE  TurnInv' /\ RulesKept
<1> DEFINE p == req[w].who
<1>1. /\ pc[w] = "admitting" /\ p \in People /\ Leave(w)
      /\ \A q \in People \ {p} : users'[q] = users[q] /\ joined'[q] = joined[q]
      /\ seated' = SeatsAfter(w) /\ limit' = limit
  BY DEF CommitAdmission, IInv, TypeOK, WorkerInv, Asked
<1>2. ~joined[p].live /\ ~joined[p].owner
  BY <1>1 DEF TurnInv, FitsNow, IInv, ExactlyOneOwner
<1>3. SomebodyManagesUsers'
  <2>1. PICK q \in People : IsManager(q)
    BY DEF TurnInv, SomebodyManagesUsers
  <2>2. q # p
    BY <1>2, <2>1 DEF IsManager
  <2>3. QED
    BY <1>1, <2>1, <2>2 DEF SomebodyManagesUsers, IsManager
<1>4. OpensWithinLimit
  <2>1. Enforced => Cardinality(seated) < limit
    BY <1>1 DEF IInv, WorkerInv, Promised, HoldsReservation
  <2>2. IsFiniteSet(seated) /\ limit \in Nat
    BY MemberConstants, FS_Subset DEF IInv, TypeOK
  <2>3. CASE seatOp[w] = "open"
    <3>1. seated' = seated \cup {p}
      BY <1>1, <2>3 DEF SeatsAfter
    <3>2. Cardinality(seated \cup {p}) <= Cardinality(seated) + 1 /\ Cardinality(seated) \in Nat
          /\ Cardinality(seated \cup {p}) \in Nat
      <4>1. Cardinality(seated \cup {p}) =
               IF p \in seated THEN Cardinality(seated) ELSE Cardinality(seated) + 1
        BY <2>2, FS_AddElement
      <4>2. Cardinality(seated) \in Nat
        BY <2>2, FS_CardinalityType
      <4>3. QED
        BY <4>1, <4>2
    <3>3. QED
      BY <1>1, <2>1, <2>2, <3>1, <3>2 DEF OpensWithinLimit
  <2>4. CASE seatOp[w] # "open"
    <3>1. seated' \subseteq seated
      BY <1>1, <2>4 DEF SeatsAfter
    <3>2. QED
      BY <3>1 DEF OpensWithinLimit
  <2>5. QED
    BY <2>3, <2>4
<1>5. QED
  BY <1>1, <1>2, <1>3, <1>4, CommitTurn

\* The new owner is in, active, and has the built-in role.
LEMMA CommitTransferTurn ==
  ASSUME IInv, TurnInv, AtMostOne', NEW w \in Workers, CommitTransfer(w)
  PROVE  TurnInv' /\ RulesKept
<1> DEFINE o == req[w].by
           t == req[w].who
<1>1. pc[w] = "transferring" /\ t \in People /\ o \in People /\ joined[t].live
  BY DEF CommitTransfer, IInv, WorkerInv, Asked
<1>2. req[w].kind = "transfer" /\ users[t].active
  BY <1>1 DEF TurnInv, FitsNow
<1>3. CASE Refuse(w)
  BY <1>1, <1>3, RefuseTurn
<1>4. CASE /\ joined' = [joined EXCEPT ![o].owner = FALSE,
                                       ![t] = [live |-> @.live, role |-> AdminRole, owner |-> TRUE]]
           /\ users' = [users EXCEPT ![t].role = AdminRole]
           /\ Leave(w)
           /\ UNCHANGED <<seated, limit>>
  <2>1. users[t] \in User /\ joined[t] \in Membership
    BY <1>1 DEF IInv, TypeOK
  <2>2. users'[t].active /\ users'[t].role = AdminRole
    BY <1>1, <1>2, <1>4, <2>1 DEF IInv, TypeOK, User
  <2>3. joined'[t].live
    BY <1>1, <1>4, <2>1 DEF IInv, TypeOK, Membership
  <2>4. SomebodyManagesUsers'
    BY <1>1, <2>2, <2>3, MemberConstants DEF SomebodyManagesUsers, IsManager
  <2>5. OpensWithinLimit
    BY <1>4 DEF OpensWithinLimit
  <2>6. QED
    BY <1>1, <1>2, <1>4, <2>4, <2>5, CommitTurn
<1>5. QED
  BY <1>3, <1>4 DEF CommitTransfer

LEMMA TurnsGoOn ==
  ASSUME IInv, TurnInv, Next, AtMostOne'
  PROVE  TurnInv' /\ RulesKept
<1>1. ASSUME NEW w \in Workers, Ask(w) \/ Step(w) PROVE TurnInv' /\ RulesKept
  BY <1>1, AskTurn, AdvanceTurn, CommitPatchTurn, CommitAdmissionTurn, CommitTransferTurn
     DEF Step
<1>2. ASSUME NEW w \in Workers, Abort(w) \/ Crash(w) PROVE TurnInv' /\ RulesKept
  <2>1. pc[w] # "idle" /\ Refuse(w)
    BY <1>2 DEF Abort, Crash, Deadlocked
  <2>2. QED
    BY <2>1, RefuseTurn
<1>3. CASE Staff
  <2>1. UNCHANGED <<users, joined, seated, pc, req, copy>>
    BY <1>3 DEF Staff, SetSeats, ChangePlan
  <2>2. SomebodyManagesUsers' /\ OwnerIsLeftAlone /\ OpensWithinLimit
    BY <2>1 DEF TurnInv, SomebodyManagesUsers, IsManager, OwnerIsLeftAlone, OpensWithinLimit
  <2>3. \A w \in Workers : FitsNow(w)'
    BY <2>1 DEF TurnInv, FitsNow, OwnerRuleBroken, LockoutRuleBroken, Draft, IsManager
  <2>4. QED
    BY <2>2, <2>3 DEF TurnInv, RulesKept
<1>4. QED
  BY <1>1, <1>2, <1>3 DEF Next

\* While requests come one at a time somebody can always manage users, nobody
\* else's request touches the owner's standing or role, and seats are opened
\* within the limit, over any sequence of requests, crashes and new limits.
THEOREM RulesHoldInTurn == ModeSpec => SerialRulesHold
<1> DEFINE Turns == mode = "standing" => TurnInv
           Kept == mode = "standing" => RulesKept
<1>1. ModeSpec => Spec
  <2>1. ModeInit => Init
    BY DEF ModeInit
  <2>2. [ModeNext]_<<vars, mode>> => [Next]_vars
    BY DEF ModeNext
  <2>3. QED
    BY <2>1, <2>2, PTL DEF ModeSpec, Spec
<1>2. ModeInit => Turns
  BY TurnStarts DEF ModeInit
<1>3. IInv /\ Turns /\ [ModeNext]_<<vars, mode>> => Turns' /\ [Kept]_vars
  <2>1. CASE UNCHANGED <<vars, mode>>
    <3>1. TurnInv => TurnInv'
      BY <2>1 DEF vars, data, TurnInv, AtMostOne, SomebodyManagesUsers, IsManager, FitsNow,
                  OwnerRuleBroken, LockoutRuleBroken, Draft
    <3>2. QED
      BY <2>1, <3>1
  <2>2. ASSUME IInv, Turns, ModeNext PROVE Turns' /\ Kept
    <3>1. mode' = mode /\ (mode = "standing" => Next /\ AtMostOne')
      BY <2>2 DEF ModeNext
    <3>2. QED
      BY <2>2, <3>1, TurnsGoOn
  <2>3. QED
    BY <2>1, <2>2
<1>4. Kept => (mode = "standing" => SomebodyManagesUsers' /\ OwnerIsLeftAlone /\ OpensWithinLimit)
  BY DEF RulesKept
<1>5. QED
  BY <1>1, <1>2, <1>3, <1>4, Invariant, PTL DEF ModeSpec, SerialRulesHold
=============================================================================
