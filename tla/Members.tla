------------------------------ MODULE Members ------------------------------
(***************************************************************************)
(* The people of ONE organisation: their seats (billing/seats.py), their   *)
(* standing and role (accounts/views.py, the users endpoints), the         *)
(* membership that mirrors it (identity/onboarding.py) and the owner       *)
(* (identity/ownership.py).                                                *)
(*                                                                         *)
(* A worker serves one request at a time. What a request reads before its  *)
(* transaction it reads without a lock and uses later; inside, it may hold *)
(* the billing account's row lock and the row of the user it is changing,  *)
(* and it may take them in either order.                                   *)
(***************************************************************************)
EXTENDS Integers, FiniteSets

CONSTANTS
    People,         \* everybody with a user row, members or not yet
    Founder,        \* the member the organisation starts with
    NoOne,
    Workers, NoWorker,
    Roles, NoRole,
    AdminRole,      \* the built-in role, with manage_users
    Managing,       \* the roles with manage_users
    Changes,        \* the PATCH bodies that are sent
    StartLimit,     \* seats of the trial plan
    Limits,         \* the limits staff and plans may set
    Enforced        \* BILLING_ENFORCED

\* A PATCH of a user: each field is in the body or left out ("same").
Bodies == [active : {"on", "off", "same"}, role : Roles \cup {"same"}]

ASSUME MemberConstants ==
    /\ IsFiniteSet(People)
    /\ Founder \in People /\ NoOne \notin People
    /\ NoWorker \notin Workers
    /\ NoRole \notin Roles /\ "same" \notin Roles
    /\ AdminRole \in Managing /\ Managing \subseteq Roles
    /\ Changes \subseteq Bodies
    /\ StartLimit \in Nat \ {0}
    /\ Limits \subseteq Nat
    /\ Enforced \in BOOLEAN

VARIABLES
    users,      \* User rows: is_active and role
    joined,     \* OrganizationMembership rows: live, role, is_owner
    seated,     \* who has an open SeatAssignment
    limit,      \* BillingAccount.seats_limit
    lock,       \* who holds the account row's lock
    pc,         \* where each worker's request is
    req,        \* the request
    copy,       \* the user row the request loaded
    seatOp      \* what the transaction did to the person's seat

data == <<users, joined, seated, limit>>
vars == <<data, lock, pc, req, copy, seatOp>>

User == [active : BOOLEAN, role : Roles \cup {NoRole}]
Membership == [live : BOOLEAN, role : Roles \cup {NoRole}, owner : BOOLEAN]

\* "by" is the caller as far as the code asks who that is: the person
\* themselves (or the old owner, of a transfer), or somebody else.
Requests == [kind : {"none", "patch", "admit", "transfer"}, by : People \cup {NoOne},
             who : People \cup {NoOne}, change : Bodies]

PCs == {"idle", "loaded", "valid", "reserved", "saved", "seated",
        "approving", "admitting", "transferring"}

Nothing == [active |-> "same", role |-> "same"]
NoRequest == [kind |-> "none", by |-> NoOne, who |-> NoOne, change |-> Nothing]
NoUser == [active |-> FALSE, role |-> NoRole]

Init == /\ users = [p \in People |->
                       [active |-> TRUE, role |-> IF p = Founder THEN AdminRole ELSE NoRole]]
        /\ joined = [p \in People |->
                       [live |-> p = Founder, owner |-> p = Founder,
                        role |-> IF p = Founder THEN AdminRole ELSE NoRole]]
        /\ seated = {Founder}
        /\ limit = StartLimit
        /\ lock = NoWorker
        /\ pc = [w \in Workers |-> "idle"]
        /\ req = [w \in Workers |-> NoRequest]
        /\ copy = [w \in Workers |-> NoUser]
        /\ seatOp = [w \in Workers |-> "keep"]

\* has_capability(manage_users), of somebody who can still sign in.
IsManager(p) == users[p].active /\ joined[p].live /\ users[p].role \in Managing

\* used(account) >= seats_limit, when the check is on.
Full == Enforced /\ Cardinality(seated) >= limit

\* The row the serializer saves: the loaded copy, with the body on top.
Draft(w) == [active |-> IF req[w].change.active = "same" THEN copy[w].active
                        ELSE req[w].change.active = "on",
             role |-> IF req[w].change.role = "same" THEN copy[w].role
                      ELSE req[w].change.role]

Reactivating(w) == ~copy[w].active /\ req[w].change.active = "on"

\* The user rows an unfinished transaction has written.
RowTaken(w) == \E v \in Workers \ {w} : pc[v] \in {"saved", "seated"} /\ req[v].who = req[w].who

Goto(w, place) == pc' = [pc EXCEPT ![w] = place]

\* Mutant: the transaction ends and its lock stays.
LeaveLocked(w) == /\ Goto(w, "idle")
                  /\ req' = [req EXCEPT ![w] = NoRequest]
                  /\ copy' = [copy EXCEPT ![w] = NoUser]
                  /\ seatOp' = [seatOp EXCEPT ![w] = "keep"]
                  /\ UNCHANGED lock

\* The request is over, and with it its transaction.
Leave(w) == /\ Goto(w, "idle")
            /\ req' = [req EXCEPT ![w] = NoRequest]
            /\ copy' = [copy EXCEPT ![w] = NoUser]
            /\ seatOp' = [seatOp EXCEPT ![w] = "keep"]
            /\ lock' = IF lock = w THEN NoWorker ELSE lock

Refuse(w) == Leave(w) /\ UNCHANGED data

Receive(w, r, place) == /\ pc[w] = "idle"
                        /\ req' = [req EXCEPT ![w] = r]
                        /\ Goto(w, place)
                        /\ UNCHANGED <<data, lock, seatOp>>

-----------------------------------------------------------------------------
(* PATCH /api/v1/auth/users/<id>/                                          *)

\* The caller holds manage_users; the row is loaded before any lock.
Load(w, a, p, c) ==
    /\ IsManager(a)
    /\ joined[p].live
    /\ Receive(w, [kind |-> "patch", by |-> IF a = p THEN p ELSE NoOne,
                   who |-> p, change |-> c], "loaded")
    /\ copy' = [copy EXCEPT ![w] = users[p]]

\* Mutant: the owner cannot be re-roled, and can be deactivated.
OwnerRuleForRoles(w) == /\ req[w].change.role # "same"
                        /\ req[w].by # req[w].who
                        /\ joined[req[w].who].owner

\* EditOrgUserSerializer.validate: the owner's standing is theirs, and
\* somebody else must be left to manage users.
OwnerRuleBroken(w) == /\ req[w].change.role # "same" \/ req[w].change.active = "off"
                      /\ req[w].by # req[w].who
                      /\ joined[req[w].who].owner

LockoutRuleBroken(w) == /\ ~(Draft(w).active /\ Draft(w).role \in Managing)
                        /\ \A p \in People \ {req[w].who} : ~IsManager(p)

Validate(w) == /\ pc[w] = "loaded"
               /\ ~OwnerRuleBroken(w)
               /\ ~LockoutRuleBroken(w)
               /\ Goto(w, "valid")
               /\ UNCHANGED <<data, lock, req, copy, seatOp>>

Invalid(w) == /\ pc[w] = "loaded"
              /\ OwnerRuleBroken(w) \/ LockoutRuleBroken(w)
              /\ Refuse(w)

\* seats.reserve: coming back takes a seat like arriving does.
ReserveAgain(w) == /\ pc[w] = "valid"
                   /\ Reactivating(w)
                   /\ lock = NoWorker
                   /\ IF Full
                      THEN Refuse(w)
                      ELSE /\ lock' = w
                           /\ Goto(w, "reserved")
                           /\ UNCHANGED <<data, req, copy, seatOp>>

\* serializer.save() writes every column and holds the user row from here.
Save(w) == /\ \/ pc[w] = "valid" /\ ~Reactivating(w)
              \/ pc[w] = "reserved"
           /\ ~RowTaken(w)
           /\ Goto(w, "saved")
           /\ UNCHANGED <<data, lock, req, copy, seatOp>>

\* Mutant: only a member who comes back is given a seat.
SeatReactivated(w) == /\ pc[w] = "saved"
                      /\ IF Draft(w).active
                         THEN /\ lock \in {w, NoWorker}
                              /\ lock' = w
                              /\ seatOp' = [seatOp EXCEPT ![w] =
                                              IF Reactivating(w) THEN "open" ELSE "keep"]
                         ELSE /\ seatOp' = [seatOp EXCEPT ![w] =
                                              IF req[w].who \in seated THEN "close" ELSE "keep"]
                              /\ UNCHANGED lock
                      /\ Goto(w, "seated")
                      /\ UNCHANGED <<data, req, copy>>

\* An active member gets a seat, unchecked (enforce=False) but under the
\* account lock; an inactive one's seat is closed, under no lock.
Seat(w) == /\ pc[w] = "saved"
           /\ IF Draft(w).active
              THEN /\ lock \in {w, NoWorker}
                   /\ lock' = w
                   /\ seatOp' = [seatOp EXCEPT ![w] =
                                   IF req[w].who \in seated THEN "keep" ELSE "open"]
              ELSE /\ seatOp' = [seatOp EXCEPT ![w] =
                                   IF req[w].who \in seated THEN "close" ELSE "keep"]
                   /\ UNCHANGED lock
           /\ Goto(w, "seated")
           /\ UNCHANGED <<data, req, copy>>

\* The open seats once the worker's transaction is in.
SeatsAfter(w) == CASE seatOp[w] = "open"  -> seated \cup {req[w].who}
                   [] seatOp[w] = "close" -> seated \ {req[w].who}
                   [] OTHER               -> seated

CommitPatch(w) == /\ pc[w] = "seated"
                  /\ users' = [users EXCEPT ![req[w].who] = Draft(w)]
                  /\ seated' = SeatsAfter(w)
                  /\ Leave(w)
                  /\ UNCHANGED <<joined, limit>>

-----------------------------------------------------------------------------
(* Admission: approve, accept_invitation and the users endpoint's POST.    *)

\* Nobody is asked in who is in already, as far as an unlocked read tells.
Approve(w, a, p, r) ==
    /\ IsManager(a)
    /\ ~joined[p].live
    /\ Receive(w, [kind |-> "admit", by |-> NoOne, who |-> p,
                   change |-> [active |-> "same", role |-> r]], "approving")
    /\ UNCHANGED copy

\* Mutant: the seats are counted without the account's lock.
ReserveUnlocked(w) == /\ pc[w] = "approving"
                      /\ IF Full
                         THEN Refuse(w)
                         ELSE /\ seatOp' = [seatOp EXCEPT ![w] =
                                               IF req[w].who \in seated THEN "keep" ELSE "open"]
                              /\ Goto(w, "admitting")
                              /\ UNCHANGED <<data, lock, req, copy>>

\* seats.reserve, then the membership, whose signal opens the seat.
Reserve(w) == /\ pc[w] = "approving"
              /\ lock = NoWorker
              /\ IF Full
                 THEN Refuse(w)
                 ELSE /\ lock' = w
                      /\ seatOp' = [seatOp EXCEPT ![w] =
                                      IF req[w].who \in seated THEN "keep" ELSE "open"]
                      /\ Goto(w, "admitting")
                      /\ UNCHANGED <<data, req, copy>>

\* The user row's columns come last, then the commit.
CommitAdmission(w) ==
    LET p == req[w].who
        r == req[w].change.role
    IN  /\ pc[w] = "admitting"
        /\ ~RowTaken(w)
        /\ users' = [users EXCEPT ![p].role = r]
        /\ joined' = [joined EXCEPT ![p] = [@ EXCEPT !.live = TRUE, !.role = r]]
        /\ seated' = SeatsAfter(w)
        /\ Leave(w)
        /\ UNCHANGED limit

-----------------------------------------------------------------------------
(* Ownership, and what staff set on the account.                           *)

\* ownership.transfer reads the owner and the target without a lock.
LoadTransfer(w, o, t) ==
    /\ joined[o].owner
    /\ o # t
    /\ joined[t].live /\ users[t].active
    /\ Receive(w, [kind |-> "transfer", by |-> o, who |-> t, change |-> Nothing], "transferring")
    /\ UNCHANGED copy

\* Mutant: nothing stops a second transfer that read the same owner.
CommitTransferTwice(w) ==
    LET o == req[w].by
        t == req[w].who
    IN  /\ pc[w] = "transferring"
        /\ ~RowTaken(w)
        /\ joined' = [joined EXCEPT ![o].owner = FALSE,
                                    ![t] = [live |-> @.live, role |-> AdminRole, owner |-> TRUE]]
        /\ users' = [users EXCEPT ![t].role = AdminRole]
        /\ Leave(w)
        /\ UNCHANGED <<seated, limit>>

\* One owner per organisation is a unique index: a second transfer that read
\* the same owner fails on it.
CommitTransfer(w) ==
    LET o == req[w].by
        t == req[w].who
    IN  /\ pc[w] = "transferring"
        /\ ~RowTaken(w)
        /\ IF \E p \in People \ {o, t} : joined[p].owner
           THEN Refuse(w)
           ELSE /\ joined' = [joined EXCEPT ![o].owner = FALSE,
                                            ![t] = [live |-> @.live, role |-> AdminRole, owner |-> TRUE]]
                /\ users' = [users EXCEPT ![t].role = AdminRole]
                /\ Leave(w)
                /\ UNCHANGED <<seated, limit>>

\* set_seats cannot go below the seats in use; change_plan can.
SetSeats(n) == /\ lock = NoWorker
               /\ n >= Cardinality(seated)
               /\ limit' = n
               /\ UNCHANGED <<users, joined, seated, lock, pc, req, copy, seatOp>>

ChangePlan(n) == /\ lock = NoWorker
                 /\ limit' = n
                 /\ UNCHANGED <<users, joined, seated, lock, pc, req, copy, seatOp>>

-----------------------------------------------------------------------------
(* Failures.                                                               *)

\* w holds the account and wants the user row, v holds the row and wants the
\* account: Postgres picks one of the two and aborts it.
Deadlocked(w, v) == /\ lock = w
                    /\ pc[w] \in {"reserved", "admitting"}
                    /\ pc[v] = "saved" /\ Draft(v).active
                    /\ w # v
                    /\ req[v].who = req[w].who

Abort(w) == /\ \E v \in Workers : Deadlocked(w, v) \/ Deadlocked(v, w)
            /\ Refuse(w)

Crash(w) == pc[w] # "idle" /\ Refuse(w)

-----------------------------------------------------------------------------
Ask(w) == \/ \E a, p \in People, c \in Changes : Load(w, a, p, c)
          \/ \E a, p \in People, r \in Roles : Approve(w, a, p, r)
          \/ \E o, t \in People : LoadTransfer(w, o, t)

Step(w) == \/ Validate(w) \/ Invalid(w) \/ ReserveAgain(w) \/ Save(w) \/ Seat(w)
           \/ CommitPatch(w) \/ Reserve(w) \/ CommitAdmission(w) \/ CommitTransfer(w)

Staff == \E n \in Limits : SetSeats(n) \/ ChangePlan(n)

Next == \/ \E w \in Workers : Ask(w) \/ Step(w) \/ Abort(w) \/ Crash(w)
        \/ Staff

\* A row lock goes to its waiters in turn, a running statement returns, and
\* the deadlock detector wakes up.
Fairness == \A w \in Workers : SF_vars(Step(w)) /\ WF_vars(Abort(w))

Spec == Init /\ [][Next]_vars
FairSpec == Spec /\ Fairness

-----------------------------------------------------------------------------
TypeOK == /\ users \in [People -> User]
          /\ joined \in [People -> Membership]
          /\ seated \in SUBSET People
          /\ limit \in Nat
          /\ lock \in Workers \cup {NoWorker}
          /\ pc \in [Workers -> PCs]
          /\ req \in [Workers -> Requests]
          /\ copy \in [Workers -> User]
          /\ seatOp \in [Workers -> {"open", "close", "keep"}]

\* Past the seat check and not yet committed.
HoldsReservation(w) == \/ pc[w] = "admitting"
                       \/ pc[w] \in {"reserved", "saved", "seated"} /\ Reactivating(w)

\* The seat a worker was promised is still free when it commits, whatever
\* others admit, reactivate or set in the meantime (seats.py:3-7, "two
\* concurrent approvals for the last seat serialise on the lock"); so no
\* checked admission ever takes the count past the limit.
ReservationHolds ==
    \A w \in Workers : Enforced /\ HoldsReservation(w) => Cardinality(seated) < limit

\* Everybody who is in and active has a seat, through deactivation, return,
\* re-admission and stale saves (signals.py, "keeps the seat table true").
ActiveMembersAreSeated ==
    \A p \in People : joined[p].live /\ users[p].active => p \in seated

\* Exactly one owner, and they are a member (ownership.py; models.py's
\* one-owner index): a transfer never loses or doubles the role.
ExactlyOneOwner ==
    \E o \in People : /\ joined[o].owner /\ joined[o].live
                      /\ \A p \in People : joined[p].owner => p = o

\* Every request ends, also the pair that locks in opposite orders.
EveryRequestEnds == \A w \in Workers : pc[w] # "idle" ~> pc[w] = "idle"

\* "an organisation must always keep at least one active person who can
\* manage users" (serializers.py:585).
SomebodyManagesUsers == \E p \in People : IsManager(p)

\* "Another administrator cannot deactivate or re-role the owner"
\* (API_CONTRACTS.md:217): what somebody else's request commits leaves the
\* owner's standing and role as they were.
OwnerIsLeftAlone ==
    \A w \in Workers :
        LET p == req[w].who
        IN  /\ pc'[w] # pc[w]
            /\ req[w].kind \in {"patch", "admit"} /\ req[w].by # p
            /\ joined[p].owner
            => (users[p].active => users'[p].active) /\ users'[p].role = users[p].role

\* Seats are opened within the limit only: "the last seat can be taken
\* exactly once" (API_CONTRACTS.md:452).
OpensWithinLimit ==
    Enforced /\ seated' # seated /\ seated \subseteq seated' => Cardinality(seated') <= limit
=============================================================================
