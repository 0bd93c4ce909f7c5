----------------------------- MODULE Onboarding -----------------------------
(***************************************************************************)
(* How the holder of ONE address gets into an organisation: they sign in   *)
(* through a provider (identity/login.py), and wait on an access request   *)
(* or accept an invitation, which administrators decide, send and cancel   *)
(* (identity/onboarding.py, identity/admin_views.py).                      *)
(*                                                                         *)
(* A decision loads its row, looks at its status, and writes later without *)
(* looking again; only the refresh of a lapsed invitation holds the row's  *)
(* lock. Seats are the business of Members: here a grant may be refused.   *)
(***************************************************************************)
EXTENDS Integers, Sequences, FiniteSets, FiniteSetsExt

CONSTANTS
    Orgs, NoOrg,
    Handlers,
    MaxRequests,        \* bound: access requests ever made
    MaxInvitations      \* bound: invitations ever sent

ASSUME OnboardingConstants == /\ NoOrg \notin Orgs
                              /\ MaxRequests \in Nat /\ MaxInvitations \in Nat

VARIABLES
    column,         \* User.organisation, NoOrg for a user without one or no user
    member,         \* the organisations with a live membership
    requests,       \* AccessRequest rows, oldest first
    invitations,    \* Invitation rows, oldest first
    home,           \* the organisation the address's domain leads to
    told,           \* where the person was told their request is waiting
    stage, matter         \* per worker: where its request is, and what it is about

rows == <<column, member, requests, invitations>>
onboardingVars == <<rows, home, told, stage, matter>>

Request == [org : Orgs, status : {"pending", "approved", "rejected", "cancelled"}]
Invitation == [org : Orgs, status : {"pending", "accepted", "cancelled"}, lapsed : BOOLEAN]

Stages == {"idle", "accepting", "waiting", "asking", "approving", "rejecting",
           "inviting", "creating", "refreshing", "cancelling"}

NoMatter == [org |-> NoOrg, row |-> 0]

OnboardingInit == /\ column = NoOrg /\ member = {}
                  /\ requests = <<>> /\ invitations = <<>>
                  /\ home = NoOrg
                  /\ told = {}
                  /\ stage = [w \in Handlers |-> "idle"]
                  /\ matter = [w \in Handlers |-> NoMatter]

Takes(w, place, o, i) == /\ stage[w] = "idle"
                         /\ stage' = [stage EXCEPT ![w] = place]
                         /\ matter' = [matter EXCEPT ![w] = [org |-> o, row |-> i]]
                         /\ UNCHANGED <<rows, home, told>>

Settles(w) == /\ stage' = [stage EXCEPT ![w] = "idle"]
              /\ matter' = [matter EXCEPT ![w] = NoMatter]

\* An invitation somebody will accept now (Invitation.is_open).
IsOpen(i) == invitations[i].status = "pending" /\ ~invitations[i].lapsed

PendingAt(list, o) == {i \in DOMAIN list : list[i].org = o /\ list[i].status = "pending"}

\* The row lock of the invitation that is being refreshed.
Held(i) == \E v \in Handlers : stage[v] = "refreshing" /\ matter[v].row = i

Decided(list, i, status) == [list EXCEPT ![i].status = status]

-----------------------------------------------------------------------------
(* Signing in. All of login.complete is one transaction.                   *)

\* Mutant: a domain that leads nowhere is asked for all the same.
SignInAnywhere(w) ==
    /\ member = {}
    /\ LET open == {i \in DOMAIN invitations : IsOpen(i)}
       IN  \/ /\ open # {}
              /\ Takes(w, "accepting", invitations[Min(open)].org, Min(open))
           \/ open = {} /\ Takes(w, "waiting", home, 0)

\* A person without a membership: their earliest open invitation, else the
\* organisation their domain leads to.
SignIn(w) ==
    /\ member = {}
    /\ LET open == {i \in DOMAIN invitations : IsOpen(i)}
       IN  \/ /\ open # {}
              /\ Takes(w, "accepting", invitations[Min(open)].org, Min(open))
           \/ /\ open = {} /\ home # NoOrg
              /\ Takes(w, "waiting", home, 0)

\* Whatever the person asked for while waiting is moot.
Mooted == [i \in DOMAIN requests |->
              IF requests[i].status = "pending" THEN [requests[i] EXCEPT !.status = "cancelled"]
              ELSE requests[i]]

\* accept_invitation: the membership, the column, the invitation and the
\* person's own requests, in one transaction.
Accept(w) == /\ stage[w] = "accepting"
             /\ ~Held(matter[w].row)
             /\ member' = member \cup {matter[w].org}
             /\ column' = matter[w].org
             /\ invitations' = Decided(invitations, matter[w].row, "accepted")
             /\ requests' = Mooted
             /\ Settles(w)
             /\ UNCHANGED <<home, told>>

\* The request is written, the person is told, and the exception that tells
\* them rolls the transaction back, the request with it.
Wait(w) == /\ stage[w] = "waiting"
           /\ told' = told \cup {matter[w].org}
           /\ Settles(w)
           /\ UNCHANGED <<rows, home>>

-----------------------------------------------------------------------------
(* onboarding.request_access in a transaction of its own.                  *)

\* Asked only for somebody who is in nowhere.
AskToJoin(w) == /\ home # NoOrg
                /\ member = {}
                /\ Takes(w, "asking", home, 0)

\* get_or_create, on the index of one open request per person and tenant.
CommitRequest(w) == LET o == matter[w].org
                    IN  /\ stage[w] = "asking"
                        /\ IF PendingAt(requests, o) # {}
                           THEN UNCHANGED requests
                           ELSE /\ Len(requests) < MaxRequests
                                /\ requests' = Append(requests, [org |-> o, status |-> "pending"])
                        /\ Settles(w)
                        /\ UNCHANGED <<column, member, invitations, home, told>>

-----------------------------------------------------------------------------
(* An administrator's decision on an access request.                       *)

\* Mutant: a decided request can be decided again.
LoadDecided(w, i, place) == i \in DOMAIN requests /\ Takes(w, place, requests[i].org, i)

\* The view loads the row and the service looks at its status.
LoadRequest(w, i, place) == /\ i \in DOMAIN requests
                            /\ requests[i].status = "pending"
                            /\ Takes(w, place, requests[i].org, i)

\* approve and _grant_membership: the person is in, and the row approved
\* whatever it says by now.
CommitApprove(w) == /\ stage[w] = "approving"
                    /\ member' = member \cup {matter[w].org}
                    /\ column' = matter[w].org
                    /\ requests' = Decided(requests, matter[w].row, "approved")
                    /\ Settles(w)
                    /\ UNCHANGED <<invitations, home, told>>

CommitReject(w) == /\ stage[w] = "rejecting"
                   /\ requests' = Decided(requests, matter[w].row, "rejected")
                   /\ Settles(w)
                   /\ UNCHANGED <<column, member, invitations, home, told>>

-----------------------------------------------------------------------------
(* Invitations.                                                            *)

\* invite: somebody who is in is not invited.
Invite(w, o) == o \notin member /\ Takes(w, "inviting", o, 0)

\* The pending invitation, selected FOR UPDATE. An open one is sent again.
LookForInvitation(w) ==
    LET pending == PendingAt(invitations, matter[w].org)
    IN  /\ stage[w] = "inviting"
        /\ \A i \in pending : ~Held(i)
        /\ \/ /\ pending = {}
              /\ stage' = [stage EXCEPT ![w] = "creating"]
              /\ UNCHANGED matter
           \/ \E i \in pending : IF IsOpen(i)
                                 THEN Settles(w)
                                 ELSE /\ stage' = [stage EXCEPT ![w] = "refreshing"]
                                      /\ matter' = [matter EXCEPT ![w].row = i]
        /\ UNCHANGED <<rows, home, told>>

\* Mutant: no index keeps a second open invitation out.
CreateUnindexed(w) == /\ stage[w] = "creating"
                      /\ Len(invitations) < MaxInvitations
                      /\ invitations' = Append(invitations, [org |-> matter[w].org, status |-> "pending",
                                                             lapsed |-> FALSE])
                      /\ Settles(w)
                      /\ UNCHANGED <<column, member, requests, home, told>>

\* Nothing was there to lock: the index of one open invitation per address
\* and tenant fails the second of two creations.
CreateInvitation(w) == /\ stage[w] = "creating"
                       /\ IF PendingAt(invitations, matter[w].org) # {}
                          THEN UNCHANGED invitations
                          ELSE /\ Len(invitations) < MaxInvitations
                               /\ invitations' = Append(invitations,
                                      [org |-> matter[w].org, status |-> "pending", lapsed |-> FALSE])
                       /\ Settles(w)
                       /\ UNCHANGED <<column, member, requests, home, told>>

\* The lapsed row, saved whole with a new date.
Refresh(w) == /\ stage[w] = "refreshing"
              /\ invitations' = [invitations EXCEPT ![matter[w].row] =
                                    [org |-> matter[w].org, status |-> "pending", lapsed |-> FALSE]]
              /\ Settles(w)
              /\ UNCHANGED <<column, member, requests, home, told>>

LoadInvitation(w, i) == /\ i \in DOMAIN invitations
                        /\ invitations[i].status = "pending"
                        /\ Takes(w, "cancelling", invitations[i].org, i)

CommitCancel(w) == /\ stage[w] = "cancelling"
                   /\ ~Held(matter[w].row)
                   /\ invitations' = Decided(invitations, matter[w].row, "cancelled")
                   /\ Settles(w)
                   /\ UNCHANGED <<column, member, requests, home, told>>

-----------------------------------------------------------------------------
(* What happens around it.                                                 *)

\* Seven days pass.
Lapse(i) == /\ i \in DOMAIN invitations
            /\ invitations[i].status = "pending" /\ ~invitations[i].lapsed
            /\ invitations' = [invitations EXCEPT ![i].lapsed = TRUE]
            /\ UNCHANGED <<column, member, requests, home, told, stage, matter>>

\* The domain is claimed, verified or taken over (module Domains).
MoveDomain(o) == /\ home' = o
                 /\ UNCHANGED <<rows, told, stage, matter>>

\* No seat is free, the role is not the reviewer's to give, or a crash: the
\* transaction is rolled back.
GiveUp(w) == /\ stage[w] # "idle"
             /\ Settles(w)
             /\ UNCHANGED <<rows, home, told>>

-----------------------------------------------------------------------------
Person(w) == SignIn(w) \/ Accept(w) \/ Wait(w) \/ AskToJoin(w) \/ CommitRequest(w)

Administrator(w) ==
    \/ \E i \in 1..MaxRequests, place \in {"approving", "rejecting"} : LoadRequest(w, i, place)
    \/ CommitApprove(w) \/ CommitReject(w)
    \/ \E o \in Orgs : Invite(w, o)
    \/ LookForInvitation(w) \/ CreateInvitation(w) \/ Refresh(w)
    \/ \E i \in 1..MaxInvitations : LoadInvitation(w, i)
    \/ CommitCancel(w)

OnboardingNext == \/ \E w \in Handlers : Person(w) \/ Administrator(w) \/ GiveUp(w)
                  \/ \E i \in 1..MaxInvitations : Lapse(i)
                  \/ \E o \in Orgs : MoveDomain(o)

OnboardingSpec == OnboardingInit /\ [][OnboardingNext]_onboardingVars

-----------------------------------------------------------------------------
OnboardingTypeOK == /\ column \in Orgs \cup {NoOrg}
                    /\ member \subseteq Orgs
                    /\ requests \in Seq(Request) /\ Len(requests) <= MaxRequests
                    /\ invitations \in Seq(Invitation) /\ Len(invitations) <= MaxInvitations
                    /\ home \in Orgs \cup {NoOrg}
                    /\ told \subseteq Orgs
                    /\ stage \in [Handlers -> Stages]
                    /\ matter \in [Handlers -> [org : Orgs \cup {NoOrg},
                                                row : 0..(MaxRequests + MaxInvitations)]]

\* Two administrators who invite the same address at once leave one open
\* invitation, and so do two sign-ins who ask (models.py, "inviting twice is
\* a reminder, not a second row").
OneOpenRowPerTenant == \A o \in Orgs : /\ Cardinality(PendingAt(requests, o)) <= 1
                                       /\ Cardinality(PendingAt(invitations, o)) <= 1

\* A row that was decided never waits for a decision again: the refresh of a
\* lapsed invitation does not reopen one that was cancelled or accepted while
\* it was being refreshed (onboarding.invite, select_for_update).
NothingReopens ==
    [][/\ \A i \in DOMAIN requests :
             requests[i].status # "pending" => requests'[i].status # "pending"
       /\ \A i \in DOMAIN invitations :
             invitations[i].status # "pending" => invitations'[i].status # "pending"]_onboardingVars

\* A decided row keeps its decision ("That request has already been decided.",
\* onboarding.py:262; "no longer open", onboarding.py:430).
DecisionsStand ==
    /\ \A i \in DOMAIN requests :
           requests[i].status # "pending" => requests'[i].status = requests[i].status
    /\ \A i \in DOMAIN invitations :
           invitations[i].status # "pending" => invitations'[i].status = invitations[i].status

\* Nobody is in without a decision that lets them in: "Decline a request. The
\* person keeps their account and no membership" (onboarding.py:507).
AdmittedByDecision ==
    \A o \in member : \/ \E i \in DOMAIN requests :
                            requests[i].org = o /\ requests[i].status = "approved"
                      \/ \E i \in DOMAIN invitations :
                            invitations[i].org = o /\ invitations[i].status = "accepted"

\* Whoever is in does not wait to be let in there: a request left pending
\* would be approved later, and re-role them (onboarding._accept_grant, "moot
\* now").
MembersDoNotWait == \A o \in member : PendingAt(requests, o) = {}

\* Who was told "Your request is with an administrator at your organisation"
\* (login.py:195) has a request there, or is in.
WaitingIsRecorded == \A o \in told : \/ \E i \in DOMAIN requests : requests[i].org = o
                                     \/ o \in member
=============================================================================
