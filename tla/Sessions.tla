------------------------------- MODULE Sessions -------------------------------
(***************************************************************************)
(* The shared session of ONE Copilot conversation (copilot/views.py):      *)
(* making it live, inviting, handing off, answering an invitation, closing *)
(* and posting.  A request checks what it needs once, and then writes its  *)
(* rows one after the other, each committed by itself.                     *)
(*                                                                         *)
(* Whoever sees the whole conversation holds a grant along a chain of      *)
(* accepted invitations from the owner and is present.  (Those who are     *)
(* only mentioned see a slice of it and change nothing: left out.)         *)
(***************************************************************************)
EXTENDS Integers, FiniteSets

CONSTANTS
    Viewers,        \* the members of the organisation who may get to it
    Owner,          \* whose conversation it is
    Nobody,
    Visits          \* the requests there may be at once

ASSUME SessionConstants ==
    IsFiniteSet(Viewers) /\ Owner \in Viewers /\ Nobody \notin Viewers

VARIABLES
    session,        \* CopilotSession.status, or "none" without a session
    invite,         \* per person, their SessionInvite row
    present,        \* who has a SessionParticipant row (nothing in the code marks one left)
    visit,          \* per request: where it is
    late,           \* a message was stored in a closed session (history)
    overlapped      \* two requests were at it at once (history)

sessionVars == <<session, invite, present, visit, late, overlapped>>

NotInvited == [by |-> Nobody, status |-> "none"]
NoRequest == [pc |-> "idle", who |-> Nobody, to |-> Nobody]

SessionInit == /\ session = "none"
               /\ invite = [u \in Viewers |-> NotInvited]
               /\ present = {}
               /\ visit = [r \in Visits |-> NoRequest]
               /\ late = FALSE
               /\ overlapped = FALSE

-----------------------------------------------------------------------------
(* grant_holders                                                            *)

Edges == {u \in Viewers : invite[u].status = "accepted" /\ invite[u].by # u}

\* Mutant: one round, in which only those the owner invited get in.
HoldersInvited == {Owner} \cup {u \in Edges : invite[u].by = Owner}

\* One round of the loop: who was invited by somebody who is in.
Joined(before) == before \cup {u \in Edges : invite[u].by \in before}

\* The fixed point, in as many rounds as there are people.
HoldersAfter[n \in 0..Cardinality(Viewers)] ==
    IF n = 0 THEN {Owner} ELSE Joined(HoldersAfter[n - 1])

Holders == HoldersAfter[Cardinality(Viewers)]

Seeing == {Owner} \cup (present \cap Holders)
SeesWhole(u) == u \in Seeing

\* Whether the invitation, if it is open, could be accepted now.
Grantable(u) == invite[u].by \notin {Nobody, u} /\ SeesWhole(invite[u].by)

-----------------------------------------------------------------------------
(* The requests                                                             *)

Arrives(r, new) ==
    /\ visit[r].pc = "idle"
    /\ visit' = [visit EXCEPT ![r] = new]
    /\ overlapped' = (overlapped \/ \E o \in Visits \ {r} : visit[o].pc # "idle")
Moves(r, place) == visit' = [visit EXCEPT ![r].pc = place] /\ UNCHANGED overlapped
Ends(r) == visit' = [visit EXCEPT ![r] = NoRequest] /\ UNCHANGED overlapped

Checked(r, place, who, to) == Arrives(r, [pc |-> place, who |-> who, to |-> to])
                           /\ UNCHANGED <<session, invite, present, late>>

\* Where one goes on that has found no session, and one that has.
IfNone(make, use) == IF session = "none" THEN make ELSE use

\* Mutants: a closed session is made live; a person hands off to themselves.
MakeLiveAgain(r) == Checked(r, IfNone("live", "open"), Owner, Nobody)
HandoffToAnyone(r, u, t) ==
    session # "closed" /\ Checked(r, IfNone("handoff", "enter"), u, t) /\ SeesWhole(u)

MakeLive(r) == session # "closed" /\ Checked(r, IfNone("live", "open"), Owner, Nobody)
Invite(r, t) == session \notin {"none", "closed"} /\ t # Owner /\ Checked(r, "invite", Owner, t)
Handoff(r, u, t) ==
    /\ session # "closed" /\ t # u
    /\ Checked(r, IfNone("handoff", "enter"), u, t)
    /\ SeesWhole(u)
Close(r) == session # "none" /\ Checked(r, "close", Owner, Nobody)
Accept(r, u) == invite[u].status = "pending" /\ Checked(r, "accept", u, Nobody) /\ Grantable(u)
Decline(r, u) == invite[u].status = "pending" /\ Checked(r, "decline", u, Nobody)
Send(r, u) == session # "closed" /\ Checked(r, "send", u, Nobody) /\ SeesWhole(u)

\* A session is made, to be set live or handed off; one that was made meanwhile is
\* the only one a conversation may have, and ends the request.
OpenSession(r) == /\ visit[r].pc \in {"live", "handoff"}
                  /\ IF session = "none"
                     THEN /\ session' = "private"
                          /\ Moves(r, IF visit[r].pc = "live" THEN "open" ELSE "enter")
                     ELSE UNCHANGED session /\ Ends(r)
                  /\ UNCHANGED <<invite, present, late>>

SaveLive(r) == /\ visit[r].pc = "open"
               /\ session' = "live"
               /\ Moves(r, "join")
               /\ UNCHANGED <<invite, present, late>>

\* The one who made it live, hands it off or has accepted is a participant; a
\* hand-off goes on from there.
Join(r) == /\ visit[r].pc \in {"join", "enter"}
           /\ present' = present \cup {visit[r].who}
           /\ IF visit[r].pc = "join" THEN Ends(r) ELSE Moves(r, "hand")
           /\ UNCHANGED <<session, invite, late>>

\* An invitation is made, or made anew, whatever its state was.
NewInvite(r) == [by |-> visit[r].who, status |-> "pending"]

SaveInvite(r) == /\ visit[r].pc \in {"invite", "hand"}
                 /\ invite' = [invite EXCEPT ![visit[r].to] = NewInvite(r)]
                 /\ IF visit[r].pc = "invite" THEN Ends(r) ELSE Moves(r, "await")
                 /\ UNCHANGED <<session, present, late>>

SaveAwaiting(r) == /\ visit[r].pc = "await"
                   /\ session' = "awaiting_handoff"
                   /\ Ends(r)
                   /\ UNCHANGED <<invite, present, late>>

SaveClosed(r) == /\ visit[r].pc = "close"
                 /\ session' = "closed"
                 /\ Ends(r)
                 /\ UNCHANGED <<invite, present, late>>

\* The answer is saved into the row as it is by now.
SaveAnswer(r) ==
    /\ visit[r].pc \in {"accept", "decline"}
    /\ invite' = [invite EXCEPT ![visit[r].who].status =
                    IF visit[r].pc = "accept" THEN "accepted" ELSE "declined"]
    /\ IF visit[r].pc = "accept" THEN Moves(r, "join") ELSE Ends(r)
    /\ UNCHANGED <<session, present, late>>

\* The model has answered, and the reply is stored.
StoreReply(r) == /\ visit[r].pc = "send"
                 /\ late' = (late \/ session = "closed")
                 /\ Ends(r)
                 /\ UNCHANGED <<session, invite, present>>

RequestDies(r) == /\ visit[r].pc # "idle"
                  /\ Ends(r)
                  /\ UNCHANGED <<session, invite, present, late>>

SessionNext == \E r \in Visits :
    \/ MakeLive(r) \/ Close(r)
    \/ \E u \in Viewers : Invite(r, u) \/ Accept(r, u) \/ Decline(r, u) \/ Send(r, u)
    \/ \E u, t \in Viewers : Handoff(r, u, t)
    \/ OpenSession(r) \/ SaveLive(r) \/ Join(r) \/ SaveInvite(r) \/ SaveAwaiting(r)
    \/ SaveClosed(r) \/ SaveAnswer(r) \/ StoreReply(r) \/ RequestDies(r)

SessionSpec == SessionInit /\ [][SessionNext]_sessionVars

-----------------------------------------------------------------------------
(* Properties                                                               *)

SessionTypeOK ==
    /\ session \in {"none", "private", "live", "awaiting_handoff", "closed"}
    /\ \A u \in Viewers : /\ invite[u].by \in (Viewers \cup {Nobody}) \ {u}
                          /\ invite[u].status \in {"none", "pending", "accepted", "declined"}
                          /\ invite[u].by = Nobody <=> invite[u].status = "none"
    /\ present \subseteq Viewers /\ late \in BOOLEAN /\ overlapped \in BOOLEAN

\* "Access is valid only along a chain from the owner" (API_CONTRACTS.md:7130),
\* and along every such chain, however often people were invited anew: who is out
\* is who is in a set that nobody outside it has invited anybody into.
GrantsFollowChains ==
    Viewers \ Holders =
        UNION {cut \in SUBSET (Viewers \ {Owner}) :
                  \A u \in cut \cap Edges : invite[u].by \in cut}

\* Nobody comes to see the whole of it but by an answer: theirs, or that of one
\* of those they were invited through.
AccessIsAccepted ==
    [][(\A r \in Visits : visit[r].pc \notin {"accept", "join"})
          => Seeing' \subseteq Seeing]_sessionVars

\* "stops accepting new messages" (SessionCloseView): one request at a time, a
\* closed session stays closed and gets no message.
ClosedIsQuiet ==
    [][session = "closed" /\ ~overlapped' => session' = "closed" /\ ~late']_sessionVars

\* Who comes in and what comes after the close, over any sequence of requests.
SessionIsKept == AccessIsAccepted /\ ClosedIsQuiet

\* "handed off a Copilot session to you" (views.py:1580): whom it is handed to can
\* accept it, as things stand after the hand-off.
HandoffCanBeTaken ==
    [][\A r \in Visits : visit[r].pc = "hand" /\ visit'[r].pc = "await" /\ ~overlapped =>
          visit[r].to = Owner \/ Grantable(visit[r].to)']_sessionVars
=============================================================================
