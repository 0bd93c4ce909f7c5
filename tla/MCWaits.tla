-------------------------------- MODULE MCWaits --------------------------------
(***************************************************************************)
(* Requests that wait for one another's row locks, for TLC in one run: two *)
(* verifications, claims or foundings at once of one domain by three       *)
(* organisations (Domains), or two requests at once over two people of one *)
(* organisation (Members).  They share no state; "part" says which of them *)
(* a behaviour is about.                                                   *)
(***************************************************************************)
EXTENDS Domains

CONSTANTS acme, globex, initech, w1, w2, founder, ann,
          NoWorker, NoOne, NoRole

VARIABLES part, users, joined, seated, limit, lock, place, req, copy, seatOp

P == INSTANCE Members WITH
         People <- {founder, ann}, Founder <- founder,
         Roles <- {"admin"}, AdminRole <- "admin", Managing <- {"admin"},
         Changes <- [active : {"on", "off", "same"}, role : {"same"}],
         StartLimit <- 2, Limits <- {1, 2}, Enforced <- TRUE,
         pc <- place

peopleVars == <<users, joined, seated, limit, lock, place, req, copy, seatOp>>
waitVars == <<vars, peopleVars, part>>

InPart(p, A) == part = p /\ A /\ UNCHANGED part
DomainDoes(A) == InPart("domain", A) /\ UNCHANGED peopleVars
PeopleDo(A) == InPart("people", A) /\ UNCHANGED vars

WaitInit == Init /\ P!Init /\ part \in {"domain", "people"}
WaitNext == DomainDoes(Next) \/ PeopleDo(P!Next)

\* The fairness of the two parts: they have the same workers, and a behaviour
\* stays in its part.
WaitFairness == \A w \in Workers : /\ SF_waitVars(DomainDoes(Step(w)) \/ PeopleDo(P!Step(w)))
                                   /\ WF_waitVars(DomainDoes(Abort(w)) \/ PeopleDo(P!Abort(w)))

WaitSpec == WaitInit /\ [][WaitNext]_waitVars /\ WaitFairness

\* Two verifications that lock each other's rows still end; so do requests that
\* lock the account and the user's row in opposite orders.
EveryRequestEnds == VerificationEnds /\ P!EveryRequestEnds
=============================================================================
