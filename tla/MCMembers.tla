----------------------------- MODULE MCMembers -----------------------------
(***************************************************************************)
(* Members for TLC, in two modes side by side. "seats": two requests at    *)
(* once over three people, about who is in. "standing": one request at a   *)
(* time, of every kind, with a role that manages users and one that does   *)
(* not. Whether requests end is MCWaits.                                   *)
(***************************************************************************)
EXTENDS Members, TLC

CONSTANTS founder, ann, bob, w1, w2

VARIABLE mode

SeatLimits == {1, 2, 3}
SeatRoles == {"admin"}
StandingRoles == {"admin", "csm"}
AdminOnly == {"admin"}
SeatChanges == [active : {"on", "off", "same"}, role : {"same"}]

Symmetry == Permutations(Workers) \cup Permutations(People \ {Founder})

AboutSeats(r) == r.change \in IF r.kind = "admit" THEN [active : {"same"}, role : SeatRoles]
                              ELSE SeatChanges
AtMostOne == \A w, v \in Workers : pc[w] # "idle" /\ pc[v] # "idle" => w = v

ModeNext == /\ Next
            /\ UNCHANGED mode
            /\ IF mode = "seats" THEN \A w \in Workers : AboutSeats(req'[w]) ELSE AtMostOne'

ModeInit == Init /\ mode \in {"seats", "standing"}

ModeSpec == ModeInit /\ [][ModeNext]_<<vars, mode>>

\* What the unlocked checks of a request promise while it is the only one: the
\* lockout rule (serializers.py:585), the owner rule (API_CONTRACTS.md:217) and
\* the seat limit (API_CONTRACTS.md:452), over any sequence of requests.
SerialRulesHold ==
    [][mode = "standing" => SomebodyManagesUsers' /\ OwnerIsLeftAlone /\ OpensWithinLimit]_vars
=============================================================================
