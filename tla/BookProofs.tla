------------------------------ MODULE BookProofs ------------------------------
(***************************************************************************)
(* Proofs about the book of business: who sees a Copilot session           *)
(* (Sessions), what becomes of questions nobody answers (Knowledge), and   *)
(* what feature requests are made of (Requests), each for any number of    *)
(* people, questions, asks and requests at once.                           *)
(***************************************************************************)
EXTENDS MCBook, FiniteSetTheorems, WellFoundedInduction, TLAPS

-----------------------------------------------------------------------------
(* Counting rounds. The library's induction theorems are about operators;   *)
(* this is the one about sets, from finite sets being well founded.         *)

LEMMA SmallestNumber ==
  ASSUME NEW B \in SUBSET Nat, B # {}
  PROVE  \E n \in B : \A m \in B : n <= m
<1> DEFINE Segment(n) == 0 .. n
           T == {Segment(n) : n \in B}
<1>1. T \subseteq FiniteSubsetsOf(Nat)
  <2>1. \A n \in Nat : IsFiniteSet(0 .. n) /\ 0 .. n \in SUBSET Nat
    BY FS_Interval
  <2>2. QED
    BY <2>1 DEF FiniteSubsetsOf
<1>2. IsWellFoundedOn(StrictSubsetOrdering(Nat), FiniteSubsetsOf(Nat))
  BY FS_StrictSubsetOrderingWellFounded
<1>3. \E x \in T : \A y \in T : <<y, x>> \notin StrictSubsetOrdering(Nat)
  <2>1. T # {}
    OBVIOUS
  <2> HIDE DEF T
  <2>2. QED
    BY <1>1, <1>2, <2>1, WFMin
<1>4. PICK n \in B : \A y \in T : <<y, Segment(n)>> \notin StrictSubsetOrdering(Nat)
  BY <1>3
<1>5. ASSUME NEW m \in B, m < n
      PROVE  FALSE
  <2>1. /\ Segment(m) \in T
        /\ Segment(m) \subseteq Segment(n) /\ n \in Segment(n) /\ n \notin Segment(m)
    BY <1>5
  <2>2. <<Segment(m), Segment(n)>> \in StrictSubsetOrdering(Nat)
    BY <1>5, <2>1 DEF StrictSubsetOrdering
  <2>3. QED
    BY <1>4, <2>1, <2>2
<1>6. QED
  BY <1>5

LEMMA Rounds ==
  ASSUME NEW last \in Nat, NEW S, 0 \in S,
         \A n \in 0 .. last : n \in S /\ n < last => n + 1 \in S
  PROVE  \A n \in 0 .. last : n \in S
<1> DEFINE B == (0 .. last) \ S
<1>1. SUFFICES ASSUME B # {} PROVE FALSE
  OBVIOUS
<1>2. PICK n \in B : \A m \in B : n <= m
  <2>1. B \in SUBSET Nat
    OBVIOUS
  <2>2. QED
    BY <1>1, <2>1, SmallestNumber
<1>3. n # 0 /\ n - 1 \in 0 .. last /\ n - 1 \notin B /\ n - 1 < last
  BY <1>2
<1>4. QED
  BY <1>2, <1>3

-----------------------------------------------------------------------------
(* Sessions: who holds a grant                                              *)

\* Some function is what the rounds say.
LEMMA RoundsExist ==
  ASSUME NEW last \in Nat
  PROVE  \E g : g = [n \in 0 .. last |-> IF n = 0 THEN {Owner} ELSE Joined(g[n - 1])]
<1> DEFINE Is(g, k) == \A n \in 0 .. k : g[n] = IF n = 0 THEN {Owner} ELSE Joined(g[n - 1])
           S == {k \in 0 .. last : \E g : Is(g, k)}
<1>1. 0 \in S
  <2> DEFINE g == [n \in {0} |-> {Owner}]
  <2>1. Is(g, 0)
    OBVIOUS
  <2> HIDE DEF g
  <2>2. \E h : Is(h, 0)
    BY <2>1
  <2>3. 0 \in 0 .. last
    OBVIOUS
  <2>4. QED
    BY <2>2, <2>3
<1>2. ASSUME NEW k \in 0 .. last, k \in S, k < last
      PROVE  k + 1 \in S
  <2>1. PICK g : Is(g, k)
    BY <1>2
  <2> DEFINE h == [n \in 0 .. k + 1 |-> IF n = k + 1 THEN Joined(g[k]) ELSE g[n]]
  <2>2. \A n \in 0 .. k : h[n] = g[n] /\ (n # 0 => h[n - 1] = g[n - 1])
    BY <1>2
  <2>3. h[k + 1] = Joined(g[k]) /\ h[k] = g[k]
    BY <1>2
  <2> HIDE DEF h
  <2>4. ASSUME NEW n \in 0 .. k + 1
        PROVE  h[n] = IF n = 0 THEN {Owner} ELSE Joined(h[n - 1])
    <3>1. CASE n = k + 1
      BY <1>2, <2>3, <3>1
    <3>2. CASE n \in 0 .. k
      BY <1>2, <2>1, <2>2, <3>2
    <3>3. QED
      BY <1>2, <2>4, <3>1, <3>2
  <2>5. QED
    BY <1>2, <2>4
<1>3. \A k \in 0 .. last : k \in S
  <2> HIDE DEF S
  <2>1. QED
    BY <1>1, <1>2, Rounds
<1>4. PICK g : Is(g, last)
  <2>1. last \in 0 .. last
    OBVIOUS
  <2>2. last \in S
    BY <1>3, <2>1
  <2>3. QED
    BY <2>2
<1> DEFINE f == [n \in 0 .. last |-> g[n]]
<1>5. f = [n \in 0 .. last |-> IF n = 0 THEN {Owner} ELSE Joined(f[n - 1])]
  <2>1. ASSUME NEW n \in 0 .. last
        PROVE  g[n] = IF n = 0 THEN {Owner} ELSE Joined(f[n - 1])
    <3>1. n # 0 => n - 1 \in 0 .. last
      OBVIOUS
    <3>2. n # 0 => f[n - 1] = g[n - 1]
      BY <3>1
    <3>3. QED
      BY <1>4, <3>2
  <2>2. QED
    BY <2>1
<1>6. QED
  BY <1>5

\* Which is HoldersAfter.
LEMMA RoundByRound ==
  ASSUME IsFiniteSet(Viewers)
  PROVE  /\ HoldersAfter[0] = {Owner}
         /\ \A n \in 0 .. Cardinality(Viewers) :
               n < Cardinality(Viewers) => HoldersAfter[n + 1] = Joined(HoldersAfter[n])
<1> DEFINE last == Cardinality(Viewers)
           Def(g) == [n \in 0 .. last |-> IF n = 0 THEN {Owner} ELSE Joined(g[n - 1])]
<1>1. last \in Nat
  BY FS_CardinalityType
<1>2. \E g : g = Def(g)
  BY <1>1, RoundsExist
<1>3. HoldersAfter = Def(HoldersAfter)
  <2>1. HoldersAfter = CHOOSE g : g = Def(g)
    BY DEF HoldersAfter
  <2>2. QED
    BY <1>2, <2>1
<1>4. \A n \in 0 .. last :
         HoldersAfter[n] = IF n = 0 THEN {Owner} ELSE Joined(HoldersAfter[n - 1])
  <2> HIDE DEF last
  <2>1. QED
    BY <1>3
<1>5. HoldersAfter[0] = {Owner}
  BY <1>1, <1>4
<1>6. ASSUME NEW n \in 0 .. last, n < last
      PROVE  HoldersAfter[n + 1] = Joined(HoldersAfter[n])
  <2>1. n + 1 \in 0 .. last /\ n + 1 # 0 /\ (n + 1) - 1 = n
    BY <1>1, <1>6
  <2>2. HoldersAfter[n + 1] = Joined(HoldersAfter[(n + 1) - 1])
    BY <1>4, <2>1
  <2>3. QED
    BY <2>1, <2>2
<1>7. QED
  BY <1>5, <1>6

\* After as many rounds as there are people another one adds nobody: until then
\* every round adds somebody.
LEMMA FixedPoint ==
  ASSUME IsFiniteSet(Viewers), Owner \in Viewers
  PROVE  /\ Holders \subseteq Viewers /\ Owner \in Holders
         /\ Joined(Holders) = Holders
<1> DEFINE last == Cardinality(Viewers)
           H == HoldersAfter
           S == {n \in 0 .. last : /\ Owner \in H[n] /\ H[n] \subseteq Viewers
                                   /\ Joined(H[n]) = H[n] \/ Cardinality(H[n]) >= n + 1}
<1>1. last \in Nat
  BY FS_CardinalityType
<1>2. H[0] = {Owner} /\ \A n \in 0 .. last : n < last => H[n + 1] = Joined(H[n])
  BY RoundByRound
<1> HIDE DEF last, H
<1>3. 0 \in S
  <2>1. 0 \in 0 .. last /\ Cardinality(H[0]) = 1
    BY <1>1, <1>2, FS_Singleton
  <2>2. QED
    BY <1>2, <2>1
<1>4. ASSUME NEW n \in 0 .. last, n \in S, n < last
      PROVE  n + 1 \in S
  <2>1. n + 1 \in 0 .. last /\ H[n + 1] = Joined(H[n])
    BY <1>1, <1>2, <1>4
  <2>2. Owner \in H[n] /\ H[n] \subseteq Viewers
    BY <1>4
  <2>3. Owner \in H[n + 1] /\ H[n + 1] \subseteq Viewers /\ H[n] \subseteq H[n + 1]
    BY <2>1, <2>2 DEF Joined, Edges
  <2>4. CASE Joined(H[n]) = H[n]
    BY <2>1, <2>3, <2>4
  <2>5. CASE Joined(H[n]) # H[n]
    <3>1. Cardinality(H[n]) >= n + 1 /\ H[n + 1] # H[n]
      BY <1>4, <2>1, <2>5
    <3>2. IsFiniteSet(H[n + 1])
      BY <2>3, FS_Subset
    <3>3. /\ Cardinality(H[n]) <= Cardinality(H[n + 1])
          /\ Cardinality(H[n]) # Cardinality(H[n + 1])
          /\ Cardinality(H[n]) \in Nat /\ Cardinality(H[n + 1]) \in Nat
      BY <2>3, <3>1, <3>2, FS_Subset, FS_CardinalityType
    <3>4. Cardinality(H[n + 1]) >= (n + 1) + 1
      BY <3>1, <3>3
    <3>5. QED
      BY <2>1, <2>3, <3>4
  <2>6. QED
    BY <2>4, <2>5
<1>5. last \in S
  <2>1. last \in 0 .. last
    BY <1>1
  <2> HIDE DEF S
  <2>2. QED
    BY <1>1, <1>3, <1>4, <2>1, Rounds
<1>6. Holders = H[last]
  BY DEF Holders, H, last
<1>7. Cardinality(H[last]) <= last /\ Cardinality(H[last]) \in Nat
  BY <1>5, FS_Subset, FS_CardinalityType DEF last
<1>8. QED
  BY <1>1, <1>5, <1>6, <1>7

\* A set that nobody outside it has invited anybody into stays outside.
LEMMA CutsStayOut ==
  ASSUME IsFiniteSet(Viewers), NEW cut \in SUBSET (Viewers \ {Owner}),
         \A u \in cut \cap Edges : invite[u].by \in cut
  PROVE  cut \cap Holders = {}
<1> DEFINE last == Cardinality(Viewers)
           S == {n \in 0 .. last : cut \cap HoldersAfter[n] = {}}
<1>1. last \in Nat
  BY FS_CardinalityType
<1>2. /\ HoldersAfter[0] = {Owner}
      /\ \A n \in 0 .. last : n < last => HoldersAfter[n + 1] = Joined(HoldersAfter[n])
  BY RoundByRound
<1>3. Holders = HoldersAfter[last]
  BY DEF Holders
<1> HIDE DEF last
<1>4. 0 \in S
  BY <1>1, <1>2
<1>5. ASSUME NEW n \in 0 .. last, n \in S, n < last
      PROVE  n + 1 \in S
  <2>1. n + 1 \in 0 .. last /\ HoldersAfter[n + 1] = Joined(HoldersAfter[n])
    BY <1>1, <1>2, <1>5
  <2>2. cut \cap Joined(HoldersAfter[n]) = {}
    BY <1>5 DEF Joined
  <2>3. QED
    BY <2>1, <2>2
<1>6. last \in S
  <2>1. last \in 0 .. last
    BY <1>1
  <2> HIDE DEF S
  <2>2. QED
    BY <1>1, <1>4, <1>5, <2>1, Rounds
<1>7. QED
  BY <1>3, <1>6

InvitedBySomebody ==
    \A u \in Viewers : invite[u].status = "accepted" => invite[u].by \in Viewers

\* So the rounds find exactly who is along a chain from the owner.
LEMMA HoldersAreChained == InvitedBySomebody => GrantsFollowChains
<1> SUFFICES ASSUME InvitedBySomebody PROVE GrantsFollowChains
  OBVIOUS
<1>0. IsFiniteSet(Viewers) /\ Owner \in Viewers
  BY SessionConstants
<1>1. Viewers \ Holders \in SUBSET (Viewers \ {Owner})
  BY <1>0, FixedPoint
<1>2. \A u \in (Viewers \ Holders) \cap Edges : invite[u].by \in Viewers \ Holders
  BY <1>0, FixedPoint DEF Joined, Edges, InvitedBySomebody
<1>3. \A cut \in SUBSET (Viewers \ {Owner}) :
         (\A u \in cut \cap Edges : invite[u].by \in cut) => cut \subseteq Viewers \ Holders
  BY <1>0, CutsStayOut
<1>4. QED
  BY <1>1, <1>2, <1>3 DEF GrantsFollowChains

LEMMA HoldersAreChainedNext == (InvitedBySomebody => GrantsFollowChains)'
  BY HoldersAreChained, PTL

-----------------------------------------------------------------------------
(* Sessions: the invariant                                                  *)

Places == {"idle", "live", "open", "join", "invite", "handoff", "enter", "hand", "await",
           "close", "accept", "decline", "send"}

\* What a request knows of the people it is about: who hands off is in, and who
\* answers was invited.
VisitOK(r) ==
    /\ visit[r].pc # "idle" => visit[r].who \in Viewers
    /\ visit[r].pc \in {"invite", "handoff", "enter", "hand"} =>
           visit[r].to \in Viewers \ {visit[r].who}
    /\ visit[r].pc \in {"handoff", "enter"} => visit[r].who \in {Owner} \cup present
    /\ visit[r].pc \in {"accept", "decline"} => invite[visit[r].who].status # "none"

\* Where a request has checked that the session is not closed.
Going == {"live", "open", "handoff", "enter", "hand", "await", "send"}

\* While requests do not overlap, what one has checked stays so.
OneAtATime ==
    ~overlapped =>
        /\ ~late
        /\ \A r, o \in Visits : visit[r].pc # "idle" /\ visit[o].pc # "idle" => r = o
        /\ \A r \in Visits :
              visit[r].pc \in Going => session # "closed"

SessionInv ==
    /\ SessionTypeOK
    /\ invite \in [Viewers -> [by : Viewers \cup {Nobody},
                               status : {"none", "pending", "accepted", "declined"}]]
    /\ visit \in [Visits -> [pc : Places, who : Viewers \cup {Nobody},
                             to : Viewers \cup {Nobody}]]
    /\ \A r \in Visits : VisitOK(r)
    /\ OneAtATime

LEMMA SessionStarts == SessionInit => SessionInv
<1> SUFFICES ASSUME SessionInit PROVE SessionInv
  OBVIOUS
<1> USE SessionConstants DEF SessionInit
<1>1. SessionTypeOK
  BY DEF SessionTypeOK, NotInvited
<1>2. invite \in [Viewers -> [by : Viewers \cup {Nobody},
                             status : {"none", "pending", "accepted", "declined"}]]
  BY DEF NotInvited
<1>3. visit \in [Visits -> [pc : Places, who : Viewers \cup {Nobody}, to : Viewers \cup {Nobody}]]
  BY DEF NoRequest, Places
<1>4. \A r \in Visits : VisitOK(r)
  BY DEF VisitOK, NoRequest
<1>5. OneAtATime
  BY DEF OneAtATime, NoRequest
<1>6. QED
  BY <1>1, <1>2, <1>3, <1>4, <1>5 DEF SessionInv

\* A request that arrives writes nothing, and the one who hands off is in.
LEMMA ArrivalKeeps ==
  ASSUME SessionInv, NEW r \in Visits,
         NEW place \in Places \ {"idle", "join", "hand", "await"},
         NEW who \in Viewers, NEW to \in Viewers \cup {Nobody},
         Checked(r, place, who, to),
         place \in {"invite", "handoff", "enter"} => to \in Viewers \ {who},
         place \in {"handoff", "enter"} => SeesWhole(who),
         place \in {"accept", "decline"} => invite[who].status # "none",
         place \in Going => session # "closed"
  PROVE  SessionInv'
<1> USE DEF Checked, Arrives, SessionInv, Going
<1> DEFINE new == [pc |-> place, who |-> who, to |-> to]
<1>1. visit' = [visit EXCEPT ![r] = new] /\ UNCHANGED <<session, invite, present, late>>
  OBVIOUS
<1>2. SessionTypeOK'
  BY DEF SessionTypeOK
<1>3. new \in [pc : Places, who : Viewers \cup {Nobody}, to : Viewers \cup {Nobody}]
  OBVIOUS
<1>4. ASSUME NEW o \in Visits
      PROVE  VisitOK(o)'
  <2>1. SeesWhole(who) => who \in {Owner} \cup present
    BY DEF SeesWhole, Seeing
  <2>2. QED
    BY <1>1, <2>1 DEF VisitOK
<1>5. OneAtATime'
  <2>1. visit'[r] = new /\ \A o \in Visits \ {r} : visit'[o] = visit[o]
    BY <1>1
  <2>2. ~overlapped' => ~overlapped /\ \A o \in Visits \ {r} : visit[o].pc = "idle"
    OBVIOUS
  <2>3. ~overlapped' => \A o \in Visits : visit'[o].pc # "idle" => o = r
    BY <2>1, <2>2
  <2>4. visit'[r].pc \in Going => session' # "closed"
    BY <1>1, <2>1
  <2>5. ~overlapped' => ~late'
    BY <1>1, <2>2 DEF OneAtATime
  <2>6. QED
    BY <2>3, <2>4, <2>5 DEF OneAtATime
<1>6. QED
  BY <1>1, <1>2, <1>3, <1>4, <1>5

LEMMA ArrivalsKeep ==
  ASSUME SessionInv, NEW r \in Visits, NEW u \in Viewers, NEW t \in Viewers,
         \/ MakeLive(r) \/ Close(r) \/ Invite(r, u) \/ Accept(r, u) \/ Decline(r, u)
         \/ Send(r, u) \/ Handoff(r, u, t)
  PROVE  SessionInv'
<1> USE SessionConstants DEF Places, Going, IfNone
<1>1. CASE MakeLive(r)
  BY <1>1, ArrivalKeeps DEF MakeLive
<1>2. CASE Close(r)
  BY <1>2, ArrivalKeeps DEF Close
<1>3. CASE Invite(r, u)
  BY <1>3, ArrivalKeeps DEF Invite
<1>4. CASE Accept(r, u)
  BY <1>4, ArrivalKeeps DEF Accept
<1>5. CASE Decline(r, u)
  BY <1>5, ArrivalKeeps DEF Decline
<1>6. CASE Send(r, u)
  BY <1>6, ArrivalKeeps DEF Send
<1>7. CASE Handoff(r, u, t)
  BY <1>7, ArrivalKeeps DEF Handoff
<1>8. QED
  BY <1>1, <1>2, <1>3, <1>4, <1>5, <1>6, <1>7

Writes(r) == \/ OpenSession(r) \/ SaveLive(r)
             \/ Join(r) \/ SaveInvite(r) \/ SaveAwaiting(r) \/ SaveClosed(r)
             \/ SaveAnswer(r) \/ StoreReply(r) \/ RequestDies(r)

\* A request that goes on stands where it stood, or nowhere, or one further on.
LEMMA Progress ==
  ASSUME SessionInv, NEW r \in Visits, Writes(r)
  PROVE  /\ visit[r].pc # "idle" /\ overlapped' = overlapped
         /\ visit' \in [Visits -> [pc : Places, who : Viewers \cup {Nobody},
                                   to : Viewers \cup {Nobody}]]
         /\ \A o \in Visits \ {r} : visit'[o] = visit[o]
         /\ visit'[r].pc # "idle" => visit'[r].who = visit[r].who /\ visit'[r].to = visit[r].to
         /\ visit'[r].pc \in {"idle", "join"}
               \/ (visit[r].pc = "live" /\ visit'[r].pc = "open")
               \/ (visit[r].pc = "handoff" /\ visit'[r].pc = "enter")
               \/ (visit[r].pc = "enter" /\ visit'[r].pc = "hand")
               \/ (visit[r].pc = "hand" /\ visit'[r].pc = "await")
         /\ present \subseteq present'
<1> USE DEF Writes, OpenSession, SaveLive, Join, SaveInvite, SaveAwaiting, SaveClosed,
            SaveAnswer, StoreReply, RequestDies, Moves, Ends
<1>1. visit[r] \in [pc : Places, who : Viewers \cup {Nobody}, to : Viewers \cup {Nobody}]
  BY DEF SessionInv
<1>2. visit[r].pc # "idle" /\ overlapped' = overlapped /\ present \subseteq present'
  OBVIOUS
<1>3. PICK p \in {"idle", "open", "join", "enter", "hand", "await"} :
         /\ visit' = [visit EXCEPT ![r].pc = p] \/ visit' = [visit EXCEPT ![r] = NoRequest]
         /\ visit' = [visit EXCEPT ![r] = NoRequest] => p = "idle"
         /\ p \in {"idle", "join"}
               \/ (visit[r].pc = "live" /\ p = "open")
               \/ (visit[r].pc = "handoff" /\ p = "enter")
               \/ (visit[r].pc = "enter" /\ p = "hand")
               \/ (visit[r].pc = "hand" /\ p = "await")
  OBVIOUS
<1>4. QED
  BY <1>1, <1>2, <1>3 DEF SessionInv, Places, NoRequest

LEMMA WritesKeep ==
  ASSUME SessionInv, NEW r \in Visits, Writes(r)
  PROVE  SessionInv'
<1>0. /\ SessionTypeOK /\ visit[r].pc # "idle" /\ visit[r].who \in Viewers
      /\ visit[r].pc \in {"invite", "hand"} => visit[r].to \in Viewers \ {visit[r].who}
  BY Progress DEF SessionInv, VisitOK
<1> USE SessionConstants
<1> USE DEF Writes, OpenSession, SaveLive, Join, SaveInvite, SaveAwaiting, SaveClosed,
            SaveAnswer, StoreReply, RequestDies, NewInvite
<1> DEFINE Invites == [by : Viewers \cup {Nobody},
                       status : {"none", "pending", "accepted", "declined"}]
<1>1. invite' = invite
        \/ (/\ visit[r].pc \in {"invite", "hand"}
            /\ invite' = [invite EXCEPT ![visit[r].to] = NewInvite(r)])
        \/ \E answer \in {"accepted", "declined"} :
              /\ visit[r].pc \in {"accept", "decline"}
              /\ invite' = [invite EXCEPT ![visit[r].who].status = answer]
  OBVIOUS
<1>2. /\ session' \in {"none", "private", "live", "awaiting_handoff", "closed"}
      /\ present' \in {present, present \cup {visit[r].who}}
      /\ late' \in BOOLEAN
  BY <1>0 DEF SessionTypeOK
<1>3. invite' \in [Viewers -> Invites]
  <2>1. visit[r].pc \in {"invite", "hand"} => NewInvite(r) \in Invites
    BY <1>0
  <2>2. \A u \in Viewers, answer \in {"accepted", "declined"} :
           [invite[u] EXCEPT !.status = answer] \in Invites
    BY DEF SessionInv
  <2>3. invite \in [Viewers -> Invites]
    BY DEF SessionInv
  <2> HIDE DEF Invites
  <2>4. CASE invite' = invite
    BY <2>3, <2>4
  <2>5. ASSUME visit[r].pc \in {"invite", "hand"},
               invite' = [invite EXCEPT ![visit[r].to] = NewInvite(r)]
        PROVE  invite' \in [Viewers -> Invites]
    <3>1. NewInvite(r) \in Invites /\ visit[r].to \in Viewers
      BY <1>0, <2>1, <2>5
    <3>. QED  BY <2>3, <2>5, <3>1
  <2>6. ASSUME NEW answer \in {"accepted", "declined"},
               invite' = [invite EXCEPT ![visit[r].who].status = answer]
        PROVE  invite' \in [Viewers -> Invites]
    <3>1. /\ [invite[visit[r].who] EXCEPT !.status = answer] \in Invites
          /\ visit[r].who \in Viewers
      BY <1>0, <2>2
    <3>. QED  BY <2>3, <2>6, <3>1
  <2>7. QED
    BY <1>1, <2>4, <2>5, <2>6
<1>4. SessionTypeOK'
  <2>1. ASSUME NEW u \in Viewers
        PROVE  /\ invite'[u].by \in (Viewers \cup {Nobody}) \ {u}
               /\ invite'[u].status \in {"none", "pending", "accepted", "declined"}
               /\ invite'[u].by = Nobody <=> invite'[u].status = "none"
    <3>1. CASE invite'[u] = invite[u]
      BY <1>0, <3>1 DEF SessionTypeOK
    <3>2. CASE visit[r].pc \in {"invite", "hand"} /\ u = visit[r].to /\ invite'[u] = NewInvite(r)
      BY <1>0, <3>2
    <3>3. CASE /\ visit[r].pc \in {"accept", "decline"} /\ u = visit[r].who
               /\ \E answer \in {"accepted", "declined"} :
                     invite'[u] = [invite[u] EXCEPT !.status = answer]
      <4>1. PICK answer \in {"accepted", "declined"} :
               invite'[u] = [invite[u] EXCEPT !.status = answer]
        BY <3>3
      <4>2. invite[u].status # "none"
        BY <3>3 DEF SessionInv, VisitOK
      <4>3. invite'[u].by = invite[u].by /\ invite'[u].status = answer
        BY <4>1 DEF SessionInv
      <4>4. QED
        BY <1>0, <4>2, <4>3 DEF SessionTypeOK
    <3>4. QED
      BY <1>0, <1>1, <3>1, <3>2, <3>3 DEF SessionInv
  <2>2. overlapped' = overlapped
    BY Progress
  <2>3. QED
    BY <1>0, <1>2, <2>1, <2>2 DEF SessionTypeOK
<1>5. ASSUME NEW o \in Visits
      PROVE  VisitOK(o)'
  <2>1. \A u \in Viewers : invite[u].status # "none" => invite'[u].status # "none"
    BY <1>0, <1>1 DEF SessionInv
  <2>2. VisitOK(o) /\ present \subseteq present'
    BY Progress DEF SessionInv
  <2>3. CASE visit'[o] = visit[o]
    BY <2>1, <2>2, <2>3 DEF VisitOK
  <2>4. CASE o = r
    <3>1. /\ visit'[r].pc \in {"idle", "open", "join", "enter", "hand", "await"}
          /\ visit'[r].pc # "idle" => visit'[r].who = visit[r].who /\ visit'[r].to = visit[r].to
          /\ visit'[r].pc = "enter" => visit[r].pc = "handoff"
          /\ visit'[r].pc = "hand" => visit[r].pc = "enter"
      BY Progress
    <3>2. QED
      BY <1>0, <2>2, <2>4, <3>1 DEF VisitOK
  <2>5. QED
    BY <2>3, <2>4, Progress
<1>6. OneAtATime'
  <2> SUFFICES ASSUME ~overlapped'
               PROVE  /\ ~late'
                      /\ \A u, o \in Visits : visit'[u].pc # "idle" /\ visit'[o].pc # "idle" => u = o
                      /\ \A o \in Visits :
                            visit'[o].pc \in Going => session' # "closed"
    BY DEF OneAtATime
  <2>1. ~overlapped /\ ~late /\ \A o \in Visits \ {r} : visit[o].pc = "idle"
    BY <1>0, Progress DEF SessionInv, OneAtATime
  <2>2. visit[r].pc \in Going => session # "closed"
    BY <2>1 DEF SessionInv, OneAtATime
  <2>3. \A o \in Visits : visit'[o].pc # "idle" => o = r
    BY <2>1, Progress
  <2>4. visit'[r].pc \in Going => session' # "closed"
    <3>1. CASE visit[r].pc \in {"live", "handoff", "enter"}
      BY <2>2, <3>1 DEF Going
    <3>2. CASE visit[r].pc = "hand"
      BY <2>2, <3>2 DEF Going
    <3>3. QED
      BY <3>1, <3>2, Progress DEF Going
  <2>5. ~late'
    BY <2>1, <2>2 DEF Going
  <2>6. QED
    BY <2>3, <2>4, <2>5 DEF Going
<1>7. QED
  BY <1>3, <1>4, <1>5, <1>6, Progress DEF SessionInv

\* One request takes a step.
LEMMA OneRequest ==
  ASSUME [SessionNext]_sessionVars
  PROVE  \/ UNCHANGED sessionVars
         \/ \E r \in Visits : Writes(r)
         \/ \E r \in Visits, u \in Viewers, t \in Viewers :
               \/ MakeLive(r) \/ Close(r) \/ Invite(r, u) \/ Accept(r, u) \/ Decline(r, u)
               \/ Send(r, u) \/ Handoff(r, u, t)
  BY SessionConstants DEF SessionNext, Writes

\* The invariant of a session.
LEMMA SessionStep == SessionInv /\ [SessionNext]_sessionVars => SessionInv'
<1> SUFFICES ASSUME SessionInv, [SessionNext]_sessionVars PROVE SessionInv'
  OBVIOUS
<1>1. CASE UNCHANGED sessionVars
  BY <1>1 DEF sessionVars, SessionInv, SessionTypeOK, VisitOK, OneAtATime
<1>2. QED
  BY <1>1, OneRequest, ArrivalsKeep, WritesKeep

THEOREM SessionInvariant == SessionSpec => []SessionInv
<1>1. QED
  BY SessionStarts, SessionStep, PTL DEF SessionSpec

\* Access is along chains of accepted invitations from the owner, and along every
\* such chain (grant_holders, views.py:117-143): the loop over the invitations
\* ends with exactly those, whoever was invited, declined or invited anew.
THEOREM GrantsAreChained == SessionSpec => []GrantsFollowChains
<1>1. SessionInv => InvitedBySomebody
  BY DEF SessionInv, SessionTypeOK, InvitedBySomebody
<1>2. QED
  BY <1>1, HoldersAreChained, SessionInvariant, PTL

\* A closed session that requests come to one at a time stays closed and gets no
\* message (SessionCloseView).
THEOREM ClosedSessionsAreQuiet == SessionSpec => ClosedIsQuiet
<1>1. SessionInv /\ SessionInv' /\ [SessionNext]_sessionVars =>
         (session = "closed" /\ ~overlapped' => session' = "closed" /\ ~late')
  <2> SUFFICES ASSUME SessionInv, SessionInv', [SessionNext]_sessionVars,
                      session = "closed", ~overlapped'
               PROVE  session' = "closed" /\ ~late'
    OBVIOUS
  <2>1. ~late'
    BY DEF SessionInv, OneAtATime
  <2>2. ASSUME NEW r \in Visits, Writes(r)
        PROVE  session' = "closed"
    <3>1. ~overlapped
      BY <2>2, Progress
    <3>2. visit[r].pc \notin {"live", "open", "handoff", "await"}
      BY <3>1 DEF SessionInv, OneAtATime, Going
    <3>3. QED
      BY <2>2, <3>2 DEF Writes, OpenSession, SaveLive, Join, SaveInvite, SaveAwaiting,
         SaveClosed, SaveAnswer, StoreReply, RequestDies
  <2>3. ASSUME NEW r \in Visits, NEW u \in Viewers, NEW t \in Viewers,
               \/ MakeLive(r) \/ Close(r) \/ Invite(r, u) \/ Accept(r, u) \/ Decline(r, u)
               \/ Send(r, u) \/ Handoff(r, u, t)
        PROVE  session' = "closed"
    BY <2>3 DEF MakeLive, Close, Invite, Accept, Decline, Send, Handoff, Checked
  <2>4. CASE UNCHANGED sessionVars
    BY <2>1, <2>4 DEF sessionVars
  <2>5. QED
    BY <2>1, <2>2, <2>3, <2>4, OneRequest
<1>2. QED
  BY <1>1, SessionInvariant, PTL DEF SessionSpec, ClosedIsQuiet

\* Fewer acceptances by the same people admit fewer.
LEMMA FewerHold ==
  ASSUME GrantsFollowChains, GrantsFollowChains', Edges' \subseteq Edges,
         \A u \in Edges' : invite'[u].by = invite[u].by
  PROVE  Viewers \ Holders \subseteq Viewers \ Holders'
<1> SUFFICES ASSUME NEW cut \in SUBSET (Viewers \ {Owner}),
                    \A u \in cut \cap Edges : invite[u].by \in cut
             PROVE  \A u \in cut \cap Edges' : invite'[u].by \in cut
  BY DEF GrantsFollowChains
<1>1. QED
  OBVIOUS

\* Nobody comes to see the whole of it but by an answer (SharedSessionView,
\* views.py): not by being invited, handed to, or made to wait.
THEOREM AccessNeedsAnAnswer == SessionSpec => AccessIsAccepted
<1>1. SessionInv /\ SessionInv' /\ [SessionNext]_sessionVars =>
         ((\A r \in Visits : visit[r].pc \notin {"accept", "join"}) => Seeing' \subseteq Seeing)
  <2> SUFFICES ASSUME SessionInv, SessionInv', [SessionNext]_sessionVars,
                      \A r \in Visits : visit[r].pc \notin {"accept", "join"}
               PROVE  Seeing' \subseteq Seeing
    OBVIOUS
  <2>1. GrantsFollowChains /\ GrantsFollowChains'
    BY HoldersAreChained, HoldersAreChainedNext
       DEF SessionInv, SessionTypeOK, InvitedBySomebody
  <2>2. /\ present \subseteq Viewers /\ present' \subseteq present \cup {Owner}
        /\ \A u \in Viewers :
              invite'[u].status = "accepted" =>
                  invite[u].status = "accepted" /\ invite'[u].by = invite[u].by
    <3>1. present \subseteq Viewers
      BY DEF SessionInv, SessionTypeOK
    <3>2. CASE UNCHANGED <<present, invite>>
      BY <3>1, <3>2
    <3>3. ASSUME NEW r \in Visits, Writes(r)
          PROVE  /\ present' \subseteq present \cup {Owner}
                 /\ \A u \in Viewers :
                       invite'[u].status = "accepted" =>
                           invite[u].status = "accepted" /\ invite'[u].by = invite[u].by
      <4>1. CASE Join(r)
        BY <4>1 DEF Join, SessionInv, VisitOK
      <4>2. CASE SaveInvite(r)
        BY <4>2 DEF SaveInvite, NewInvite, SessionInv
      <4>3. CASE SaveAnswer(r)
        BY <4>3 DEF SaveAnswer, SessionInv
      <4>4. CASE UNCHANGED <<present, invite>>
        BY <4>4
      <4>5. QED
        BY <3>3, <4>1, <4>2, <4>3, <4>4
           DEF Writes, OpenSession, SaveLive, SaveAwaiting, SaveClosed, StoreReply, RequestDies
    <3>4. ASSUME NEW r \in Visits, NEW u \in Viewers, NEW t \in Viewers,
                 \/ MakeLive(r) \/ Close(r) \/ Invite(r, u) \/ Accept(r, u) \/ Decline(r, u)
                 \/ Send(r, u) \/ Handoff(r, u, t)
          PROVE  UNCHANGED <<present, invite>>
      BY <3>4 DEF MakeLive, Close, Invite, Accept, Decline, Send, Handoff, Checked
    <3>5. UNCHANGED sessionVars => UNCHANGED <<present, invite>>
      BY DEF sessionVars
    <3>6. QED
      BY <3>1, <3>2, <3>3, <3>4, <3>5, OneRequest
  <2>3. Edges' \subseteq Edges /\ \A u \in Edges' : invite'[u].by = invite[u].by
    BY <2>2 DEF Edges
  <2>4. Viewers \ Holders \subseteq Viewers \ Holders'
    BY <2>1, <2>3, FewerHold
  <2>5. QED
    BY <2>2, <2>4 DEF Seeing
<1>2. QED
  BY <1>1, SessionInvariant, PTL DEF SessionSpec, AccessIsAccepted

\* Who comes in, and what comes after the close.
THEOREM SessionsAreKept == SessionSpec => SessionIsKept
  BY AccessNeedsAnAnswer, ClosedSessionsAreQuiet, PTL DEF SessionIsKept

-----------------------------------------------------------------------------
(* Knowledge: the invariant                                                 *)

GapRows == [status : {"none", "open", "filled", "dismissed"},
            function : {Anybody} \cup Functions, asked : Nat, named : BOOLEAN]
QuestionRows == [status : {"none", "open", "answered"}, asked : Nat, swept : BOOLEAN, nudged : Int]
Chores == {"idle", "ask", "sweep", "raise", "nudge", "mark", "gap", "write", "dismiss", "load",
           "answer"}
ChoreRows == [pc : Chores, todo : SUBSET (Questions \cup Subjects),
              one : Questions \cup Subjects \cup {"-"}, seen : GapRows,
              by : {Anybody} \cup Functions, since : Nat]

KnowledgeTyped ==
    /\ subject \in [Questions -> Subjects] /\ owes \in [Questions -> Functions]
    /\ question \in [Questions -> QuestionRows]
    /\ gap \in [Subjects -> GapRows]
    /\ chore \in [Askers -> ChoreRows]
    /\ came \in [Subjects -> Nat]
    /\ reminded \in [Questions -> Int]
    /\ IsFiniteSet(joined)

\* A row as it was read and as it is now: rows are made and never go.
Remembers(row, seen) == /\ seen.status # "none" => row.status # "none"
                        /\ seen.status = "none" => seen = NoGap
                        /\ seen.named => row.named

\* What a worker has read that nobody can undo.
ChoreOK(w) ==
    LET c == chore[w]
    IN  /\ c.pc = "ask" => c.one \in Subjects /\ Remembers(gap[c.one], c.seen)
        /\ c.pc \in {"sweep", "raise", "nudge", "mark"} =>
              c.todo \subseteq {q \in Questions : question[q].status # "none"}
        /\ c.pc = "raise" => c.one \in c.todo /\ Remembers(gap[subject[c.one]], c.seen)
        /\ c.pc = "mark" => c.one \in c.todo
        /\ c.pc \in {"nudge", "mark"} => c.since <= day
        /\ c.pc \in {"gap", "dismiss"} => c.one \in Subjects /\ gap[c.one].status # "none"
        /\ c.pc = "write" => c.todo \subseteq {s \in Subjects : gap[s].status # "none"}
        /\ c.pc \in {"load", "answer"} => c.one \in Questions /\ question[c.one].status # "none"

\* What a worker has read that only another one could change.
AloneOK(w) ==
    LET c == chore[w]
        Due(q) == Stale(q) /\ question[q].nudged < c.since
    IN  /\ c.pc = "ask" => c.seen = gap[c.one]
        /\ c.pc = "raise" => c.seen = gap[subject[c.one]]
        /\ c.pc \in {"sweep", "raise"} => \A q \in c.todo : ~question[q].swept
        /\ c.pc = "nudge" => \A q \in c.todo : Due(q)
        /\ c.pc = "mark" => reminded[c.one] = c.since /\ \A q \in c.todo \ {c.one} : Due(q)

\* A reminder is written down, or about to be.
RemindersNoted ==
    \A q \in Questions : \/ reminded[q] = question[q].nudged
                         \/ \E w \in Askers : chore[w].pc = "mark" /\ chore[w].one = q

Uncrossed ==
    ~crossed => /\ \A v, w \in Askers : chore[v].pc # "idle" /\ chore[w].pc # "idle" => v = w
                /\ \A w \in Askers : AloneOK(w)
                /\ RemindersNoted

KnowledgeInv ==
    /\ KnowledgeTyped
    /\ KnowledgeTypeOK
    /\ \A q \in Questions : question[q].status = "none" => question[q] = Unasked
    /\ \A s \in Subjects : gap[s].status = "none" => gap[s] = NoGap
    /\ \A w \in Askers : ChoreOK(w)
    /\ joined \subseteq {q \in Questions : question[q].swept}
    /\ SweptIsFiled
    /\ Uncrossed
    /\ CountedOnce

LEMMA KnowledgeStarts == KnowledgeInit => KnowledgeInv
<1> SUFFICES ASSUME KnowledgeInit PROVE KnowledgeInv
  OBVIOUS
<1> USE KnowledgeConstants DEF KnowledgeInit
<1>1. NoGap \in GapRows /\ Unasked \in QuestionRows /\ NoChore \in ChoreRows /\ Never \in Int
  BY DEF NoGap, GapRows, Unasked, QuestionRows, NoChore, ChoreRows, Chores, Never
<1>2. KnowledgeTyped
  BY <1>1, FS_EmptySet DEF KnowledgeTyped
<1>3. KnowledgeTypeOK
  <2>1. day = 0 /\ 0 \in 0..MaxDay /\ 0 \in 0..day
    OBVIOUS
  <2>2. \A q \in Questions : question[q] = Unasked
    OBVIOUS
  <2>3. \A s \in Subjects : gap[s] = NoGap
    OBVIOUS
  <2>4. QED
    BY <2>1, <2>2, <2>3 DEF KnowledgeTypeOK, Unasked, NoGap
<1>4. \A w \in Askers : ChoreOK(w) /\ AloneOK(w)
  BY DEF ChoreOK, AloneOK, NoChore
<1>5. Uncrossed /\ SweptIsFiled
  BY <1>4 DEF Uncrossed, RemindersNoted, SweptIsFiled, NoChore, Unasked
<1>6. CountedOnce
  <2>1. \A s \in Subjects : {q \in joined : subject[q] = s} = {}
    OBVIOUS
  <2>2. QED
    BY <2>1, FS_EmptySet DEF CountedOnce, NoGap
<1>7. QED
  BY <1>2, <1>3, <1>4, <1>5, <1>6 DEF KnowledgeInv

\* Gaps and questions are made and never go, and days pass.
RowsStay == /\ \A s \in Subjects : /\ gap[s].status # "none" => gap'[s].status # "none"
                                   /\ gap[s].named => gap'[s].named
            /\ \A q \in Questions : question[q].status # "none" => question'[q].status # "none"
            /\ day <= day'
            /\ UNCHANGED <<subject, owes>>

LEMMA MemoryHolds ==
  ASSUME KnowledgeInv, RowsStay, day' \in Nat, NEW v \in Askers, chore'[v] = chore[v]
  PROVE  ChoreOK(v)'
<1> DEFINE c == chore[v]
<1>1. ChoreOK(v) /\ c \in ChoreRows /\ subject \in [Questions -> Subjects] /\ day \in Nat
  BY KnowledgeConstants DEF KnowledgeInv, KnowledgeTyped, KnowledgeTypeOK
<1>2. \A s \in Subjects : Remembers(gap[s], c.seen) => Remembers(gap'[s], c.seen)
  BY DEF RowsStay, Remembers
<1>3. c.since \in Nat
  BY <1>1 DEF ChoreRows
<1>4. QED
  BY <1>1, <1>2, <1>3 DEF ChoreOK, RowsStay

\* A worker that takes up or goes on with its work, the others as they were.
LEMMA WorkKeeps ==
  ASSUME KnowledgeInv, NEW w \in Askers, NEW new \in ChoreRows,
         Begins(w, new) \/ (chore[w].pc # "idle" /\ GoesOn(w, new)),
         RowsStay, day' \in Nat,
         KnowledgeTyped', KnowledgeTypeOK',
         \A q \in Questions : question'[q].status = "none" => question'[q] = Unasked,
         \A s \in Subjects : gap'[s].status = "none" => gap'[s] = NoGap,
         joined' \subseteq {q \in Questions : question'[q].swept},
         SweptIsFiled', ChoreOK(w)',
         ~crossed => AloneOK(w)' /\ RemindersNoted',
         ~crossed /\ (\A v \in Askers \ {w} : chore[v].pc = "idle") => CountedOnce'
  PROVE  KnowledgeInv'
<1>1. /\ chore' = [chore EXCEPT ![w] = new]
      /\ ~crossed' => ~crossed /\ \A v \in Askers \ {w} : chore[v].pc = "idle"
  <2>1. CASE Begins(w, new)
    BY <2>1 DEF Begins
  <2>2. CASE chore[w].pc # "idle" /\ GoesOn(w, new)
    <3>1. chore' = [chore EXCEPT ![w] = new] /\ crossed' = crossed
      BY <2>2 DEF GoesOn
    <3>2. ~crossed => \A v \in Askers : chore[v].pc # "idle" => v = w
      BY <2>2 DEF KnowledgeInv, Uncrossed
    <3>3. QED
      BY <3>1, <3>2
  <2>3. QED
    BY <2>1, <2>2
<1>2. chore \in [Askers -> ChoreRows]
  BY DEF KnowledgeInv, KnowledgeTyped
<1>3. \A v \in Askers \ {w} : chore'[v] = chore[v]
  BY <1>1, <1>2
<1>4. \A v \in Askers : ChoreOK(v)'
  BY <1>3, MemoryHolds
<1>5. Uncrossed'
  <2> SUFFICES ASSUME ~crossed'
               PROVE  /\ \A v, u \in Askers : chore'[v].pc # "idle" /\ chore'[u].pc # "idle" => v = u
                      /\ \A v \in Askers : AloneOK(v)'
                      /\ RemindersNoted'
    BY DEF Uncrossed
  <2>1. \A v \in Askers \ {w} : chore'[v].pc = "idle"
    BY <1>1, <1>3
  <2>2. \A v \in Askers \ {w} : AloneOK(v)'
    BY <2>1 DEF AloneOK
  <2>3. QED
    BY <1>1, <2>1, <2>2
<1>6. CountedOnce'
  BY <1>1 DEF CountedOnce
<1>7. QED
  BY <1>4, <1>5, <1>6 DEF KnowledgeInv

\* And no row changes with it.
LEMMA QuietWorkKeeps ==
  ASSUME KnowledgeInv, NEW w \in Askers, NEW new \in ChoreRows,
         Begins(w, new) \/ (chore[w].pc # "idle" /\ GoesOn(w, new)),
         UNCHANGED <<subject, owes, question, gap, day, came, joined, reminded>>,
         ChoreOK(w)', ~crossed => AloneOK(w)', chore[w].pc # "mark"
  PROVE  KnowledgeInv'
<1>1. chore' = [chore EXCEPT ![w] = new] /\ crossed' \in BOOLEAN
  BY DEF Begins, GoesOn, KnowledgeInv, KnowledgeTypeOK
<1>2. RowsStay /\ day' \in Nat
  BY KnowledgeConstants DEF RowsStay, KnowledgeInv, KnowledgeTypeOK
<1>3. KnowledgeTyped'
  BY <1>1 DEF KnowledgeInv, KnowledgeTyped
<1>4. KnowledgeTypeOK'
  BY <1>1 DEF KnowledgeInv, KnowledgeTypeOK, Stale
<1>5. SweptIsFiled'
  BY DEF KnowledgeInv, SweptIsFiled
<1>6. ~crossed => RemindersNoted'
  <2>1. \A v \in Askers : chore[v].pc = "mark" => chore'[v] = chore[v]
    BY <1>1 DEF KnowledgeInv, KnowledgeTyped
  <2>2. QED
    BY <2>1 DEF KnowledgeInv, Uncrossed, RemindersNoted
<1>7. ~crossed => CountedOnce'
  BY DEF KnowledgeInv, CountedOnce
<1>8. QED
  BY <1>2, <1>3, <1>4, <1>5, <1>6, <1>7, WorkKeeps DEF KnowledgeInv

LEMMA ChoresTyped ==
  ASSUME KnowledgeInv, NEW w \in Askers
  PROVE  /\ NoChore \in ChoreRows /\ chore[w] \in ChoreRows
         /\ chore[w].since \in Nat /\ chore[w].seen \in GapRows
         /\ chore[w].todo \in SUBSET (Questions \cup Subjects)
         /\ \A s \in Subjects : gap[s] \in GapRows
         /\ \A q \in Questions : question[q] \in QuestionRows /\ subject[q] \in Subjects
                                  /\ owes[q] \in Functions
         /\ day \in Nat
<1>1. NoChore \in ChoreRows
  BY DEF NoChore, ChoreRows, Chores, NoGap, GapRows
<1>2. chore[w] \in ChoreRows /\ day \in Nat
  BY KnowledgeConstants DEF KnowledgeInv, KnowledgeTyped, KnowledgeTypeOK
<1>3. QED
  BY <1>1, <1>2 DEF KnowledgeInv, KnowledgeTyped, ChoreRows

\* What is taken up, or dropped, with the rows as they are.
LEMMA ArrivingWorkKeeps ==
  ASSUME KnowledgeInv, NEW w \in Askers,
         \/ StartSweep(w) \/ StartNudge(w)
         \/ \E s \in Subjects : AskCopilot(w, s) \/ LoadGap(w, s)
         \/ \E f \in Functions : \/ Contribute(w, f)
                                 \/ \E s \in Subjects : AnswerGap(w, f, s)
                                 \/ \E q \in Questions : LoadQuestion(w, q, f)
  PROVE  KnowledgeInv'
<1> USE ChoresTyped
<1>0. chore \in [Askers -> ChoreRows]
  BY DEF KnowledgeInv, KnowledgeTyped
<1>1. CASE StartSweep(w)
  <2> DEFINE new == [NoChore EXCEPT !.pc = "sweep", !.todo = DueForSweep]
  <2>1. new \in ChoreRows /\ new.pc = "sweep" /\ new.todo = DueForSweep
    BY DEF NoChore, ChoreRows, Chores, DueForSweep
  <2>2. chore'[w] = new /\ chore[w].pc = "idle"
    BY <1>0, <1>1 DEF StartSweep, Begins
  <2> HIDE DEF new
  <2>3. ChoreOK(w)' /\ AloneOK(w)'
    BY <1>1, <2>1, <2>2 DEF StartSweep, ChoreOK, AloneOK, DueForSweep, Stale
  <2>4. QED
    BY <1>1, <2>1, <2>2, <2>3, QuietWorkKeeps DEF StartSweep, new
<1>2. CASE StartNudge(w)
  <2> DEFINE new == [NoChore EXCEPT !.pc = "nudge", !.todo = DueForNudge, !.since = day]
  <2>1. new \in ChoreRows /\ new.pc = "nudge" /\ new.todo = DueForNudge /\ new.since = day
    BY DEF NoChore, ChoreRows, Chores, DueForNudge
  <2>2. chore'[w] = new /\ chore[w].pc = "idle"
    BY <1>0, <1>2 DEF StartNudge, Begins
  <2> HIDE DEF new
  <2>3. ChoreOK(w)'
    BY <1>2, <2>1, <2>2 DEF StartNudge, ChoreOK, DueForNudge, Stale
  <2>4. AloneOK(w)'
    BY <1>2, <2>1, <2>2 DEF StartNudge, AloneOK, DueForNudge, Stale, QuestionRows
  <2>5. QED
    BY <1>2, <2>1, <2>2, <2>3, <2>4, QuietWorkKeeps DEF StartNudge, new
<1>3. ASSUME NEW s \in Subjects, AskCopilot(w, s)
      PROVE  KnowledgeInv'
  <2> DEFINE new == [NoChore EXCEPT !.pc = "ask", !.one = s, !.seen = gap[s]]
  <2>1. new \in ChoreRows /\ new.pc = "ask" /\ new.one = s /\ new.seen = gap[s]
    BY DEF NoChore, ChoreRows, Chores
  <2>2. chore'[w] = new /\ chore[w].pc = "idle"
    BY <1>0, <1>3 DEF AskCopilot, Begins
  <2>3. gap[s].status = "none" => gap[s] = NoGap
    BY DEF KnowledgeInv
  <2> HIDE DEF new
  <2>4. ChoreOK(w)' /\ AloneOK(w)'
    BY <1>3, <2>1, <2>2, <2>3 DEF AskCopilot, ChoreOK, AloneOK, Remembers
  <2>5. QED
    BY <1>3, <2>1, <2>2, <2>4, QuietWorkKeeps DEF AskCopilot, new
<1>4. ASSUME NEW s \in Subjects, LoadGap(w, s)
      PROVE  KnowledgeInv'
  <2> DEFINE new == [NoChore EXCEPT !.pc = "dismiss", !.one = s]
  <2>1. new \in ChoreRows /\ new.pc = "dismiss" /\ new.one = s
    BY DEF NoChore, ChoreRows, Chores
  <2>2. chore'[w] = new /\ chore[w].pc = "idle"
    BY <1>0, <1>4 DEF LoadGap, Begins
  <2> HIDE DEF new
  <2>3. ChoreOK(w)' /\ AloneOK(w)'
    BY <1>4, <2>1, <2>2 DEF LoadGap, ChoreOK, AloneOK
  <2>4. QED
    BY <1>4, <2>1, <2>2, <2>3, QuietWorkKeeps DEF LoadGap, new
<1>5. ASSUME NEW f \in Functions, Contribute(w, f)
      PROVE  KnowledgeInv'
  <2> DEFINE new == [NoChore EXCEPT !.pc = "write", !.by = f, !.todo = Fillable(f)]
  <2>1. new \in ChoreRows /\ new.pc = "write" /\ new.todo = Fillable(f)
    BY DEF NoChore, ChoreRows, Chores, Fillable
  <2>2. chore'[w] = new /\ chore[w].pc = "idle"
    BY <1>0, <1>5 DEF Contribute, Begins
  <2> HIDE DEF new
  <2>3. ChoreOK(w)' /\ AloneOK(w)'
    BY <1>5, <2>1, <2>2 DEF Contribute, ChoreOK, AloneOK, Fillable
  <2>4. QED
    BY <1>5, <2>1, <2>2, <2>3, QuietWorkKeeps DEF Contribute, new
<1>6. ASSUME NEW f \in Functions, NEW s \in Subjects, AnswerGap(w, f, s)
      PROVE  KnowledgeInv'
  <2> DEFINE new == [NoChore EXCEPT !.pc = "gap", !.by = f, !.one = s]
  <2>1. new \in ChoreRows /\ new.pc = "gap" /\ new.one = s
    BY DEF NoChore, ChoreRows, Chores
  <2>2. chore'[w] = new /\ chore[w].pc = "idle"
    BY <1>0, <1>6 DEF AnswerGap, Begins
  <2> HIDE DEF new
  <2>3. ChoreOK(w)' /\ AloneOK(w)'
    BY <1>6, <2>1, <2>2 DEF AnswerGap, ChoreOK, AloneOK
  <2>4. QED
    BY <1>6, <2>1, <2>2, <2>3, QuietWorkKeeps DEF AnswerGap, new
<1>7. ASSUME NEW f \in Functions, NEW q \in Questions, LoadQuestion(w, q, f)
      PROVE  KnowledgeInv'
  <2> DEFINE new == [NoChore EXCEPT !.pc = "load", !.one = q, !.by = f]
  <2>1. new \in ChoreRows /\ new.pc = "load" /\ new.one = q
    BY DEF NoChore, ChoreRows, Chores
  <2>2. chore'[w] = new /\ chore[w].pc = "idle"
    BY <1>0, <1>7 DEF LoadQuestion, Begins
  <2> HIDE DEF new
  <2>3. ChoreOK(w)' /\ AloneOK(w)'
    BY <1>7, <2>1, <2>2 DEF LoadQuestion, ChoreOK, AloneOK
  <2>4. QED
    BY <1>7, <2>1, <2>2, <2>3, QuietWorkKeeps DEF LoadQuestion, new
<1>8. QED
  BY <1>1, <1>2, <1>3, <1>4, <1>5, <1>6, <1>7

\* What goes on, or dies, with the rows as they are.
LEMMA OngoingWorkKeeps ==
  ASSUME KnowledgeInv, NEW w \in Askers,
         \/ \E q \in Questions : FindGap(w, q)
         \/ ContributeToGap(w) \/ WriteAnswer(w) \/ JobDies(w)
  PROVE  KnowledgeInv'
<1> USE ChoresTyped
<1>0. chore \in [Askers -> ChoreRows] /\ ChoreOK(w) /\ (~crossed => AloneOK(w))
  BY DEF KnowledgeInv, KnowledgeTyped, Uncrossed
<1>1. ASSUME NEW q \in Questions, FindGap(w, q)
      PROVE  KnowledgeInv'
  <2> DEFINE new == [chore[w] EXCEPT !.pc = "raise", !.one = q, !.seen = gap[subject[q]]]
  <2>1. /\ new \in ChoreRows /\ new.pc = "raise" /\ new.one = q /\ new.todo = chore[w].todo
        /\ new.seen = gap[subject[q]]
    BY DEF ChoreRows, Chores
  <2>2. chore'[w] = new /\ chore[w].pc = "sweep" /\ q \in chore[w].todo
    BY <1>0, <1>1 DEF FindGap, GoesOn
  <2>3. gap[subject[q]].status = "none" => gap[subject[q]] = NoGap
    BY DEF KnowledgeInv
  <2> HIDE DEF new
  <2>4. ChoreOK(w)'
    BY <1>0, <1>1, <2>1, <2>2, <2>3 DEF FindGap, ChoreOK, Remembers
  <2>5. ~crossed => AloneOK(w)'
    BY <1>0, <1>1, <2>1, <2>2 DEF FindGap, AloneOK
  <2>6. GoesOn(w, new)
    BY <1>1 DEF FindGap, new
  <2>7. QED
    BY <1>1, <2>1, <2>2, <2>4, <2>5, <2>6, QuietWorkKeeps DEF FindGap
<1>2. CASE ContributeToGap(w)
  <2> DEFINE new == [chore[w] EXCEPT !.pc = "write",
                                     !.todo = Fillable(chore[w].by) \cup {chore[w].one}]
  <2>1. chore[w].pc = "gap" /\ chore[w].one \in Subjects /\ gap[chore[w].one].status # "none"
    BY <1>0, <1>2 DEF ContributeToGap, ChoreOK
  <2>2. /\ new \in ChoreRows /\ new.pc = "write"
        /\ new.todo = Fillable(chore[w].by) \cup {chore[w].one}
    BY <2>1 DEF ChoreRows, Chores, Fillable
  <2>3. chore'[w] = new
    BY <1>0, <1>2 DEF ContributeToGap, GoesOn
  <2> HIDE DEF new
  <2>4. ChoreOK(w)' /\ AloneOK(w)'
    BY <1>2, <2>1, <2>2, <2>3 DEF ContributeToGap, ChoreOK, AloneOK, Fillable
  <2>5. GoesOn(w, new)
    BY <1>2 DEF ContributeToGap, new
  <2>6. QED
    BY <1>2, <2>1, <2>2, <2>4, <2>5, QuietWorkKeeps DEF ContributeToGap
<1>3. CASE WriteAnswer(w)
  <2> DEFINE new == [chore[w] EXCEPT !.pc = "answer"]
  <2>1. new \in ChoreRows /\ new.pc = "answer" /\ new.one = chore[w].one
    BY DEF ChoreRows, Chores
  <2>2. chore'[w] = new /\ chore[w].pc = "load"
    BY <1>0, <1>3 DEF WriteAnswer, GoesOn
  <2> HIDE DEF new
  <2>3. ChoreOK(w)' /\ AloneOK(w)'
    BY <1>0, <1>3, <2>1, <2>2 DEF WriteAnswer, ChoreOK, AloneOK
  <2>4. GoesOn(w, new)
    BY <1>3 DEF WriteAnswer, new
  <2>5. QED
    BY <1>3, <2>1, <2>2, <2>3, <2>4, QuietWorkKeeps DEF WriteAnswer
<1>4. CASE JobDies(w)
  <2>1. chore'[w] = NoChore /\ GoesOn(w, NoChore) /\ chore[w].pc \notin {"idle", "mark"}
    BY <1>0, <1>4 DEF JobDies, Finishes, GoesOn
  <2>2. ChoreOK(w)' /\ AloneOK(w)'
    BY <2>1 DEF ChoreOK, AloneOK, NoChore
  <2>3. QED
    BY <1>4, <2>1, <2>2, QuietWorkKeeps DEF JobDies
<1>5. QED
  BY <1>1, <1>2, <1>3, <1>4

-----------------------------------------------------------------------------
(* Knowledge: what changes the rows                                         *)

\* A row that is counted or made (record_unanswered).
LEMMA RecordedRow ==
  ASSUME NEW s \in Subjects, gap[s] \in GapRows, NEW seen \in GapRows,
         NEW function \in {Anybody} \cup Functions,
         gap[s].status = "none" => gap[s] = NoGap,
         gap[s].named => gap[s].function # Anybody,
         Remembers(gap[s], seen), NEW row, row = Recorded(s, seen, function)
  PROVE  /\ row \in GapRows /\ row.status # "none" /\ row.named = gap[s].named
         /\ row.named => row.function # Anybody
         /\ seen = gap[s] =>
               row.asked = IF seen.status \in {"none", "open"} THEN gap[s].asked + 1
                           ELSE gap[s].asked
<1>1. CASE seen.status = "open"
  <2>1. row = [gap[s] EXCEPT !.asked = @ + 1]
    BY <1>1 DEF Recorded
  <2>2. gap[s].status # "none"
    BY <1>1 DEF Remembers
  <2>3. /\ row \in GapRows /\ row.status = gap[s].status /\ row.named = gap[s].named
        /\ row.function = gap[s].function /\ row.asked = gap[s].asked + 1
    BY <2>1 DEF GapRows
  <2>4. row.named => row.function # Anybody
    BY <2>3, Zenon
  <2>5. row.asked = IF seen.status \in {"none", "open"} THEN gap[s].asked + 1 ELSE gap[s].asked
    BY <1>1, <2>3, Zenon
  <2>6. QED
    BY <2>2, <2>3, <2>4, <2>5
<1>2. CASE seen.status # "open" /\ seen = NoGap /\ gap[s] = NoGap
  <2>1. row = [status |-> "open", function |-> function, asked |-> 1, named |-> FALSE]
    BY <1>2 DEF Recorded, NoGap
  <2>2. row \in GapRows
    BY <2>1 DEF GapRows
  <2>3. gap[s].named = FALSE /\ gap[s].asked = 0 /\ seen.status = "none"
    BY <1>2 DEF NoGap
  <2>4. row.status = "open" /\ row.named = FALSE /\ row.asked = 1
    BY <2>1
  <2>5. row.named = gap[s].named /\ ~row.named
    BY <2>3, <2>4, Zenon
  <2>6. row.asked = IF seen.status \in {"none", "open"} THEN gap[s].asked + 1 ELSE gap[s].asked
    BY <2>3, <2>4
  <2>7. row.status # "none"
    BY <2>4
  <2>8. QED
    BY <2>2, <2>5, <2>6, <2>7
<1>3. CASE seen.status # "open" /\ ~(seen = NoGap /\ gap[s] = NoGap)
  <2>1. row = gap[s]
    BY <1>3 DEF Recorded
  <2>2. gap[s].status # "none" /\ (seen = gap[s] => seen.status \notin {"none", "open"})
    BY <1>3 DEF Remembers
  <2>3. QED
    BY <2>1, <2>2
<1>4. QED
  BY <1>1, <1>2, <1>3

\* A row that a question names, if no question did.
LEMMA NamedRow ==
  ASSUME NEW row \in GapRows, NEW seen \in GapRows, NEW function \in Functions,
         row.named => row.function # Anybody, seen.named => row.named
  PROVE  /\ Named(row, seen, function) \in GapRows
         /\ Named(row, seen, function).status = row.status
         /\ Named(row, seen, function).asked = row.asked
         /\ Named(row, seen, function).named
         /\ Named(row, seen, function).function # Anybody
<1>1. CASE seen.named
  BY <1>1 DEF Named
<1>2. CASE ~seen.named
  <2>1. Named(row, seen, function) =
           [row EXCEPT !.named = TRUE,
                       !.function = IF seen.function = Anybody THEN function ELSE seen.function]
    BY <1>2 DEF Named
  <2>2. (IF seen.function = Anybody THEN function ELSE seen.function) \in Functions
    BY DEF GapRows
  <2>3. QED
    BY <2>1, <2>2, KnowledgeConstants DEF GapRows
<1>3. QED
  BY <1>1, <1>2

\* Counting a Copilot question (record_unanswered).
LEMMA AskKeeps ==
  ASSUME KnowledgeInv, NEW w \in Askers, RecordAsk(w)
  PROVE  KnowledgeInv'
<1> DEFINE s == chore[w].one
           seen == chore[w].seen
           row == Recorded(s, seen, Anybody)
<1>1. /\ chore \in [Askers -> ChoreRows] /\ gap \in [Subjects -> GapRows] /\ came \in [Subjects -> Nat]
      /\ NoChore \in ChoreRows /\ seen \in GapRows /\ day \in Nat /\ Anybody \in {Anybody} \cup Functions
  BY ChoresTyped DEF KnowledgeInv, KnowledgeTyped
<1>2. chore[w].pc = "ask" /\ s \in Subjects /\ Remembers(gap[s], seen) /\ (~crossed => seen = gap[s])
  BY DEF RecordAsk, KnowledgeInv, ChoreOK, Uncrossed, AloneOK
<1>3. /\ gap[s].status = "none" => gap[s] = NoGap
      /\ gap[s].named => gap[s].function # Anybody
      /\ gap[s] \in GapRows
  BY <1>1, <1>2 DEF KnowledgeInv, KnowledgeTypeOK
<1>4. /\ row \in GapRows /\ row.status # "none" /\ row.named = gap[s].named
      /\ row.named => row.function # Anybody
      /\ seen = gap[s] =>
            row.asked = IF seen.status \in {"none", "open"} THEN gap[s].asked + 1
                        ELSE gap[s].asked
  BY <1>1, <1>2, <1>3, RecordedRow
<1>5. /\ gap' = [gap EXCEPT ![s] = row]
      /\ came' = [came EXCEPT ![s] = IF seen.status \in {"none", "open"} THEN @ + 1 ELSE @]
      /\ GoesOn(w, NoChore) /\ chore'[w] = NoChore
      /\ UNCHANGED <<subject, owes, question, day, joined, reminded, crossed>>
  BY <1>1 DEF RecordAsk, Finishes, GoesOn
<1> HIDE DEF row, s, seen
<1>6. gap'[s] = row /\ \A t \in Subjects \ {s} : gap'[t] = gap[t]
  BY <1>1, <1>2, <1>5
<1>7. RowsStay /\ day' \in Nat
  BY <1>1, <1>2, <1>4, <1>5, <1>6 DEF RowsStay
<1>8. KnowledgeTyped'
  BY <1>1, <1>2, <1>4, <1>5 DEF KnowledgeTyped, KnowledgeInv, GoesOn
<1>9. KnowledgeTypeOK'
  <2>1. \A t \in Subjects : /\ gap'[t].status \in {"none", "open", "filled", "dismissed"}
                            /\ gap'[t].function \in {Anybody} \cup Functions
                            /\ gap'[t].named => gap'[t].function # Anybody
    BY <1>4, <1>6 DEF KnowledgeInv, KnowledgeTypeOK, GapRows
  <2>2. QED
    BY <1>5, <2>1 DEF KnowledgeInv, KnowledgeTypeOK
<1>10. \A t \in Subjects : gap'[t].status = "none" => gap'[t] = NoGap
  BY <1>4, <1>6 DEF KnowledgeInv
<1>11. SweptIsFiled'
  BY <1>4, <1>5, <1>6, <1>1 DEF KnowledgeInv, KnowledgeTyped, SweptIsFiled
<1>12. ChoreOK(w)' /\ AloneOK(w)'
  BY <1>5 DEF ChoreOK, AloneOK, NoChore
<1>13. ~crossed => RemindersNoted'
  <2>1. \A v \in Askers : chore[v].pc = "mark" => chore'[v] = chore[v]
    BY <1>1, <1>2, <1>5 DEF GoesOn
  <2>2. QED
    BY <1>5, <2>1 DEF KnowledgeInv, Uncrossed, RemindersNoted
<1>14. ~crossed => CountedOnce'
  <2> SUFFICES ASSUME ~crossed, NEW t \in Subjects
               PROVE  gap'[t].asked = came'[t] + Cardinality({q \in joined' : subject'[q] = t})
    BY DEF CountedOnce
  <2>1. gap[t].asked = came[t] + Cardinality({q \in joined : subject[q] = t})
    BY DEF KnowledgeInv, CountedOnce
  <2>2. {q \in joined' : subject'[q] = t} = {q \in joined : subject[q] = t}
    BY <1>5
  <2>3. CASE t # s
    <3>1. gap'[t] = gap[t] /\ came'[t] = came[t]
      BY <1>1, <1>2, <1>5, <1>6, <2>3
    <3>2. QED
      BY <2>1, <2>2, <3>1, Zenon
  <2>4. CASE t = s
    <3>1. Cardinality({q \in joined : subject[q] = t}) \in Nat
      BY FS_Subset, FS_CardinalityType DEF KnowledgeInv, KnowledgeTyped
    <3>2. gap'[t].asked = IF seen.status \in {"none", "open"} THEN gap[t].asked + 1 ELSE gap[t].asked
      BY <1>2, <1>4, <1>6, <2>4
    <3>3. came'[t] = IF seen.status \in {"none", "open"} THEN came[t] + 1 ELSE came[t]
      BY <1>1, <1>5, <2>4
    <3>4. came[t] \in Nat
      BY <1>1
    <3> DEFINE n == Cardinality({q \in joined : subject[q] = t})
    <3>5. Cardinality({q \in joined' : subject'[q] = t}) = n
      BY <2>2, Zenon
    <3>6. gap[t].asked = came[t] + n /\ n \in Nat
      BY <2>1, <3>1
    <3> HIDE DEF n
    <3>7. gap'[t].asked = came'[t] + n
      BY <3>2, <3>3, <3>4, <3>6
    <3>8. QED
      BY <3>5, <3>7, Zenon
  <2>5. QED
    BY <2>3, <2>4
<1>15. /\ \A q \in Questions : question'[q].status = "none" => question'[q] = Unasked
       /\ joined' \subseteq {q \in Questions : question'[q].swept}
  BY <1>5 DEF KnowledgeInv
<1>16. chore[w].pc # "idle"
  BY <1>2
<1>17. QED
  BY <1>1, <1>5, <1>7, <1>8, <1>9, <1>10, <1>11, <1>12, <1>13, <1>14, <1>15, <1>16, WorkKeeps

\* One question of the sweep (_raise_one): its gap and its mark.
LEMMA RaiseKeeps ==
  ASSUME KnowledgeInv, NEW w \in Askers, Raise(w)
  PROVE  KnowledgeInv'
<1> DEFINE q == chore[w].one
           s == subject[q]
           seen == chore[w].seen
           row == Recorded(s, seen, owes[q])
           found == IF seen = NoGap THEN row ELSE seen
           named == Named(row, found, owes[q])
           left == chore[w].todo \ {q}
           new == IF left = {} THEN NoChore ELSE [NoChore EXCEPT !.pc = "sweep", !.todo = left]
<1>1. /\ chore \in [Askers -> ChoreRows] /\ gap \in [Subjects -> GapRows] /\ came \in [Subjects -> Nat]
      /\ NoChore \in ChoreRows /\ seen \in GapRows /\ day \in Nat
      /\ question \in [Questions -> QuestionRows] /\ IsFiniteSet(joined)
      /\ chore[w].todo \in SUBSET (Questions \cup Subjects)
  BY ChoresTyped DEF KnowledgeInv, KnowledgeTyped
<1>2. /\ chore[w].pc = "raise" /\ q \in chore[w].todo /\ Remembers(gap[s], seen)
      /\ chore[w].todo \subseteq {p \in Questions : question[p].status # "none"}
      /\ ~crossed => seen = gap[s] /\ \A p \in chore[w].todo : ~question[p].swept
  BY DEF Raise, KnowledgeInv, ChoreOK, Uncrossed, AloneOK
<1>3. q \in Questions /\ s \in Subjects /\ owes[q] \in Functions /\ question[q].status # "none"
  BY <1>2, ChoresTyped
<1>4. /\ gap[s].status = "none" => gap[s] = NoGap
      /\ gap[s].named => gap[s].function # Anybody
      /\ gap[s] \in GapRows
  BY <1>1, <1>3 DEF KnowledgeInv, KnowledgeTypeOK
<1>5. /\ row \in GapRows /\ row.status # "none" /\ row.named = gap[s].named
      /\ row.named => row.function # Anybody
      /\ seen = gap[s] =>
            row.asked = IF seen.status \in {"none", "open"} THEN gap[s].asked + 1
                        ELSE gap[s].asked
  BY <1>1, <1>2, <1>3, <1>4, RecordedRow
<1>6. found \in GapRows /\ (found.named => row.named)
  BY <1>1, <1>2, <1>5 DEF Remembers
<1>7. /\ named \in GapRows /\ named.status = row.status /\ named.asked = row.asked
      /\ named.named /\ named.function # Anybody
  BY <1>3, <1>5, <1>6, NamedRow
<1>8. /\ gap' = [gap EXCEPT ![s] = named]
      /\ question' = [question EXCEPT ![q].swept = TRUE]
      /\ joined' = IF seen.status \in {"none", "open"} THEN joined \cup {q} ELSE joined
      /\ GoesOn(w, new)
      /\ UNCHANGED <<subject, owes, day, came, reminded, crossed>>
  BY DEF Raise, Finishes, GoesOn
<1>9. /\ new \in ChoreRows /\ new.pc \in {"idle", "sweep"}
      /\ new.todo \subseteq chore[w].todo \ {q}
  <2>1. CASE left = {}
    BY <1>1, <2>1 DEF NoChore
  <2>2. CASE left # {}
    <3>1. new = [NoChore EXCEPT !.pc = "sweep", !.todo = left]
      BY <2>2
    <3>2. left \in SUBSET (Questions \cup Subjects)
      BY <1>1
    <3> HIDE DEF new, left
    <3>3. new \in ChoreRows /\ new.pc = "sweep" /\ new.todo = left
      BY <1>1, <3>1, <3>2 DEF NoChore, ChoreRows, Chores
    <3>4. QED
      BY <3>3 DEF left
  <2>3. QED
    BY <2>1, <2>2
<1> HIDE DEF row, s, seen, q, found, named, left, new
<1>10. chore'[w] = new
  BY <1>1, <1>8 DEF GoesOn
<1>11. gap'[s] = named /\ \A t \in Subjects \ {s} : gap'[t] = gap[t]
  BY <1>1, <1>3, <1>8
<1>12. /\ question'[q] = [question[q] EXCEPT !.swept = TRUE]
       /\ \A p \in Questions \ {q} : question'[p] = question[p]
       /\ question[q] \in QuestionRows
  BY <1>1, <1>3, <1>8
<1>13. /\ question'[q] \in QuestionRows /\ question'[q].swept
       /\ question'[q].status = question[q].status
       /\ question'[q].asked = question[q].asked /\ question'[q].nudged = question[q].nudged
  BY <1>12 DEF QuestionRows
<1>14. RowsStay /\ day' \in Nat
  BY <1>1, <1>3, <1>5, <1>7, <1>8, <1>11, <1>12, <1>13 DEF RowsStay
<1>15. KnowledgeTyped'
  <2>1. gap' \in [Subjects -> GapRows] /\ question' \in [Questions -> QuestionRows]
    BY <1>1, <1>3, <1>7, <1>8, <1>12, <1>13
  <2>2. chore' \in [Askers -> ChoreRows]
    BY <1>1, <1>8, <1>9 DEF GoesOn
  <2>3. IsFiniteSet(joined')
    BY <1>1, <1>8, FS_AddElement
  <2>4. QED
    BY <1>8, <2>1, <2>2, <2>3 DEF KnowledgeTyped, KnowledgeInv
<1>16. KnowledgeTypeOK'
  <2>1. \A t \in Subjects : /\ gap'[t].status \in {"none", "open", "filled", "dismissed"}
                            /\ gap'[t].function \in {Anybody} \cup Functions
                            /\ gap'[t].named => gap'[t].function # Anybody
    BY <1>7, <1>11 DEF KnowledgeInv, KnowledgeTypeOK, GapRows
  <2>2. \A p \in Questions : /\ question'[p].status \in {"none", "open", "answered"}
                             /\ question'[p].asked \in 0..day
                             /\ question'[p].nudged \in {Never} \cup 0..day
                             /\ question'[p].swept \in BOOLEAN
    BY <1>3, <1>12, <1>13 DEF KnowledgeInv, KnowledgeTypeOK, QuestionRows
  <2>3. joined' \subseteq Questions
    BY <1>3, <1>8 DEF KnowledgeInv, KnowledgeTypeOK
  <2>4. QED
    BY <1>8, <2>1, <2>2, <2>3 DEF KnowledgeInv, KnowledgeTypeOK
<1>17. /\ \A t \in Subjects : gap'[t].status = "none" => gap'[t] = NoGap
       /\ \A p \in Questions : question'[p].status = "none" => question'[p] = Unasked
       /\ joined' \subseteq {p \in Questions : question'[p].swept}
  <2>1. \A t \in Subjects : gap'[t].status = "none" => gap'[t] = NoGap
    BY <1>5, <1>7, <1>11 DEF KnowledgeInv
  <2>2. \A p \in Questions : question'[p].status = "none" => question'[p] = Unasked
    BY <1>3, <1>12, <1>13 DEF KnowledgeInv
  <2>3. joined' \subseteq {p \in Questions : question'[p].swept}
    BY <1>3, <1>8, <1>12, <1>13 DEF KnowledgeInv
  <2>4. QED
    BY <2>1, <2>2, <2>3
<1>18. SweptIsFiled'
  <2> SUFFICES ASSUME NEW p \in Questions, question'[p].swept
               PROVE  gap'[subject[p]].status # "none" /\ gap'[subject[p]].named
    BY <1>8 DEF SweptIsFiled
  <2>1. CASE subject[p] = s
    BY <1>5, <1>7, <1>11, <2>1
  <2>2. CASE subject[p] # s
    <3>1. subject[p] \in Subjects /\ question[p].swept
      BY <1>12, <2>2, ChoresTyped DEF s
    <3>2. QED
      BY <1>11, <2>2, <3>1 DEF KnowledgeInv, SweptIsFiled
  <2>3. QED
    BY <2>1, <2>2
<1>19. ChoreOK(w)' /\ (~crossed => AloneOK(w)')
  <2>1. ChoreOK(w)'
    BY <1>2, <1>9, <1>10, <1>12, <1>13 DEF ChoreOK
  <2>2. ~crossed => AloneOK(w)'
    BY <1>2, <1>9, <1>10, <1>12 DEF AloneOK
  <2>3. QED
    BY <2>1, <2>2
<1>20. ~crossed => RemindersNoted'
  <2>1. \A v \in Askers : chore[v].pc = "mark" => chore'[v] = chore[v]
    BY <1>1, <1>2, <1>8 DEF GoesOn
  <2>2. \A p \in Questions : question'[p].nudged = question[p].nudged
    BY <1>12, <1>13
  <2>3. QED
    BY <1>8, <2>1, <2>2 DEF KnowledgeInv, Uncrossed, RemindersNoted
<1>21. ~crossed => CountedOnce'
  <2> SUFFICES ASSUME ~crossed, NEW t \in Subjects
               PROVE  gap'[t].asked = came'[t] + Cardinality({p \in joined' : subject'[p] = t})
    BY DEF CountedOnce
  <2> DEFINE those == {p \in joined : subject[p] = t}
  <2>1. gap[t].asked = came[t] + Cardinality(those) /\ came[t] \in Nat
    BY <1>1 DEF KnowledgeInv, CountedOnce
  <2>2. IsFiniteSet(those) /\ Cardinality(those) \in Nat
    BY <1>1, FS_Subset, FS_CardinalityType
  <2>3. q \notin joined /\ (seen = gap[s])
    BY <1>2 DEF KnowledgeInv
  <2>4. CASE t # s
    <3>1. {p \in joined' : subject'[p] = t} = those
      BY <1>8, <2>4 DEF s
    <3>2. gap'[t] = gap[t] /\ came'[t] = came[t]
      BY <1>8, <1>11, <2>4
    <3>3. QED
      BY <2>1, <3>1, <3>2
  <2>5. CASE t = s /\ seen.status \in {"none", "open"}
    <3>1. {p \in joined' : subject'[p] = t} = those \cup {q}
      BY <1>8, <2>5 DEF s
    <3>2. Cardinality(those \cup {q}) = Cardinality(those) + 1
      BY <2>2, <2>3, FS_AddElement
    <3>3. gap'[t].asked = gap[t].asked + 1 /\ came'[t] = came[t]
      BY <1>5, <1>7, <1>8, <1>11, <2>3, <2>5
    <3> DEFINE n == Cardinality(those)
    <3>4. Cardinality({p \in joined' : subject'[p] = t}) = n + 1
      BY <3>1, <3>2, Zenon
    <3>5. gap[t].asked = came[t] + n /\ n \in Nat
      BY <2>1, <2>2
    <3> HIDE DEF n
    <3>6. gap'[t].asked = came'[t] + (n + 1)
      BY <2>1, <3>3, <3>5
    <3>7. QED
      BY <3>4, <3>6, Zenon
  <2>6. CASE t = s /\ seen.status \notin {"none", "open"}
    <3>1. {p \in joined' : subject'[p] = t} = those
      BY <1>8, <2>6
    <3>2. gap'[t].asked = gap[t].asked /\ came'[t] = came[t]
      BY <1>5, <1>7, <1>8, <1>11, <2>3, <2>6
    <3>3. QED
      BY <2>1, <3>1, <3>2
  <2>7. QED
    BY <2>4, <2>5, <2>6
<1>22. chore[w].pc # "idle"
  BY <1>2
<1>23. QED
  BY <1>8, <1>9, <1>14, <1>15, <1>16, <1>17, <1>18, <1>19, <1>20, <1>21, <1>22, WorkKeeps

\* Gaps that are filled or dismissed: nothing else of them changes.
LEMMA ShuttingKeeps ==
  ASSUME KnowledgeInv, NEW w \in Askers, CommitContribution(w) \/ DismissGap(w)
  PROVE  KnowledgeInv'
<1>1. /\ chore \in [Askers -> ChoreRows] /\ gap \in [Subjects -> GapRows] /\ NoChore \in ChoreRows
      /\ day \in Nat /\ ChoreOK(w)
  BY ChoresTyped DEF KnowledgeInv, KnowledgeTyped
<1>2. /\ GoesOn(w, NoChore) /\ chore[w].pc \in {"write", "dismiss"}
      /\ UNCHANGED <<subject, owes, question, day, came, joined, reminded, crossed>>
  BY DEF CommitContribution, DismissGap, Finishes, GoesOn
<1>3. PICK shut \in SUBSET Subjects, status \in {"filled", "dismissed"} :
         /\ gap' = [s \in Subjects |-> IF s \in shut THEN [gap[s] EXCEPT !.status = status]
                                       ELSE gap[s]]
         /\ \A s \in shut : gap[s].status # "none"
  <2>1. CASE CommitContribution(w)
    <3>1. chore[w].todo \in SUBSET Subjects /\ \A s \in chore[w].todo : gap[s].status # "none"
      BY <1>1, <2>1 DEF CommitContribution, ChoreOK
    <3>2. gap' = [s \in Subjects |-> IF s \in chore[w].todo THEN [gap[s] EXCEPT !.status = "filled"]
                                     ELSE gap[s]]
      BY <2>1 DEF CommitContribution
    <3>3. QED
      BY <3>1, <3>2
  <2>2. CASE DismissGap(w)
    <3>1. chore[w].one \in Subjects /\ gap[chore[w].one].status # "none"
      BY <1>1, <2>2 DEF DismissGap, ChoreOK
    <3>2. gap' = [s \in Subjects |->
                    IF s \in {chore[w].one} THEN [gap[s] EXCEPT !.status = "dismissed"] ELSE gap[s]]
      BY <1>1, <2>2, <3>1 DEF DismissGap
    <3>3. {chore[w].one} \in SUBSET Subjects /\ \A s \in {chore[w].one} : gap[s].status # "none"
      BY <3>1
    <3>4. QED
      BY <3>2, <3>3
  <2>3. QED
    BY <2>1, <2>2
<1>4. \A s \in Subjects :
         /\ gap'[s] \in GapRows /\ gap'[s].function = gap[s].function
         /\ gap'[s].asked = gap[s].asked /\ gap'[s].named = gap[s].named
         /\ gap'[s].status = "none" => gap'[s] = gap[s] /\ gap[s].status = "none"
         /\ gap[s].status # "none" => gap'[s].status # "none"
  <2> SUFFICES ASSUME NEW s \in Subjects
               PROVE  /\ gap'[s] \in GapRows /\ gap'[s].function = gap[s].function
                      /\ gap'[s].asked = gap[s].asked /\ gap'[s].named = gap[s].named
                      /\ gap'[s].status = "none" => gap'[s] = gap[s] /\ gap[s].status = "none"
                      /\ gap[s].status # "none" => gap'[s].status # "none"
    OBVIOUS
  <2>1. gap[s] \in GapRows
    BY <1>1
  <2>2. CASE s \in shut
    <3>1. gap'[s] = [gap[s] EXCEPT !.status = status] /\ gap[s].status # "none"
      BY <1>3, <2>2
    <3>2. QED
      BY <2>1, <3>1 DEF GapRows
  <2>3. CASE s \notin shut
    BY <1>3, <2>1, <2>3
  <2>4. QED
    BY <2>2, <2>3
<1>5. RowsStay /\ day' \in Nat
  BY <1>1, <1>2, <1>4 DEF RowsStay
<1>6. KnowledgeTyped'
  <2>1. gap' \in [Subjects -> GapRows]
    BY <1>3, <1>4
  <2>2. QED
    BY <1>1, <1>2, <2>1 DEF KnowledgeTyped, KnowledgeInv, GoesOn
<1>7. KnowledgeTypeOK'
  <2>1. \A s \in Subjects : gap'[s].status \in {"none", "open", "filled", "dismissed"}
    BY <1>4 DEF GapRows
  <2>2. QED
    BY <1>2, <1>4, <2>1 DEF KnowledgeInv, KnowledgeTypeOK
<1>8. /\ \A s \in Subjects : gap'[s].status = "none" => gap'[s] = NoGap
      /\ \A q \in Questions : question'[q].status = "none" => question'[q] = Unasked
      /\ joined' \subseteq {q \in Questions : question'[q].swept}
  BY <1>2, <1>4 DEF KnowledgeInv
<1>9. SweptIsFiled'
  BY <1>2, <1>4, ChoresTyped DEF KnowledgeInv, SweptIsFiled
<1>10. ChoreOK(w)' /\ AloneOK(w)'
  <2>1. chore'[w] = NoChore
    BY <1>1, <1>2 DEF GoesOn
  <2>2. QED
    BY <2>1 DEF ChoreOK, AloneOK, NoChore
<1>11. ~crossed => RemindersNoted'
  <2>1. \A v \in Askers : chore[v].pc = "mark" => chore'[v] = chore[v]
    BY <1>1, <1>2 DEF GoesOn
  <2>2. QED
    BY <1>2, <2>1 DEF KnowledgeInv, Uncrossed, RemindersNoted
<1>12. ~crossed => CountedOnce'
  BY <1>2, <1>4 DEF KnowledgeInv, CountedOnce
<1>13. QED
  BY <1>1, <1>2, <1>5, <1>6, <1>7, <1>8, <1>9, <1>10, <1>11, <1>12, WorkKeeps

\* A reminder goes out, and is not written down yet.
LEMMA RemindKeeps ==
  ASSUME KnowledgeInv, NEW w \in Askers, NEW q \in Questions, Remind(w, q)
  PROVE  KnowledgeInv'
<1> DEFINE new == [chore[w] EXCEPT !.pc = "mark", !.one = q]
<1>1. /\ chore \in [Askers -> ChoreRows] /\ reminded \in [Questions -> Int] /\ day \in Nat
      /\ chore[w] \in ChoreRows /\ chore[w].since \in Nat
      /\ ChoreOK(w) /\ (~crossed => AloneOK(w))
  BY ChoresTyped DEF KnowledgeInv, KnowledgeTyped, Uncrossed
<1>2. /\ GoesOn(w, new) /\ chore[w].pc = "nudge" /\ q \in chore[w].todo
      /\ reminded' = [reminded EXCEPT ![q] = chore[w].since]
      /\ UNCHANGED <<subject, owes, question, gap, day, came, joined, crossed>>
  BY DEF Remind, GoesOn
<1>3. /\ new \in ChoreRows /\ new.pc = "mark" /\ new.one = q /\ new.todo = chore[w].todo
      /\ new.since = chore[w].since
  BY <1>1 DEF ChoreRows, Chores
<1> HIDE DEF new
<1>4. chore'[w] = new
  BY <1>1, <1>2 DEF GoesOn
<1>5. RowsStay /\ day' \in Nat
  BY <1>1, <1>2 DEF RowsStay
<1>6. KnowledgeTyped'
  <2>1. chore' \in [Askers -> ChoreRows] /\ reminded' \in [Questions -> Int]
    BY <1>1, <1>2, <1>3 DEF GoesOn
  <2>2. QED
    BY <1>2, <2>1 DEF KnowledgeTyped, KnowledgeInv
<1>7. KnowledgeTypeOK' /\ SweptIsFiled' /\ CountedOnce'
  BY <1>2 DEF KnowledgeInv, KnowledgeTypeOK, SweptIsFiled, CountedOnce
<1>8. ChoreOK(w)' /\ (~crossed => AloneOK(w)')
  <2>1. ChoreOK(w)'
    BY <1>1, <1>2, <1>3, <1>4 DEF ChoreOK
  <2>2. ~crossed => AloneOK(w)'
    BY <1>1, <1>2, <1>3, <1>4 DEF AloneOK, Stale
  <2>3. QED
    BY <2>1, <2>2
<1>9. ~crossed => RemindersNoted'
  <2> SUFFICES ASSUME ~crossed, NEW p \in Questions
               PROVE  \/ reminded'[p] = question'[p].nudged
                      \/ \E v \in Askers : chore'[v].pc = "mark" /\ chore'[v].one = p
    BY DEF RemindersNoted
  <2>1. CASE p = q
    BY <1>3, <1>4, <2>1
  <2>2. CASE p # q
    <3>1. reminded'[p] = reminded[p] /\ question'[p] = question[p]
      BY <1>1, <1>2, <2>2
    <3>2. \A v \in Askers : chore[v].pc # "mark"
      BY <1>2 DEF KnowledgeInv, Uncrossed
    <3>3. QED
      BY <3>1, <3>2 DEF KnowledgeInv, Uncrossed, RemindersNoted
  <2>3. QED
    BY <2>1, <2>2
<1>10. QED
  BY <1>2, <1>3, <1>5, <1>6, <1>7, <1>8, <1>9, WorkKeeps DEF KnowledgeInv

\* A question's row is written: its reminder, or that it is answered.
LEMMA QuestionKeeps ==
  ASSUME KnowledgeInv, NEW w \in Askers, MarkNudged(w) \/ CloseQuestion(w)
  PROVE  KnowledgeInv'
<1> DEFINE q == chore[w].one
           left == chore[w].todo \ {q}
           new == IF chore[w].pc = "answer" \/ left = {} THEN NoChore
                  ELSE [chore[w] EXCEPT !.pc = "nudge", !.todo = left, !.one = "-"]
           since == chore[w].since
<1>1. /\ chore \in [Askers -> ChoreRows] /\ question \in [Questions -> QuestionRows] /\ day \in Nat
      /\ chore[w] \in ChoreRows /\ since \in Nat /\ NoChore \in ChoreRows
      /\ chore[w].todo \in SUBSET (Questions \cup Subjects)
      /\ ChoreOK(w) /\ (~crossed => AloneOK(w))
  BY ChoresTyped DEF KnowledgeInv, KnowledgeTyped, Uncrossed
<1>2. /\ GoesOn(w, new) /\ chore[w].pc \in {"mark", "answer"}
      /\ \/ chore[w].pc = "mark" /\ question' = [question EXCEPT ![q].nudged = since]
         \/ chore[w].pc = "answer" /\ question' = [question EXCEPT ![q].status = "answered"]
      /\ UNCHANGED <<subject, owes, gap, day, came, joined, reminded, crossed>>
  BY DEF MarkNudged, CloseQuestion, Finishes, GoesOn
<1>3. /\ q \in Questions /\ question[q].status # "none"
      /\ chore[w].pc = "mark" => q \in chore[w].todo /\ since <= day
  BY <1>1, <1>2 DEF ChoreOK
<1>4. /\ new \in ChoreRows /\ new.pc \in {"idle", "nudge"}
      /\ new.pc = "nudge" => /\ new.todo \subseteq chore[w].todo \ {q} /\ new.since = since
                             /\ chore[w].pc = "mark"
  <2>1. CASE chore[w].pc = "answer" \/ left = {}
    BY <1>1, <2>1 DEF NoChore
  <2>2. CASE ~(chore[w].pc = "answer" \/ left = {})
    <3>1. new = [chore[w] EXCEPT !.pc = "nudge", !.todo = left, !.one = "-"]
      BY <2>2
    <3>2. left \in SUBSET (Questions \cup Subjects)
      BY <1>1
    <3> HIDE DEF new, left
    <3>3. new \in ChoreRows /\ new.pc = "nudge" /\ new.todo = left /\ new.since = since
      BY <1>1, <3>1, <3>2 DEF ChoreRows, Chores
    <3>4. QED
      BY <1>2, <2>2, <3>3 DEF left
  <2>3. QED
    BY <2>1, <2>2
<1> HIDE DEF q, left, new, since
<1>5. chore'[w] = new
  BY <1>1, <1>2 DEF GoesOn
<1>6. /\ \A p \in Questions \ {q} : question'[p] = question[p]
      /\ question'[q] \in QuestionRows
      /\ question'[q].asked = question[q].asked /\ question'[q].swept = question[q].swept
      /\ \/ /\ chore[w].pc = "mark" /\ question'[q].nudged = since
            /\ question'[q].status = question[q].status
         \/ /\ chore[w].pc = "answer" /\ question'[q].nudged = question[q].nudged
            /\ question'[q].status = "answered"
  <2>1. question[q] \in QuestionRows
    BY <1>1, <1>3
  <2>2. CASE chore[w].pc = "mark"
    <3>1. question' = [question EXCEPT ![q].nudged = since] /\ since \in Int
      BY <1>1, <1>2, <2>2
    <3>2. question'[q] = [question[q] EXCEPT !.nudged = since]
      BY <1>1, <1>3, <3>1
    <3>3. QED
      BY <1>1, <1>3, <2>1, <2>2, <3>1, <3>2 DEF QuestionRows
  <2>3. CASE chore[w].pc = "answer"
    <3>1. question' = [question EXCEPT ![q].status = "answered"]
      BY <1>2, <2>3
    <3>2. question'[q] = [question[q] EXCEPT !.status = "answered"]
      BY <1>1, <1>3, <3>1
    <3>3. QED
      BY <1>1, <1>3, <2>1, <2>3, <3>1, <3>2 DEF QuestionRows
  <2>4. QED
    BY <1>2, <2>2, <2>3
<1>7. RowsStay /\ day' \in Nat
  BY <1>1, <1>2, <1>3, <1>6 DEF RowsStay
<1>8. KnowledgeTyped'
  <2>1. question' \in [Questions -> QuestionRows]
    BY <1>1, <1>2, <1>6
  <2>2. chore' \in [Askers -> ChoreRows]
    BY <1>1, <1>2, <1>4 DEF GoesOn
  <2>3. QED
    BY <1>2, <2>1, <2>2 DEF KnowledgeTyped, KnowledgeInv
<1>9. KnowledgeTypeOK'
  <2>1. since \in 0..day \/ chore[w].pc = "answer"
    BY <1>1, <1>2, <1>3
  <2>2. \A p \in Questions : /\ question'[p].status \in {"none", "open", "answered"}
                             /\ question'[p].asked \in 0..day
                             /\ question'[p].nudged \in {Never} \cup 0..day
                             /\ question'[p].swept \in BOOLEAN
    BY <1>3, <1>6, <2>1 DEF KnowledgeInv, KnowledgeTypeOK, QuestionRows
  <2>3. QED
    BY <1>2, <2>2 DEF KnowledgeInv, KnowledgeTypeOK
<1>10. /\ \A s \in Subjects : gap'[s].status = "none" => gap'[s] = NoGap
       /\ \A p \in Questions : question'[p].status = "none" => question'[p] = Unasked
       /\ joined' \subseteq {p \in Questions : question'[p].swept}
  BY <1>2, <1>3, <1>6 DEF KnowledgeInv
<1>11. SweptIsFiled'
  BY <1>2, <1>3, <1>6 DEF KnowledgeInv, SweptIsFiled
<1>12. ChoreOK(w)' /\ (~crossed => AloneOK(w)')
  <2>1. ChoreOK(w)'
    BY <1>1, <1>2, <1>3, <1>4, <1>5, <1>6 DEF ChoreOK
  <2>2. ~crossed => AloneOK(w)'
    <3> SUFFICES ASSUME ~crossed, new.pc = "nudge", NEW p \in new.todo
                 PROVE  Stale(p)' /\ question'[p].nudged < new.since
      BY <1>4, <1>5 DEF AloneOK
    <3>1. p \in chore[w].todo \ {q} /\ chore[w].pc = "mark" /\ new.since = since
      BY <1>4
    <3>2. p \in Questions /\ Stale(p) /\ question[p].nudged < since
      BY <1>1, <3>1 DEF AloneOK, ChoreOK, q, since
    <3>3. question'[p] = question[p] /\ day' = day
      BY <1>2, <1>6, <3>1, <3>2
    <3>4. QED
      BY <3>1, <3>2, <3>3 DEF Stale
  <2>3. QED
    BY <2>1, <2>2
<1>13. ~crossed => RemindersNoted'
  <2> SUFFICES ASSUME ~crossed, NEW p \in Questions
               PROVE  reminded'[p] = question'[p].nudged
    BY DEF RemindersNoted
  <2>1. \A v \in Askers : chore[v].pc = "mark" => v = w
    BY <1>2 DEF KnowledgeInv, Uncrossed
  <2>2. reminded[p] = question[p].nudged \/ (chore[w].pc = "mark" /\ p = q)
    BY <2>1 DEF KnowledgeInv, Uncrossed, RemindersNoted, q
  <2>3. chore[w].pc = "mark" => reminded[q] = since
    BY <1>1 DEF AloneOK, q, since
  <2>4. QED
    BY <1>2, <1>6, <2>2, <2>3
<1>14. ~crossed => CountedOnce'
  BY <1>2 DEF KnowledgeInv, CountedOnce
<1>15. chore[w].pc # "idle"
  BY <1>2
<1>16. QED
  BY <1>2, <1>4, <1>7, <1>8, <1>9, <1>10, <1>11, <1>12, <1>13, <1>14, <1>15, WorkKeeps

\* A job that dies after a reminder went out: two are at it from here on.
LEMMA DeathKeeps ==
  ASSUME KnowledgeInv, NEW w \in Askers, DiesAfterReminder(w)
  PROVE  KnowledgeInv'
<1>1. /\ chore \in [Askers -> ChoreRows] /\ NoChore \in ChoreRows /\ day \in Nat
      /\ chore' = [chore EXCEPT ![w] = NoChore] /\ crossed'
      /\ UNCHANGED <<subject, owes, question, gap, day, came, joined, reminded>>
  BY ChoresTyped DEF KnowledgeInv, KnowledgeTyped, DiesAfterReminder
<1>2. KnowledgeTyped' /\ KnowledgeTypeOK' /\ SweptIsFiled'
  <2>1. crossed' \in BOOLEAN
    BY DEF DiesAfterReminder
  <2>2. QED
    BY <1>1, <2>1 DEF KnowledgeTyped, KnowledgeTypeOK, SweptIsFiled, KnowledgeInv
<1>3. \A v \in Askers : ChoreOK(v)'
  <2>1. RowsStay /\ day' \in Nat
    BY <1>1 DEF RowsStay
  <2>2. \A v \in Askers \ {w} : chore'[v] = chore[v]
    BY <1>1
  <2>3. ChoreOK(w)'
    BY <1>1 DEF ChoreOK, NoChore
  <2>4. QED
    BY <2>1, <2>2, <2>3, MemoryHolds
<1>4. Uncrossed' /\ CountedOnce'
  BY <1>1 DEF Uncrossed, CountedOnce
<1>5. QED
  BY <1>1, <1>2, <1>3, <1>4 DEF KnowledgeInv

\* A question that is put to somebody: no worker has it yet.
LEMMA RoutingKeeps ==
  ASSUME KnowledgeInv, NEW q \in Questions, RouteQuestion(q)
  PROVE  KnowledgeInv'
<1> DEFINE new == [Unasked EXCEPT !.status = "open", !.asked = day]
<1>1. /\ question \in [Questions -> QuestionRows] /\ day \in Nat /\ day \in 0..day /\ Never \in Int
  BY KnowledgeConstants DEF KnowledgeInv, KnowledgeTyped, KnowledgeTypeOK, Never
<1>2. /\ question[q] = Unasked
      /\ question' = [question EXCEPT ![q] = new]
      /\ UNCHANGED <<subject, owes, gap, day, chore, came, joined, reminded, crossed>>
  BY DEF RouteQuestion, KnowledgeInv
<1>3. /\ new \in QuestionRows /\ new.status = "open" /\ new.asked = day /\ new.swept = FALSE
      /\ new.nudged = Never /\ question[q].swept = FALSE /\ question[q].nudged = Never
      /\ question[q].status = "none"
  <2>1. /\ Unasked \in QuestionRows /\ Unasked.status = "none"
        /\ Unasked.swept = FALSE /\ Unasked.nudged = Never
    BY <1>1 DEF Unasked, QuestionRows
  <2>2. /\ new \in QuestionRows /\ new.status = "open" /\ new.asked = day
        /\ new.swept = Unasked.swept /\ new.nudged = Unasked.nudged
    BY <1>1, <2>1 DEF QuestionRows
  <2> HIDE DEF new
  <2>3. QED
    BY <1>2, <2>1, <2>2, Zenon
<1> HIDE DEF new
<1>4. question'[q] = new /\ \A p \in Questions \ {q} : question'[p] = question[p]
  BY <1>1, <1>2
<1>5. RowsStay /\ day' \in Nat
  BY <1>1, <1>2, <1>3, <1>4 DEF RowsStay
<1>6. KnowledgeTyped'
  BY <1>1, <1>2, <1>3 DEF KnowledgeInv, KnowledgeTyped
<1>7. KnowledgeTypeOK'
  <2>1. \A p \in Questions : /\ question'[p].status \in {"none", "open", "answered"}
                             /\ question'[p].asked \in 0..day
                             /\ question'[p].nudged \in {Never} \cup 0..day
                             /\ question'[p].swept \in BOOLEAN
    BY <1>1, <1>3, <1>4 DEF KnowledgeInv, KnowledgeTypeOK
  <2>2. QED
    BY <1>2, <2>1 DEF KnowledgeInv, KnowledgeTypeOK
<1>8. \A v \in Askers : ChoreOK(v)'
  BY <1>2, <1>5, MemoryHolds
<1>9. /\ \A p \in Questions : question'[p].status = "none" => question'[p] = Unasked
      /\ joined' \subseteq {p \in Questions : question'[p].swept}
      /\ SweptIsFiled' /\ CountedOnce'
  BY <1>2, <1>3, <1>4 DEF KnowledgeInv, SweptIsFiled, CountedOnce
<1>10. Uncrossed'
  <2> SUFFICES ASSUME ~crossed PROVE (\A v \in Askers : AloneOK(v)') /\ RemindersNoted'
    BY <1>2 DEF Uncrossed, KnowledgeInv
  <2>1. ASSUME NEW v \in Askers PROVE AloneOK(v)'
    <3>1. AloneOK(v) /\ ChoreOK(v) /\ chore'[v] = chore[v]
      BY <1>2 DEF KnowledgeInv, Uncrossed
    <3>2. chore[v].pc \in {"sweep", "raise", "nudge", "mark"} =>
             \A p \in chore[v].todo : question'[p] = question[p]
      BY <1>3, <1>4, <3>1 DEF ChoreOK
    <3>3. QED
      BY <1>2, <3>1, <3>2 DEF AloneOK, Stale
  <2>2. RemindersNoted'
    BY <1>2, <1>3, <1>4 DEF KnowledgeInv, Uncrossed, RemindersNoted
  <2>3. QED
    BY <2>1, <2>2
<1>11. QED
  BY <1>2, <1>6, <1>7, <1>8, <1>9, <1>10 DEF KnowledgeInv

\* A night: what was due stays due.
LEMMA NightKeeps ==
  ASSUME KnowledgeInv, NextDay
  PROVE  KnowledgeInv'
<1>1. /\ day \in Nat /\ day' = day + 1 /\ day' \in 0..MaxDay /\ \A d \in 0..day : d \in 0..day'
      /\ UNCHANGED <<subject, owes, question, gap, chore, came, joined, reminded, crossed>>
  BY KnowledgeConstants DEF KnowledgeInv, KnowledgeTypeOK, NextDay
<1>2. RowsStay /\ day' \in Nat
  BY <1>1 DEF RowsStay
<1>3. KnowledgeTyped' /\ SweptIsFiled' /\ CountedOnce'
  BY <1>1 DEF KnowledgeInv, KnowledgeTyped, SweptIsFiled, CountedOnce
<1>4. KnowledgeTypeOK'
  BY <1>1 DEF KnowledgeInv, KnowledgeTypeOK
<1>5. \A v \in Askers : ChoreOK(v)'
  BY <1>1, <1>2, MemoryHolds
<1>6. \A q \in Questions : Stale(q) => Stale(q)'
  BY <1>1, KnowledgeConstants DEF Stale, KnowledgeInv, KnowledgeTypeOK
<1>7. Uncrossed'
  <2> SUFFICES ASSUME ~crossed, NEW v \in Askers PROVE AloneOK(v)'
    BY <1>1 DEF Uncrossed, KnowledgeInv, RemindersNoted
  <2>1. AloneOK(v) /\ ChoreOK(v) /\ chore'[v] = chore[v]
    BY <1>1 DEF KnowledgeInv, Uncrossed
  <2>2. QED
    BY <1>1, <1>6, <2>1 DEF AloneOK, ChoreOK
<1>8. QED
  BY <1>1, <1>3, <1>4, <1>5, <1>7 DEF KnowledgeInv

\* Every step of the gaps and questions keeps the invariant.
LEMMA KnowledgeStep == KnowledgeInv /\ [KnowledgeNext]_knowledgeVars => KnowledgeInv'
<1> SUFFICES ASSUME KnowledgeInv, [KnowledgeNext]_knowledgeVars PROVE KnowledgeInv'
  OBVIOUS
<1>1. ASSUME NEW w \in Askers, JobStep(w)
      PROVE  KnowledgeInv'
  BY <1>1, ArrivingWorkKeeps, OngoingWorkKeeps, RaiseKeeps, RemindKeeps, QuestionKeeps, DeathKeeps
     DEF JobStep
<1>2. ASSUME NEW w \in Askers, PersonStep(w)
      PROVE  KnowledgeInv'
  BY <1>2, ArrivingWorkKeeps, OngoingWorkKeeps, AskKeeps, ShuttingKeeps, QuestionKeeps DEF PersonStep
<1>3. CASE UNCHANGED knowledgeVars
  BY <1>3 DEF knowledgeVars, KnowledgeInv, KnowledgeTyped, KnowledgeTypeOK, ChoreOK, SweptIsFiled,
     Uncrossed, AloneOK, RemindersNoted, Stale, CountedOnce
<1>4. QED
  BY <1>1, <1>2, <1>3, RoutingKeeps, NightKeeps DEF KnowledgeNext

\* Gaps, questions, sweeps and reminders (knowledge/gaps.py, aging.py): what is
\* invariant of them.
THEOREM KnowledgeInvariant == KnowledgeSpec => []KnowledgeInv
  BY KnowledgeStarts, KnowledgeStep, PTL DEF KnowledgeSpec

\* The sweep marks a question with its gap, and never without (aging.py).
THEOREM SweepsAreFiled == KnowledgeSpec => []SweptIsFiled
<1>1. KnowledgeInv => SweptIsFiled
  BY DEF KnowledgeInv
<1>2. QED
  BY <1>1, KnowledgeInvariant, PTL

\* One job at a time, dying or not, counts a question once and reminds once a
\* day, of open questions only (record_unanswered, aging.py).
THEOREM NothingIsDoneTwice == KnowledgeSpec => JobsDoNothingTwice
<1>1. KnowledgeInv /\ KnowledgeInv' /\ [KnowledgeNext]_knowledgeVars =>
         /\ CountedOnce'
         /\ \A w \in Askers, q \in Questions :
               chore[w].pc = "nudge" /\ chore'[w].pc = "mark" /\ chore'[w].one = q /\ ~crossed =>
                  Stale(q) /\ reminded[q] < chore[w].since
  <2> SUFFICES ASSUME KnowledgeInv, KnowledgeInv', [KnowledgeNext]_knowledgeVars,
                      NEW w \in Askers, NEW q \in Questions,
                      chore[w].pc = "nudge", chore'[w].pc = "mark", chore'[w].one = q, ~crossed
               PROVE  Stale(q) /\ reminded[q] < chore[w].since
    BY DEF KnowledgeInv
  <2>1. /\ chore \in [Askers -> ChoreRows] /\ AloneOK(w) /\ RemindersNoted
        /\ \A v \in Askers : chore[v].pc # "idle" => v = w
    BY DEF KnowledgeInv, KnowledgeTyped, Uncrossed
  <2>2. q \in chore[w].todo
    <3>1. ASSUME NEW v \in Askers, JobStep(v)
          PROVE  q \in chore[w].todo
      <4>1. CASE v = w
        <5>1. ASSUME NEW p \in Questions, Remind(w, p)
              PROVE  q \in chore[w].todo
          BY <2>1, <5>1 DEF Remind, GoesOn
        <5>2. JobDies(w) => FALSE
          BY <2>1 DEF JobDies, Finishes, GoesOn, NoChore
        <5>3. /\ ~StartSweep(w) /\ ~Raise(w) /\ ~StartNudge(w) /\ ~MarkNudged(w)
              /\ ~DiesAfterReminder(w) /\ \A p \in Questions : ~FindGap(w, p)
          BY DEF StartSweep, Raise, StartNudge, MarkNudged, FindGap, DiesAfterReminder, Begins
        <5>4. QED
          BY <3>1, <4>1, <5>1, <5>2, <5>3 DEF JobStep
      <4>2. CASE v # w
        BY <2>1, <3>1, <4>2
           DEF JobStep, StartSweep, Raise, StartNudge, MarkNudged, FindGap, Remind, JobDies,
               DiesAfterReminder, Begins, Finishes, GoesOn
      <4>3. QED
        BY <4>1, <4>2
    <3>2. ASSUME NEW v \in Askers, PersonStep(v)
          PROVE  FALSE
      <4>1. CASE v = w
        BY <2>1, <3>2, <4>1
           DEF PersonStep, AskCopilot, LoadGap, Contribute, AnswerGap, LoadQuestion, RecordAsk,
               ContributeToGap, CommitContribution, DismissGap, WriteAnswer, CloseQuestion,
               Begins, Finishes, GoesOn
      <4>2. CASE v # w
        BY <2>1, <3>2, <4>2
           DEF PersonStep, AskCopilot, LoadGap, Contribute, AnswerGap, LoadQuestion, RecordAsk,
               ContributeToGap, CommitContribution, DismissGap, WriteAnswer, CloseQuestion,
               Begins, Finishes, GoesOn
      <4>3. QED
        BY <4>1, <4>2
    <3>3. UNCHANGED chore => FALSE
      OBVIOUS
    <3>4. QED
      BY <3>1, <3>2, <3>3 DEF KnowledgeNext, RouteQuestion, NextDay, knowledgeVars
  <2>3. Stale(q) /\ question[q].nudged < chore[w].since
    BY <2>1, <2>2 DEF AloneOK
  <2>4. reminded[q] = question[q].nudged
    BY <2>1 DEF RemindersNoted
  <2>5. QED
    BY <2>3, <2>4
<1>2. QED
  BY <1>1, KnowledgeInvariant, PTL DEF KnowledgeSpec, JobsDoNothingTwice

-----------------------------------------------------------------------------
(* Requests: the invariant                                                  *)

Pictures == UNION {[fs -> SUBSET Asks] : fs \in SUBSET Features}
Acts == {"idle", "link", "update", "merge", "move", "recentre", "edit"}
ActRows == [pc : Acts, asks : SUBSET Asks, known : Pictures, touched : SUBSET Features,
            from : Features \cup {0}, into : Features \cup {0}]

\* What a worker holds on to, whoever else is at it.
ActOK(w) ==
    LET c == act[w]
    IN  /\ c.asks \subseteq asked
        /\ c.into <= made
        /\ c.pc \in {"update", "merge", "edit"} => c.from \in 1..made
        /\ c.pc \in {"update", "merge"} => c.into # 0 /\ c.from # c.into
        /\ c.pc = "edit" => DOMAIN c.known = {c.from}
        /\ c.pc = "link" => DOMAIN c.known \subseteq 1..made
        /\ c.pc = "merge" => c.asks \cap rejected = {}
        /\ c.pc = "move" => \E a \in Asks : c.asks = {a}

Right(f) == centroids[f] = Centre(under, f)

\* What a pass has of a request: what it got since is near what it was, and one
\* the pass does not know has nothing of what the pass has not filed yet.
Shown(w, f) ==
    LET c == act[w]
    IN  IF f \in DOMAIN c.known
        THEN /\ c.known[f] \subseteq Centre(under, f)
             /\ \A b \in Centre(under, f) \ c.known[f] : f \in Near(w, b)
        ELSE \A b \in Centre(under, f), a \in c.asks : topic[b] # topic[a]

\* How far a worker is with the rows, when nobody else is at them.
SoleAct(w) ==
    LET c == act[w]
    IN  /\ c.pc \in {"idle", "update", "merge", "move", "edit"} =>
              \A f \in DOMAIN centroids : Right(f)
        /\ c.pc \in {"link", "recentre"} => \A f \in DOMAIN centroids \ c.touched : Right(f)
        /\ c.pc \in {"link", "recentre"} => c.touched \subseteq DOMAIN centroids
        /\ c.pc = "link" => /\ \A a \in c.asks : under[a] = Unfiled
                            /\ \A f \in DOMAIN centroids : Shown(w, f)
        /\ c.pc = "merge" => c.asks = {a \in Asks : under[a] = c.from}
        /\ c.pc = "move" =>
              \A a \in c.asks : /\ under[a] # Unfiled
                                /\ c.from = IF under[a] = Dismissed THEN 0 ELSE under[a]
        /\ c.pc = "edit" => Exists(c.from) /\ c.known[c.from] = centroids[c.from]

Alone ==
    ~mixed => /\ \A v, w \in Curators : act[v].pc # "idle" /\ act[w].pc # "idle" => v = w
              /\ \A w \in Curators : act[w].pc # "idle" => SoleAct(w)
              /\ CentroidsFollow

RequestInv ==
    /\ RequestTypeOK
    /\ act \in [Curators -> ActRows]
    /\ \A a \in Asks : under[a] # Unfiled => a \in asked
    /\ \A w \in Curators : ActOK(w)
    /\ RejectedStaysOut
    /\ Alone

LEMMA RequestStarts == RequestInit => RequestInv
<1> SUFFICES ASSUME RequestInit PROVE RequestInv
  OBVIOUS
<1> USE RequestConstants DEF RequestInit
<1>1. RequestTypeOK
  <2>1. DOMAIN centroids = {} /\ made = 0 /\ 0 \in 0..MaxFeatures
    OBVIOUS
  <2>2. QED
    BY <2>1 DEF RequestTypeOK
<1>2. NoAct \in ActRows
  <2>1. << >> \in [{} -> SUBSET Asks]
    OBVIOUS
  <2>2. << >> \in Pictures
    BY <2>1 DEF Pictures
  <2>3. QED
    BY <2>2 DEF NoAct, ActRows, Acts
<1>3. act \in [Curators -> ActRows]
  BY <1>2
<1>4. \A w \in Curators : ActOK(w)
  BY DEF ActOK, NoAct
<1>5. RejectedStaysOut /\ CentroidsFollow
  BY DEF RejectedStaysOut, CentroidsFollow
<1>6. Alone
  BY <1>5 DEF Alone, NoAct
<1>7. QED
  BY <1>1, <1>3, <1>4, <1>5, <1>6 DEF RequestInv

LEMMA RequestTypes ==
  ASSUME RequestInv, NEW w \in Curators
  PROVE  /\ NoAct \in ActRows /\ act \in [Curators -> ActRows] /\ act[w] \in ActRows
         /\ act[w].asks \in SUBSET Asks /\ act[w].touched \in SUBSET Features
         /\ act[w].known \in Pictures
         /\ act[w].from \in Features \cup {0} /\ act[w].into \in Features \cup {0}
         /\ DOMAIN act[w].known \subseteq Features
         /\ \A f \in DOMAIN act[w].known : act[w].known[f] \subseteq Asks
         /\ made \in Nat /\ MaxFeatures \in Nat /\ made <= MaxFeatures
         /\ under \in [Asks -> {Unfiled, Dismissed} \cup DOMAIN centroids]
         /\ DOMAIN centroids \subseteq 1..made /\ DOMAIN centroids \subseteq Features
         /\ \A f \in Features : f # Unfiled /\ f # Dismissed /\ f \in Nat /\ f # 0
         /\ topic \in [Asks -> Topics]
<1>1. NoAct \in ActRows
  <2>1. << >> \in [{} -> SUBSET Asks]
    OBVIOUS
  <2>2. << >> \in Pictures
    BY <2>1 DEF Pictures
  <2>3. QED
    BY <2>2 DEF NoAct, ActRows, Acts
<1>2. act \in [Curators -> ActRows] /\ act[w] \in ActRows
  BY DEF RequestInv
<1>3. /\ act[w].asks \in SUBSET Asks /\ act[w].touched \in SUBSET Features
      /\ act[w].known \in Pictures
      /\ act[w].from \in Features \cup {0} /\ act[w].into \in Features \cup {0}
  BY <1>2 DEF ActRows
<1>4. /\ DOMAIN act[w].known \subseteq Features
      /\ \A f \in DOMAIN act[w].known : act[w].known[f] \subseteq Asks
  BY <1>3 DEF Pictures
<1>5. /\ made \in Nat /\ MaxFeatures \in Nat /\ made <= MaxFeatures
      /\ under \in [Asks -> {Unfiled, Dismissed} \cup DOMAIN centroids]
      /\ DOMAIN centroids \subseteq 1..made /\ topic \in [Asks -> Topics]
  BY RequestConstants DEF RequestInv, RequestTypeOK
<1>6. \A f \in Features : f # Unfiled /\ f # Dismissed /\ f \in Nat /\ f # 0
  BY RequestConstants DEF Features
<1>7. DOMAIN centroids \subseteq Features
  BY <1>5 DEF Features
<1>8. QED
  BY <1>1, <1>2, <1>3, <1>4, <1>5, <1>6, <1>7

\* A request whose asks and centroid stay as they are.
LEMMA StaysRight ==
  ASSUME NEW f, Right(f), centroids'[f] = centroids[f],
         \A b \in Asks : under'[b] = f <=> under[b] = f
  PROVE  Right(f)'
BY DEF Right, Centre

\* What is near a request stays so, as long as the pass has the same of it.
LEMMA NearKeeps ==
  ASSUME NEW w, NEW b, topic' = topic, act'[w].known = act[w].known
  PROVE  Near(w, b)' = Near(w, b)
BY DEF Near, Matches, Hits, About, Pairs

\* And so does what the pass has of it.
LEMMA ShownKeeps ==
  ASSUME NEW w, NEW f, Shown(w, f), topic' = topic, act'[w].known = act[w].known,
         act'[w].asks \subseteq act[w].asks,
         \A b \in Asks : under'[b] = f <=> under[b] = f
  PROVE  Shown(w, f)'
<1>1. Centre(under, f)' = Centre(under, f)
  BY DEF Centre
<1>2. \A b : Near(w, b)' = Near(w, b)
  BY NearKeeps
<1>3. QED
  BY <1>1, <1>2 DEF Shown

\* A worker whose fellows are all idle is alone with the rows.
LEMMA AloneIsSole ==
  ASSUME RequestInv, ~mixed, NEW w \in Curators, \A v \in Curators \ {w} : act[v].pc = "idle"
  PROVE  SoleAct(w)
<1>1. CASE act[w].pc = "idle"
  BY <1>1 DEF RequestInv, Alone, CentroidsFollow, SoleAct, Right
<1>2. CASE act[w].pc # "idle"
  BY <1>2 DEF RequestInv, Alone
<1>3. QED
  BY <1>1, <1>2

\* A worker that takes up, goes on with or ends its work, the others as they were.
LEMMA CuratingKeeps ==
  ASSUME RequestInv, NEW w \in Curators, NEW new \in ActRows,
         Takes(w, new) \/ (act[w].pc # "idle" /\ Goes(w, new)),
         RequestTypeOK', made <= made', asked' = asked,
         \A a \in Asks : under'[a] # Unfiled => a \in asked,
         ActOK(w)', RejectedStaysOut',
         \A v \in Curators \ {w} : act[v].pc = "merge" => act[v].asks \cap rejected' = {},
         ~mixed /\ SoleAct(w) =>
             IF new.pc = "idle" THEN \A f \in DOMAIN centroids' : Right(f)' ELSE SoleAct(w)'
  PROVE  RequestInv'
<1>1. /\ act' = [act EXCEPT ![w] = new]
      /\ ~mixed' => ~mixed /\ \A v \in Curators \ {w} : act[v].pc = "idle"
  <2>1. CASE Takes(w, new)
    BY <2>1 DEF Takes
  <2>2. CASE act[w].pc # "idle" /\ Goes(w, new)
    <3>1. act' = [act EXCEPT ![w] = new] /\ mixed' = mixed
      BY <2>2 DEF Goes
    <3>2. ~mixed => \A v \in Curators : act[v].pc # "idle" => v = w
      BY <2>2 DEF RequestInv, Alone
    <3>3. QED
      BY <3>1, <3>2
  <2>3. QED
    BY <2>1, <2>2
<1>2. /\ act \in [Curators -> ActRows] /\ act'[w] = new
      /\ act' \in [Curators -> ActRows]
      /\ \A v \in Curators \ {w} : act'[v] = act[v]
  BY <1>1 DEF RequestInv
<1>3. ASSUME NEW v \in Curators \ {w}
      PROVE  ActOK(v)'
  <2>1. ActOK(v) /\ act'[v] = act[v] /\ act[v].into \in Features \cup {0}
    BY <1>2, RequestTypes DEF RequestInv
  <2>2. /\ made \in Nat /\ made' \in Nat /\ act[v].into \in Nat
        /\ \A f \in 1..made : f \in 1..made'
    BY <2>1, RequestTypes, RequestConstants DEF RequestTypeOK, Features
  <2>3. QED
    BY <2>1, <2>2 DEF ActOK
<1>4. Alone'
  <2> SUFFICES ASSUME ~mixed'
               PROVE  /\ \A v, u \in Curators : act'[v].pc # "idle" /\ act'[u].pc # "idle" => v = u
                      /\ \A u \in Curators : act'[u].pc # "idle" => SoleAct(u)'
                      /\ CentroidsFollow'
    BY DEF Alone
  <2>1. /\ ~mixed /\ SoleAct(w)
        /\ \A v \in Curators \ {w} : act'[v].pc = "idle"
    BY <1>1, <1>2, AloneIsSole
  <2>2. CentroidsFollow'
    BY <1>2, <2>1 DEF CentroidsFollow, Right
  <2>3. QED
    BY <1>2, <2>1, <2>2
<1>5. QED
  BY <1>2, <1>3, <1>4 DEF RequestInv

\* And no row changes with it.
LEMMA QuietCuratingKeeps ==
  ASSUME RequestInv, NEW w \in Curators, NEW new \in ActRows,
         Takes(w, new) \/ (act[w].pc # "idle" /\ Goes(w, new)),
         UNCHANGED <<topic, asked, under, centroids, made, rejected>>,
         ActOK(w)',
         ~mixed /\ SoleAct(w) =>
             IF new.pc = "idle" THEN \A f \in DOMAIN centroids : Right(f) ELSE SoleAct(w)'
  PROVE  RequestInv'
<1>1. RequestTypeOK'
  <2>1. mixed' \in BOOLEAN
    BY DEF Takes, Goes, RequestInv, RequestTypeOK
  <2>2. QED
    BY <2>1 DEF RequestInv, RequestTypeOK
<1>2. made <= made'
  BY RequestTypes
<1>3. RejectedStaysOut' /\ \A v \in Curators : act[v].pc = "merge" => act[v].asks \cap rejected' = {}
  BY DEF RequestInv, RejectedStaysOut, ActOK
<1>4. \A f : Right(f) => Right(f)'
  BY DEF Right, Centre
<1>5. \A a \in Asks : under'[a] # Unfiled => a \in asked
  BY DEF RequestInv
<1>6. ~mixed /\ SoleAct(w) =>
         IF new.pc = "idle" THEN \A f \in DOMAIN centroids' : Right(f)' ELSE SoleAct(w)'
  BY <1>4
<1>7. QED
  BY <1>1, <1>2, <1>3, <1>5, <1>6, CuratingKeeps

\* What is taken up, or ended, with the rows as they are.
LEMMA ArrivingCuratorsKeep ==
  ASSUME RequestInv, NEW w \in Curators,
         \/ StartGather(w) \/ UpdateEvidence(w)
         \/ EndGather(w) \/ GatherStops(w) \/ EndMove(w)
         \/ \E s, t \in Features : StartMerge(w, s, t)
         \/ \E a \in Asks, t \in Features \cup {0} : StartMove(w, a, t)
         \/ \E f \in Features : LoadFeature(w, f)
  PROVE  RequestInv'
<1> USE RequestTypes
<1>0. act \in [Curators -> ActRows] /\ ActOK(w)
  BY DEF RequestInv
<1>1. CASE StartGather(w)
  <2> DEFINE unfiled == {a \in asked : under[a] = Unfiled}
             with == {f \in DOMAIN centroids : centroids[f] # {}}
             known == [f \in with |-> centroids[f]]
             new == [NoAct EXCEPT !.pc = "link", !.asks = unfiled, !.known = known]
  <2>1. known \in Pictures /\ unfiled \in SUBSET Asks
    <3>1. with \in SUBSET Features /\ known \in [with -> SUBSET Asks]
      BY DEF RequestInv, RequestTypeOK
    <3>2. QED
      BY <3>1 DEF RequestInv, RequestTypeOK, Pictures
  <2>2. /\ new \in ActRows /\ new.pc = "link" /\ new.asks = unfiled /\ new.known = known
        /\ new.touched = {} /\ new.into = 0
    <3> HIDE DEF unfiled, known
    <3>1. QED
      BY <2>1 DEF NoAct, ActRows, Acts
  <2>3. Takes(w, new) /\ UNCHANGED <<topic, asked, under, centroids, made, rejected>>
    BY <1>1 DEF StartGather
  <2>4. DOMAIN known = with /\ \A f \in with : known[f] = centroids[f]
    OBVIOUS
  <2> HIDE DEF new, known
  <2>5. act'[w] = new
    BY <1>0, <2>3 DEF Takes
  <2>6. ActOK(w)'
    <3>1. DOMAIN known \subseteq 1..made
      BY <2>4 DEF RequestInv, RequestTypeOK
    <3>2. QED
      BY <2>2, <2>3, <2>5, <3>1 DEF ActOK
  <2>7. SoleAct(w) => SoleAct(w)'
    <3> SUFFICES ASSUME SoleAct(w) PROVE SoleAct(w)'
      OBVIOUS
    <3>1. act[w].pc = "idle"
      BY <2>3 DEF Takes
    <3>2. \A f \in DOMAIN centroids : Right(f) /\ Right(f)'
      BY <2>3, <3>1 DEF SoleAct, Right, Centre
    <3>3. ASSUME NEW f \in DOMAIN centroids
          PROVE  Shown(w, f)'
      <4>1. Centre(under, f)' = centroids[f]
        BY <2>3, <3>2, <3>3 DEF Right, Centre
      <4>2. f \in with => known[f] = centroids[f]
        BY <2>4
      <4>3. f \notin with => centroids[f] = {}
        BY <3>3
      <4>4. QED
        BY <2>2, <2>4, <2>5, <4>1, <4>2, <4>3 DEF Shown
    <3>4. (\A f \in DOMAIN centroids : Shown(w, f))'
      BY <2>3, <3>3
    <3>5. QED
      BY <2>2, <2>3, <2>5, <3>2, <3>4 DEF SoleAct
  <2>8. QED
    BY <2>2, <2>3, <2>6, <2>7, QuietCuratingKeeps
<1>2. ASSUME NEW s \in Features, NEW t \in Features, StartMerge(w, s, t)
      PROVE  RequestInv'
  <2> DEFINE new == [NoAct EXCEPT !.pc = "update", !.from = s, !.into = t]
  <2>1. new \in ActRows /\ new.pc = "update" /\ new.from = s /\ new.into = t /\ new.asks = {}
    BY DEF NoAct, ActRows, Acts
  <2>2. /\ Takes(w, new) /\ UNCHANGED <<topic, asked, under, centroids, made, rejected>>
        /\ s \in 1..made /\ t \in 1..made /\ s # t /\ act[w].pc = "idle"
    <3>1. Takes(w, new)
      BY <1>2 DEF StartMerge
    <3>2. act[w].pc = "idle"
      BY <3>1 DEF Takes
    <3>3. QED
      BY <1>2, <3>1, <3>2 DEF StartMerge, Exists
  <2> HIDE DEF new
  <2>3. act'[w] = new
    BY <1>0, <2>2 DEF Takes
  <2>4. ActOK(w)'
    BY <2>1, <2>2, <2>3 DEF ActOK
  <2>5. SoleAct(w) => SoleAct(w)'
    BY <2>1, <2>2, <2>3 DEF SoleAct, Right, Centre
  <2>6. QED
    BY <2>1, <2>2, <2>4, <2>5, QuietCuratingKeeps
<1>3. CASE UpdateEvidence(w)
  <2> DEFINE asks == {a \in Asks : under[a] = act[w].from}
             new == [act[w] EXCEPT !.pc = "merge", !.asks = asks]
  <2>1. /\ Goes(w, new) /\ UNCHANGED <<topic, asked, under, centroids, made, rejected>>
        /\ act[w].pc = "update"
    BY <1>3 DEF UpdateEvidence
  <2>2. /\ new \in ActRows /\ new.pc = "merge" /\ new.asks = asks /\ new.from = act[w].from
        /\ new.into = act[w].into
    <3>1. asks \in SUBSET Asks
      OBVIOUS
    <3> HIDE DEF asks
    <3>2. QED
      BY <3>1 DEF ActRows, Acts
  <2> HIDE DEF new
  <2>3. act'[w] = new
    BY <1>0, <2>1 DEF Goes
  <2>4. act[w].from # Dismissed /\ act[w].from # Unfiled /\ act[w].from \in 1..made
    BY <1>0, <2>1 DEF ActOK, Features
  <2>5. asks \cap rejected = {} /\ asks \subseteq asked
    BY <2>4 DEF RequestInv, RejectedStaysOut
  <2>6. ActOK(w)'
    BY <1>0, <2>1, <2>2, <2>3, <2>5 DEF ActOK
  <2>7. SoleAct(w) => SoleAct(w)'
    BY <2>1, <2>2, <2>3 DEF SoleAct, Right, Centre
  <2>8. QED
    BY <2>1, <2>2, <2>6, <2>7, QuietCuratingKeeps
<1>4. CASE EndGather(w) \/ GatherStops(w) \/ EndMove(w)
  <2>1. /\ Goes(w, NoAct) /\ UNCHANGED <<topic, asked, under, centroids, made, rejected>>
        /\ act[w].pc \in {"link", "recentre"} /\ act[w].touched = {}
    BY <1>4 DEF EndGather, GatherStops, EndMove, Stops
  <2>2. act'[w] = NoAct
    BY <1>0, <2>1 DEF Goes
  <2>3. ActOK(w)'
    BY <2>1, <2>2 DEF ActOK, NoAct
  <2>4. SoleAct(w) => \A f \in DOMAIN centroids : Right(f)
    BY <2>1 DEF SoleAct
  <2>5. NoAct.pc = "idle" /\ NoAct \in ActRows
    BY DEF NoAct
  <2>6. QED
    BY <2>1, <2>3, <2>4, <2>5, QuietCuratingKeeps
<1>5. ASSUME NEW a \in Asks, NEW t \in Features \cup {0}, StartMove(w, a, t)
      PROVE  RequestInv'
  <2> DEFINE from == IF under[a] = Dismissed THEN 0 ELSE under[a]
             new == [NoAct EXCEPT !.pc = "move", !.asks = {a}, !.into = t, !.from = from]
  <2>1. /\ Takes(w, new) /\ UNCHANGED <<topic, asked, under, centroids, made, rejected>>
        /\ under[a] # Unfiled /\ (t = 0 \/ Exists(t)) /\ act[w].pc = "idle"
    <3>1. Takes(w, new)
      BY <1>5 DEF StartMove
    <3>2. act[w].pc = "idle"
      BY <3>1 DEF Takes
    <3>3. QED
      BY <1>5, <3>1, <3>2 DEF StartMove
  <2>2. /\ from \in Features \cup {0}
        /\ under[a] = Dismissed => from = 0
        /\ under[a] # Dismissed => from = under[a]
    BY <2>1
  <2> HIDE DEF from
  <2>3. new \in ActRows /\ new.pc = "move" /\ new.asks = {a} /\ new.into = t /\ new.from = from
    BY <2>2 DEF NoAct, ActRows, Acts
  <2> HIDE DEF new
  <2>4. act'[w] = new
    BY <1>0, <2>1 DEF Takes
  <2>5. a \in asked /\ t <= made
    BY <2>1 DEF RequestInv, Exists
  <2>6. ActOK(w)'
    BY <2>1, <2>3, <2>4, <2>5 DEF ActOK
  <2>7. SoleAct(w) => SoleAct(w)'
    BY <2>1, <2>2, <2>3, <2>4 DEF SoleAct, Right, Centre, Exists
  <2>8. QED
    BY <2>1, <2>3, <2>6, <2>7, QuietCuratingKeeps
<1>6. ASSUME NEW f \in Features, LoadFeature(w, f)
      PROVE  RequestInv'
  <2> DEFINE known == [g \in {f} |-> centroids[g]]
             new == [NoAct EXCEPT !.pc = "edit", !.from = f, !.known = known]
  <2>1. /\ Takes(w, new) /\ UNCHANGED <<topic, asked, under, centroids, made, rejected>>
        /\ Exists(f) /\ act[w].pc = "idle"
    <3>1. Takes(w, new)
      BY <1>6 DEF LoadFeature
    <3>2. act[w].pc = "idle"
      BY <3>1 DEF Takes
    <3>3. QED
      BY <1>6, <3>1, <3>2 DEF LoadFeature
  <2>2. known \in Pictures /\ DOMAIN known = {f} /\ known[f] = centroids[f]
    <3>1. known \in [{f} -> SUBSET Asks] /\ {f} \in SUBSET Features
      BY <2>1 DEF RequestInv, RequestTypeOK, Exists
    <3>2. QED
      BY <3>1 DEF Pictures
  <2> HIDE DEF known
  <2>3. /\ new \in ActRows /\ new.pc = "edit" /\ new.from = f /\ new.known = known
        /\ new.asks = {} /\ new.into = 0
    BY <2>2 DEF NoAct, ActRows, Acts
  <2> HIDE DEF new
  <2>4. act'[w] = new
    BY <1>0, <2>1 DEF Takes
  <2>5. ActOK(w)'
    BY <2>1, <2>2, <2>3, <2>4 DEF ActOK, Exists
  <2>6. SoleAct(w) => SoleAct(w)'
    BY <2>1, <2>2, <2>3, <2>4 DEF SoleAct, Right, Centre, Exists
  <2>7. QED
    BY <2>1, <2>3, <2>5, <2>6, QuietCuratingKeeps
<1>7. QED
  BY <1>1, <1>2, <1>3, <1>4, <1>5, <1>6

-----------------------------------------------------------------------------
(* Requests: what changes the rows                                          *)

\* The type of the rows after a step that moves asks to requests there are.
LEMMA RequestsTyped ==
  ASSUME RequestInv, UNCHANGED <<topic, asked>>,
         made' \in 0..MaxFeatures, DOMAIN centroids' \subseteq 1..made',
         \A f \in DOMAIN centroids' : centroids'[f] \subseteq Asks,
         under' \in [Asks -> {Unfiled, Dismissed} \cup DOMAIN centroids'],
         rejected' \subseteq asked, mixed' \in BOOLEAN
  PROVE  RequestTypeOK'
BY DEF RequestInv, RequestTypeOK

\* A centroid is a set of asks.
LEMMA CentreTyped ==
  ASSUME NEW row, NEW f
  PROVE  Centre(row, f) \subseteq Asks
BY DEF Centre

\* An ask the pass files under a request near it (_link).
LEMMA LinkKeeps ==
  ASSUME RequestInv, NEW w \in Curators, NEW a \in Asks, Link(w, a)
  PROVE  RequestInv'
<1>1. PICK f \in Nearest(w, a) :
         /\ under' = IF under[a] = Unfiled /\ Exists(f) THEN [under EXCEPT ![a] = f] ELSE under
         /\ Goes(w, [act[w] EXCEPT !.asks = @ \ {a},
                                   !.touched = IF under[a] = Unfiled /\ Exists(f) THEN @ \cup {f}
                                               ELSE @])
  BY DEF Link
<1> USE RequestTypes
<1> DEFINE files == under[a] = Unfiled /\ Exists(f)
           touched == IF files THEN act[w].touched \cup {f} ELSE act[w].touched
           new == [act[w] EXCEPT !.asks = act[w].asks \ {a}, !.touched = touched]
<1>2. /\ act[w].pc = "link" /\ a \in act[w].asks /\ Goes(w, new)
      /\ UNCHANGED <<topic, asked, centroids, made, rejected, mixed>>
      /\ f \in Features /\ f \in DOMAIN act[w].known /\ f \in Near(w, a)
  BY <1>1 DEF Link, Nearest, Near, Goes
<1>3. touched \in SUBSET Features
  BY <1>2
<1>4. /\ files => touched = act[w].touched \cup {f}
      /\ ~files => touched = act[w].touched
  OBVIOUS
<1> HIDE DEF touched
<1>5. /\ new \in ActRows /\ new.pc = "link" /\ new.asks = act[w].asks \ {a}
      /\ new.touched = touched /\ new.known = act[w].known /\ new.into = act[w].into
  BY <1>2, <1>3 DEF ActRows
<1> HIDE DEF new
<1>6. /\ files => under'[a] = f
      /\ ~files => under'[a] = under[a]
      /\ \A b \in Asks \ {a} : under'[b] = under[b]
      /\ under' \in [Asks -> {Unfiled, Dismissed} \cup DOMAIN centroids]
  BY <1>1, <1>2 DEF Exists
<1>7. act'[w] = new /\ ActOK(w) /\ act[w].asks \subseteq asked
  BY <1>2 DEF Goes, ActOK, RequestInv
<1>8. ActOK(w)'
  BY <1>2, <1>5, <1>7 DEF ActOK
<1>9. RequestTypeOK'
  BY <1>2, <1>6, RequestsTyped DEF RequestInv, RequestTypeOK
<1>10. /\ \A b \in Asks : under'[b] # Unfiled => b \in asked
       /\ RejectedStaysOut'
       /\ \A v \in Curators \ {w} : act[v].pc = "merge" => act[v].asks \cap rejected' = {}
  <2>1. \A b \in Asks : under'[b] # Unfiled => b \in asked
    BY <1>2, <1>6, <1>7 DEF RequestInv
  <2>2. RejectedStaysOut'
    BY <1>2, <1>6, RequestConstants DEF RequestInv, RequestTypeOK, RejectedStaysOut
  <2>3. QED
    BY <1>2, <2>1, <2>2 DEF RequestInv, ActOK
<1>11. SoleAct(w) => SoleAct(w)'
  <2> SUFFICES ASSUME SoleAct(w) PROVE SoleAct(w)'
    OBVIOUS
  <2>1. ASSUME NEW g \in DOMAIN centroids' \ touched
        PROVE  Right(g)'
    <3>1. g \in DOMAIN centroids \ act[w].touched /\ g \in Features /\ (files => g # f)
      BY <1>2, <1>4, <2>1
    <3>2. Right(g)
      BY <1>2, <3>1 DEF SoleAct
    <3>3. \A b \in Asks : under'[b] = g <=> under[b] = g
      BY <1>6, <3>1
    <3>4. QED
      BY <1>2, <3>2, <3>3, StaysRight
  <2>2. touched \subseteq DOMAIN centroids'
    BY <1>2, <1>4 DEF SoleAct, Exists
  <2>3. \A b \in new.asks : under'[b] = Unfiled
    BY <1>2, <1>5, <1>6 DEF SoleAct
  <2>4. ASSUME NEW g \in DOMAIN centroids
        PROVE  Shown(w, g)'
    <3>1. Shown(w, g) /\ g \in Features
      BY <1>2, <2>4 DEF SoleAct
    <3>2. /\ act'[w].known = act[w].known /\ act'[w].asks \subseteq act[w].asks
          /\ \A b : Near(w, b)' = Near(w, b)
      BY <1>2, <1>5, <1>7, NearKeeps
    <3>3. CASE files /\ g = f
      <4>1. under[a] # g /\ Centre(under, g)' = Centre(under, g) \cup {a}
        BY <1>6, <3>1, <3>3 DEF Centre
      <4>2. QED
        BY <1>2, <3>1, <3>2, <3>3, <4>1 DEF Shown
    <3>4. CASE ~(files /\ g = f)
      <4>1. \A b \in Asks : under'[b] = g <=> under[b] = g
        BY <1>6, <3>1, <3>4
      <4>2. QED
        BY <1>2, <3>1, <3>2, <4>1, ShownKeeps
    <3>5. QED
      BY <3>3, <3>4
  <2>5. QED
    BY <1>2, <1>5, <1>7, <2>1, <2>2, <2>3, <2>4 DEF SoleAct
<1>12. act[w].pc # "idle" /\ made <= made'
  BY <1>2
<1>13. QED
  BY <1>2, <1>5, <1>8, <1>9, <1>10, <1>11, <1>12, CuratingKeeps

\* A centroid that is written again, by a pass or after a move.
LEMMA RecentreKeeps ==
  ASSUME RequestInv, NEW w \in Curators, NEW f \in Features,
         RecentreTouched(w, f) \/ RecentreMoved(w, f)
  PROVE  RequestInv'
<1> USE RequestTypes
<1>0. /\ act[w].pc \in {"link", "recentre"} /\ f \in act[w].touched /\ ActOK(w)
      /\ Recentre(w, f) /\ UNCHANGED <<topic, asked, under, made, rejected>>
  BY DEF RecentreTouched, RecentreMoved, RequestInv
<1>1. CASE ~Exists(f)
  <2>1. Goes(w, NoAct) /\ UNCHANGED <<topic, asked, under, centroids, made, rejected>>
    BY <1>0, <1>1 DEF Recentre, Stops
  <2>2. act'[w] = NoAct
    BY <2>1 DEF Goes
  <2>3. ActOK(w)'
    BY <2>1, <2>2 DEF ActOK, NoAct
  <2>4. ~SoleAct(w)
    BY <1>0, <1>1 DEF SoleAct, Exists
  <2>5. QED
    BY <1>0, <2>1, <2>3, <2>4, QuietCuratingKeeps
<1>2. CASE Exists(f)
  <2> DEFINE new == [act[w] EXCEPT !.touched = act[w].touched \ {f}]
  <2>1. /\ centroids' = [centroids EXCEPT ![f] = Centre(under, f)] /\ Goes(w, new)
        /\ UNCHANGED <<topic, asked, under, made, rejected, mixed>>
    BY <1>0, <1>2 DEF Recentre, Recentred, Goes
  <2>2. /\ new \in ActRows /\ new.pc = act[w].pc /\ new.asks = act[w].asks
        /\ new.touched = act[w].touched \ {f} /\ new.known = act[w].known
        /\ new.into = act[w].into
    BY <1>0 DEF ActRows
  <2> HIDE DEF new
  <2>3. act'[w] = new
    BY <2>1 DEF Goes
  <2>4. /\ DOMAIN centroids' = DOMAIN centroids /\ centroids'[f] = Centre(under, f)
        /\ \A g \in DOMAIN centroids \ {f} : centroids'[g] = centroids[g]
    BY <1>2, <2>1 DEF Exists
  <2>5. RequestTypeOK'
    <3>1. Centre(under, f) \subseteq Asks
      BY CentreTyped
    <3>2. QED
      BY <2>1, <2>4, <3>1, RequestsTyped DEF RequestInv, RequestTypeOK
  <2>6. ActOK(w)'
    BY <1>0, <2>1, <2>2, <2>3 DEF ActOK
  <2>7. /\ \A b \in Asks : under'[b] # Unfiled => b \in asked
        /\ RejectedStaysOut'
        /\ \A v \in Curators \ {w} : act[v].pc = "merge" => act[v].asks \cap rejected' = {}
    BY <2>1 DEF RequestInv, RejectedStaysOut, ActOK
  <2>8. SoleAct(w) => SoleAct(w)'
    <3> SUFFICES ASSUME SoleAct(w) PROVE SoleAct(w)'
      OBVIOUS
    <3>1. ASSUME NEW g \in DOMAIN centroids' \ new.touched
          PROVE  Right(g)'
      <4>1. CASE g = f
        BY <2>1, <2>4, <4>1 DEF Right, Centre
      <4>2. CASE g # f
        <5>1. Right(g) /\ centroids'[g] = centroids[g]
          BY <1>0, <2>2, <2>4, <3>1, <4>2 DEF SoleAct
        <5>2. QED
          BY <2>1, <5>1, StaysRight
      <4>3. QED
        BY <4>1, <4>2
    <3>2. new.touched \subseteq DOMAIN centroids'
      BY <1>0, <2>2, <2>4 DEF SoleAct
    <3>3. CASE act[w].pc = "link"
      <4>1. \A b \in new.asks : under'[b] = Unfiled
        BY <2>1, <2>2, <3>3 DEF SoleAct
      <4>2. \A g \in DOMAIN centroids' : Shown(w, g)'
        BY <2>1, <2>2, <2>3, <2>4, <3>3, ShownKeeps DEF SoleAct
      <4>3. QED
        BY <2>2, <2>3, <3>1, <3>2, <3>3, <4>1, <4>2 DEF SoleAct
    <3>4. CASE act[w].pc = "recentre"
      BY <2>2, <2>3, <3>1, <3>2, <3>4 DEF SoleAct
    <3>5. QED
      BY <1>0, <3>3, <3>4
  <2>9. made <= made' /\ act[w].pc # "idle"
    BY <1>0, <2>1
  <2>10. QED
    BY <2>1, <2>2, <2>5, <2>6, <2>7, <2>8, <2>9, CuratingKeeps
<1>3. QED
  BY <1>1, <1>2

\* A request that is made, with the asks that are still unfiled (_create).
LEMMA GroupKeeps ==
  ASSUME RequestInv, NEW w \in Curators, NEW t \in Topics, CreateGroup(w, t)
  PROVE  RequestInv'
<1> USE RequestTypes
<1> DEFINE group == {a \in act[w].asks : topic[a] = t}
           f == made + 1
           new == IF group = act[w].asks THEN NoAct
                  ELSE [act[w] EXCEPT !.asks = act[w].asks \ group]
<1>1. /\ act[w].pc = "link" /\ act[w].touched = {} /\ group # {} /\ f \in Features
      /\ made' = f /\ under' = Grouped(group, f) /\ Goes(w, new)
      /\ centroids' = [g \in DOMAIN centroids \cup {f} |-> IF g = f THEN group ELSE centroids[g]]
      /\ UNCHANGED <<topic, asked, rejected, mixed>>
  BY DEF CreateGroup, Goes, About
<1>2. group \in SUBSET act[w].asks /\ group \in SUBSET Asks
  OBVIOUS
<1>3. \A a \in Asks : under'[a] = IF a \in group /\ under[a] = Unfiled THEN f ELSE under[a]
  BY <1>1 DEF Grouped
<1>4. /\ DOMAIN centroids' = DOMAIN centroids \cup {f} /\ centroids'[f] = group
      /\ \A g \in DOMAIN centroids : g # f /\ centroids'[g] = centroids[g]
  BY <1>1
<1>5. /\ new \in ActRows /\ new.pc \in {"idle", "link"} /\ new.asks = act[w].asks \ group
      /\ new.touched = {}
      /\ new.pc = "link" => new.known = act[w].known
      /\ new.into <= act[w].into
  <2>1. CASE group = act[w].asks
    <3>1. new = NoAct
      BY <2>1
    <3> HIDE DEF new
    <3>2. new.pc = "idle" /\ new.asks = {} /\ new.touched = {} /\ new.into = 0
      BY <3>1 DEF NoAct
    <3>3. act[w].into \in Nat
      BY DEF Features
    <3>4. QED
      BY <2>1, <3>1, <3>2, <3>3
  <2>2. CASE group # act[w].asks
    <3>1. new = [act[w] EXCEPT !.asks = act[w].asks \ group]
      BY <2>2
    <3> HIDE DEF new, group
    <3>2. /\ new \in ActRows /\ new.pc = "link" /\ new.asks = act[w].asks \ group
          /\ new.touched = {} /\ new.known = act[w].known /\ new.into = act[w].into
      BY <1>1, <3>1 DEF ActRows
    <3>3. act[w].into \in Nat
      BY DEF Features
    <3>4. QED
      BY <3>2, <3>3
  <2>3. QED
    BY <2>1, <2>2
<1> HIDE DEF new
<1>6. act'[w] = new /\ ActOK(w) /\ act[w].asks \subseteq asked
  BY <1>1 DEF Goes, ActOK, RequestInv
<1>7. f \in Nat /\ made <= made' /\ f # Unfiled /\ f # Dismissed /\ f \in 0..MaxFeatures
  BY <1>1 DEF Features
<1>8. ActOK(w)'
  <2>1. new.into <= made'
    BY <1>1, <1>5, <1>6, <1>7 DEF ActOK, ActRows, Features
  <2>2. QED
    BY <1>1, <1>5, <1>6, <2>1 DEF ActOK
<1>9. RequestTypeOK'
  <2>1. under' \in [Asks -> {Unfiled, Dismissed} \cup DOMAIN centroids']
    BY <1>1, <1>3, <1>4 DEF Grouped
  <2>2. DOMAIN centroids' \subseteq 1..made'
    BY <1>1, <1>4, <1>7
  <2>3. \A g \in DOMAIN centroids' : centroids'[g] \subseteq Asks
    BY <1>4 DEF RequestInv, RequestTypeOK
  <2>4. QED
    BY <1>1, <1>7, <2>1, <2>2, <2>3, RequestsTyped DEF RequestInv, RequestTypeOK
<1>10. /\ \A b \in Asks : under'[b] # Unfiled => b \in asked
       /\ RejectedStaysOut'
       /\ \A v \in Curators \ {w} : act[v].pc = "merge" => act[v].asks \cap rejected' = {}
  <2> HIDE DEF group
  <2>1. \A b \in Asks : under'[b] # Unfiled => b \in asked
    BY <1>2, <1>3, <1>6 DEF RequestInv
  <2>2. RejectedStaysOut'
    BY <1>1, <1>3, RequestConstants DEF RequestInv, RequestTypeOK, RejectedStaysOut
  <2>3. QED
    BY <1>1, <2>1, <2>2 DEF RequestInv, ActOK
<1>11. SoleAct(w) => IF new.pc = "idle" THEN \A g \in DOMAIN centroids' : Right(g)' ELSE SoleAct(w)'
  <2> SUFFICES ASSUME SoleAct(w)
               PROVE  IF new.pc = "idle" THEN \A g \in DOMAIN centroids' : Right(g)' ELSE SoleAct(w)'
    OBVIOUS
  <2>1. \A a \in group : under[a] = Unfiled /\ under'[a] = f /\ a \in Asks /\ topic[a] = t
    BY <1>1, <1>2, <1>3 DEF SoleAct
  <2>2. \A a \in Asks \ group : under'[a] = under[a] /\ under[a] # f
    BY <1>3, <1>4, <1>7
  <2>3. ASSUME NEW g \in DOMAIN centroids'
        PROVE  Right(g)'
    <3>1. CASE g = f
      <4>1. {b \in Asks : under'[b] = g} = group
        BY <2>1, <2>2, <3>1
      <4>2. centroids'[g] = group
        BY <1>4, <3>1
      <4>3. QED
        BY <4>1, <4>2 DEF Right, Centre
    <3>2. CASE g # f
      <4>1. Right(g) /\ centroids'[g] = centroids[g]
        BY <1>1, <1>4, <2>3, <3>2 DEF SoleAct
      <4>2. \A b \in Asks : under'[b] = g <=> under[b] = g
        <5>1. g # Unfiled
          BY <1>4, <2>3, <3>2
        <5>2. QED
          BY <2>1, <2>2, <3>2, <5>1
      <4>3. QED
        BY <1>1, <4>1, <4>2, StaysRight
    <3>3. QED
      BY <3>1, <3>2
  <2>4. CASE new.pc = "idle"
    BY <2>3, <2>4
  <2>5. CASE new.pc = "link"
    <3>1. \A b \in new.asks : under'[b] = Unfiled
      BY <1>1, <1>5, <2>2 DEF SoleAct
    <3>2. ASSUME NEW g \in DOMAIN centroids'
          PROVE  Shown(w, g)'
      <4>1. CASE g = f
        <5>1. g \notin DOMAIN new.known
          BY <1>1, <1>5, <1>6, <2>5, <4>1 DEF ActOK
        <5>2. Centre(under, g)' = group
          BY <2>1, <2>2, <4>1 DEF Centre
        <5>3. \A b \in group, c \in new.asks : topic'[b] # topic'[c]
          BY <1>1, <1>5, <2>1
        <5>4. QED
          BY <1>6, <5>1, <5>2, <5>3 DEF Shown
      <4>2. CASE g # f
        <5>1. g \in DOMAIN centroids /\ g # Unfiled
          BY <1>4, <3>2, <4>2
        <5>2. \A b \in Asks : under'[b] = g <=> under[b] = g
          BY <2>1, <2>2, <4>2, <5>1
        <5>3. QED
          BY <1>1, <1>5, <1>6, <2>5, <5>1, <5>2, ShownKeeps DEF SoleAct
      <4>3. QED
        BY <4>1, <4>2
    <3>3. QED
      BY <1>5, <1>6, <2>3, <2>5, <3>1, <3>2 DEF SoleAct
  <2>6. QED
    BY <1>5, <2>4, <2>5
<1>12. act[w].pc # "idle"
  BY <1>1
<1>13. QED
  BY <1>1, <1>5, <1>7, <1>8, <1>9, <1>10, <1>11, <1>12, CuratingKeeps

\* What is stopped with nothing to put right.
LEMMA StoppingKeeps ==
  ASSUME RequestInv, NEW w \in Curators, act[w].pc # "idle", Stops(w),
         UNCHANGED <<topic, asked, under, centroids, made, rejected>>,
         ~mixed /\ SoleAct(w) => \A f \in DOMAIN centroids : Right(f)
  PROVE  RequestInv'
<1>1. Goes(w, NoAct) /\ NoAct \in ActRows /\ act'[w] = NoAct /\ NoAct.pc = "idle"
  BY RequestTypes DEF Stops, Goes, NoAct
<1>2. ActOK(w)'
  BY <1>1, RequestTypes DEF ActOK, NoAct
<1>3. QED
  BY <1>1, <1>2, QuietCuratingKeeps

\* The source of a merge goes, and its asks come to the survivor (merge_requests).
LEMMA MergeKeeps ==
  ASSUME RequestInv, NEW w \in Curators, Merge(w)
  PROVE  RequestInv'
<1> USE RequestTypes
<1> DEFINE s == act[w].from
           t == act[w].into
           asks == act[w].asks
<1>0. /\ act[w].pc = "merge" /\ Stops(w) /\ ActOK(w) /\ UNCHANGED <<topic, asked, made, rejected, mixed>>
      /\ s \in 1..made /\ t # 0 /\ s # t /\ asks \cap rejected = {} /\ asks \subseteq asked
  BY DEF Merge, Stops, Goes, RequestInv, ActOK
<1>1. CASE ~Exists(t)
  <2>1. UNCHANGED <<under, centroids>>
    BY <1>1 DEF Merge
  <2>2. SoleAct(w) => \A f \in DOMAIN centroids : Right(f)
    BY <1>0 DEF SoleAct
  <2>3. QED
    BY <1>0, <2>1, <2>2, StoppingKeeps
<1>2. CASE Exists(t)
  <2>1. /\ under' = AfterMerge(w)
        /\ centroids' = [f \in DOMAIN centroids \ {s} |->
                            IF f = t THEN MergedCentre(w) ELSE centroids[f]]
    BY <1>2 DEF Merge
  <2>2. \A a \in Asks : under'[a] = IF a \in asks THEN t ELSE IF under[a] = s THEN Unfiled ELSE under[a]
    BY <2>1 DEF AfterMerge
  <2>3. /\ DOMAIN centroids' = DOMAIN centroids \ {s} /\ t \in DOMAIN centroids'
        /\ centroids'[t] = Centre(AfterMerge(w), t)
        /\ \A f \in DOMAIN centroids' \ {t} : centroids'[f] = centroids[f]
    BY <1>0, <1>2, <2>1 DEF Exists, MergedCentre
  <2> HIDE DEF s, t, asks
  <2>4. t \in Features /\ s \in Features /\ asks \subseteq Asks
    BY <1>0 DEF s, t, asks, Features
  <2>5. RequestTypeOK'
    <3>1. under' \in [Asks -> {Unfiled, Dismissed} \cup DOMAIN centroids']
      <4>1. \A a \in Asks : under'[a] \in {Unfiled, Dismissed} \cup DOMAIN centroids'
        BY <2>2, <2>3
      <4>2. under' = [a \in Asks |-> under'[a]]
        BY <2>1 DEF AfterMerge
      <4>3. QED
        BY <4>1, <4>2
    <3>2. \A f \in DOMAIN centroids' : centroids'[f] \subseteq Asks
      BY <2>3, CentreTyped DEF RequestInv, RequestTypeOK
    <3>3. QED
      BY <1>0, <2>3, <3>1, <3>2, RequestsTyped DEF RequestInv, RequestTypeOK
  <2>6. /\ \A a \in Asks : under'[a] # Unfiled => a \in asked
        /\ RejectedStaysOut'
        /\ \A v \in Curators \ {w} : act[v].pc = "merge" => act[v].asks \cap rejected' = {}
    <3>1. \A a \in Asks : under'[a] # Unfiled => a \in asked
      BY <1>0, <2>2 DEF RequestInv
    <3>2. ASSUME NEW a \in rejected
          PROVE  under'[a] = Dismissed
      <4>1. a \in Asks /\ under[a] = Dismissed /\ a \notin asks
        BY <1>0 DEF RequestInv, RequestTypeOK, RejectedStaysOut
      <4>2. QED
        BY <2>2, <2>4, <4>1
    <3>3. QED
      BY <1>0, <3>1, <3>2 DEF RequestInv, RejectedStaysOut, ActOK
  <2>7. SoleAct(w) => \A f \in DOMAIN centroids' : Right(f)'
    <3> SUFFICES ASSUME SoleAct(w), NEW f \in DOMAIN centroids' PROVE Right(f)'
      OBVIOUS
    <3>1. asks = {a \in Asks : under[a] = s}
      BY <1>0 DEF SoleAct, s, asks
    <3>2. CASE f = t
      <4>1. Centre(AfterMerge(w), t) = {a \in Asks : under'[a] = t}
        BY <2>1 DEF Centre
      <4>2. QED
        BY <2>3, <3>2, <4>1 DEF Right, Centre
    <3>3. CASE f # t
      <4>1. Right(f) /\ centroids'[f] = centroids[f] /\ f # s /\ f \in Features
        BY <1>0, <2>3, <3>3 DEF SoleAct
      <4>2. \A b \in Asks : under'[b] = f <=> under[b] = f
        BY <2>2, <2>4, <3>1, <3>3, <4>1
      <4>3. QED
        BY <1>0, <4>1, <4>2, StaysRight
    <3>4. QED
      BY <3>2, <3>3
  <2>8. /\ Goes(w, NoAct) /\ NoAct \in ActRows /\ act'[w] = NoAct /\ NoAct.pc = "idle"
        /\ made <= made' /\ act[w].pc # "idle"
    BY <1>0 DEF Stops, Goes, NoAct
  <2>9. ActOK(w)'
    BY <1>0, <2>8 DEF ActOK, NoAct
  <2>10. QED
    BY <1>0, <2>5, <2>6, <2>7, <2>8, <2>9, CuratingKeeps
<1>3. QED
  BY <1>1, <1>2

\* An ask that is put under another request, or under none (the evidence view).
LEMMA MoveKeeps ==
  ASSUME RequestInv, NEW w \in Curators, Move(w)
  PROVE  RequestInv'
<1> USE RequestTypes
<1>1. PICK a \in Asks : act[w].asks = {a} /\ (CHOOSE b \in act[w].asks : TRUE) = a
  <2>1. PICK a \in Asks : act[w].asks = {a}
    BY DEF Move, RequestInv, ActOK
  <2>2. (CHOOSE b \in act[w].asks : TRUE) \in act[w].asks
    BY <2>1
  <2>3. QED
    BY <2>1, <2>2
<1> DEFINE t == act[w].into
<1>2. /\ act[w].pc = "move" /\ ~Held(a) /\ ActOK(w) /\ a \in asked /\ t \in Features \cup {0}
      /\ UNCHANGED <<topic, asked, centroids, made>>
  BY <1>1 DEF Move, RequestInv, ActOK
<1>3. CASE under[a] = Unfiled \/ (t # 0 /\ ~Exists(t))
  <2>1. UNCHANGED <<under, rejected>> /\ Stops(w)
    BY <1>1, <1>3 DEF Move
  <2>2. SoleAct(w) => \A f \in DOMAIN centroids : Right(f)
    BY <1>2 DEF SoleAct
  <2>3. QED
    BY <1>2, <2>1, <2>2, StoppingKeeps
<1>4. CASE ~(under[a] = Unfiled \/ (t # 0 /\ ~Exists(t)))
  <2> DEFINE touched == {t, act[w].from} \ {0}
             new == [act[w] EXCEPT !.pc = "recentre", !.touched = touched]
  <2>1. /\ under' = [under EXCEPT ![a] = Place(t)]
        /\ rejected' = IF t = 0 THEN rejected \cup {a} ELSE rejected \ {a}
        /\ Goes(w, new)
    BY <1>1, <1>4 DEF Move
  <2>2. touched \in SUBSET Features
    BY <1>2
  <2> HIDE DEF touched
  <2>3. /\ new \in ActRows /\ new.pc = "recentre" /\ new.touched = touched /\ new.asks = {a}
        /\ new.into = t
    BY <1>1, <2>2 DEF ActRows, Acts
  <2> HIDE DEF new
  <2>4. act'[w] = new /\ mixed' = mixed
    BY <2>1 DEF Goes
  <2>5. /\ under'[a] = Place(t) /\ \A b \in Asks \ {a} : under'[b] = under[b]
        /\ t = 0 => Place(t) = Dismissed
        /\ t # 0 => Place(t) = t /\ t \in DOMAIN centroids
    BY <1>4, <2>1 DEF Place, Exists
  <2>6. RequestTypeOK'
    <3>1. under' \in [Asks -> {Unfiled, Dismissed} \cup DOMAIN centroids']
      BY <1>2, <2>1, <2>5
    <3>2. rejected' \subseteq asked
      BY <1>2, <2>1 DEF RequestInv, RequestTypeOK
    <3>3. QED
      BY <1>2, <2>4, <3>1, <3>2, RequestsTyped DEF RequestInv, RequestTypeOK
  <2>7. ActOK(w)'
    BY <1>2, <2>3, <2>4 DEF ActOK
  <2>8. \A b \in Asks : under'[b] # Unfiled => b \in asked
    BY <1>2, <2>5 DEF RequestInv
  <2>9. RejectedStaysOut'
    BY <2>1, <2>5 DEF RequestInv, RequestTypeOK, RejectedStaysOut
  <2>10. \A v \in Curators \ {w} : act[v].pc = "merge" => act[v].asks \cap rejected' = {}
    BY <1>2, <2>1 DEF RequestInv, ActOK, Held
  <2>11. SoleAct(w) => SoleAct(w)'
    <3> SUFFICES ASSUME SoleAct(w) PROVE SoleAct(w)'
      OBVIOUS
    <3>1. under[a] # Unfiled /\ act[w].from = IF under[a] = Dismissed THEN 0 ELSE under[a]
      BY <1>1, <1>2 DEF SoleAct
    <3>2. ASSUME NEW f \in DOMAIN centroids' \ touched
          PROVE  Right(f)'
      <4>1. Right(f) /\ f \in Features /\ f # t /\ f # act[w].from
        BY <1>2, <3>2 DEF SoleAct, touched
      <4>2. under[a] # f /\ under'[a] # f
        BY <2>5, <3>1, <4>1
      <4>3. \A b \in Asks : under'[b] = f <=> under[b] = f
        BY <2>5, <4>2
      <4>4. QED
        BY <1>2, <4>1, <4>3, StaysRight
    <3>3. touched \subseteq DOMAIN centroids'
      <4>1. act[w].from = 0 \/ act[w].from \in DOMAIN centroids
        BY <3>1
      <4>2. QED
        BY <1>2, <2>5, <4>1 DEF touched
    <3>4. QED
      BY <2>3, <2>4, <3>2, <3>3 DEF SoleAct
  <2>12. act[w].pc # "idle" /\ made <= made'
    BY <1>2
  <2>13. QED
    BY <1>2, <2>1, <2>3, <2>6, <2>7, <2>8, <2>9, <2>10, <2>11, <2>12, CuratingKeeps
<1>5. QED
  BY <1>3, <1>4

\* An edit that saves the centroid it had loaded with the rest of the row.
LEMMA SavingKeeps ==
  ASSUME RequestInv, NEW w \in Curators, SaveFeature(w)
  PROVE  RequestInv'
<1> USE RequestTypes
<1> DEFINE e == act[w].from
<1>1. /\ act[w].pc = "edit" /\ Stops(w) /\ ActOK(w)
      /\ UNCHANGED <<topic, asked, under, made, rejected, mixed>>
      /\ centroids' = [f \in DOMAIN centroids \cup {e} |->
                          IF f = e THEN act[w].known[f] ELSE centroids[f]]
  BY DEF SaveFeature, RequestInv, Stops, Goes
<1>2. e \in 1..made /\ e \in DOMAIN act[w].known
  BY <1>1 DEF ActOK
<1>3. /\ DOMAIN centroids' = DOMAIN centroids \cup {e} /\ centroids'[e] = act[w].known[e]
      /\ \A f \in DOMAIN centroids \ {e} : centroids'[f] = centroids[f]
  BY <1>1
<1> HIDE DEF e
<1>4. RequestTypeOK'
  <2>1. \A f \in DOMAIN centroids' : centroids'[f] \subseteq Asks
    BY <1>2, <1>3 DEF RequestInv, RequestTypeOK
  <2>2. QED
    BY <1>1, <1>2, <1>3, <2>1, RequestsTyped DEF RequestInv, RequestTypeOK
<1>5. ASSUME SoleAct(w), NEW f \in DOMAIN centroids'
      PROVE  Right(f)'
  <2>1. Exists(e) /\ act[w].known[e] = centroids[e] /\ \A g \in DOMAIN centroids : Right(g)
    BY <1>1, <1>5 DEF SoleAct, e
  <2>2. Right(f) /\ centroids'[f] = centroids[f]
    BY <1>3, <2>1 DEF Exists
  <2>3. QED
    BY <1>1, <2>2, StaysRight
<1>6. /\ Goes(w, NoAct) /\ act'[w] = NoAct /\ NoAct.pc = "idle" /\ made <= made' /\ act[w].pc # "idle"
  BY <1>1 DEF Stops, Goes, NoAct
<1>7. ActOK(w)'
  BY <1>1, <1>6 DEF ActOK, NoAct
<1>8. /\ \A a \in Asks : under'[a] # Unfiled => a \in asked
      /\ RejectedStaysOut'
      /\ \A v \in Curators \ {w} : act[v].pc = "merge" => act[v].asks \cap rejected' = {}
  BY <1>1 DEF RequestInv, RejectedStaysOut, ActOK
<1>9. QED
  BY <1>1, <1>4, <1>5, <1>6, <1>7, <1>8, CuratingKeeps

\* A worker that dies leaves what it wrote, and counts as another one.
LEMMA DyingKeeps ==
  ASSUME RequestInv, NEW w \in Curators, GatherDies(w)
  PROVE  RequestInv'
<1>1. /\ act' = [act EXCEPT ![w] = NoAct] /\ mixed' = TRUE /\ NoAct \in ActRows
      /\ UNCHANGED <<topic, asked, under, centroids, made, rejected>>
  BY RequestTypes DEF GatherDies
<1>2. /\ act' \in [Curators -> ActRows] /\ act'[w] = NoAct
      /\ \A v \in Curators \ {w} : act'[v] = act[v]
  BY <1>1, RequestTypes
<1>3. \A v \in Curators : ActOK(v)'
  <2>1. ActOK(w)'
    BY <1>1, <1>2, RequestTypes DEF ActOK, NoAct
  <2>2. \A v \in Curators \ {w} : ActOK(v)'
    BY <1>1, <1>2 DEF RequestInv, ActOK
  <2>3. QED
    BY <2>1, <2>2
<1>4. RequestTypeOK' /\ RejectedStaysOut' /\ Alone'
  BY <1>1 DEF RequestInv, RequestTypeOK, RejectedStaysOut, Alone
<1>5. QED
  BY <1>1, <1>2, <1>3, <1>4 DEF RequestInv

\* What is asked anew waits for the next pass.
LEMMA ArisingKeeps ==
  ASSUME RequestInv, NEW a \in Asks, Arises(a)
  PROVE  RequestInv'
<1>1. /\ asked' = asked \cup {a}
      /\ UNCHANGED <<topic, under, centroids, made, act, rejected, mixed>>
  BY DEF Arises
<1>2. RequestTypeOK' /\ RejectedStaysOut' /\ \A w \in Curators : ActOK(w)'
  BY <1>1 DEF RequestInv, RequestTypeOK, RejectedStaysOut, ActOK
<1>3. Alone'
  <2>1. \A w \in Curators : SoleAct(w) => SoleAct(w)'
    <3>1. \A w \in Curators, f \in DOMAIN centroids : Shown(w, f) => Shown(w, f)'
      BY <1>1, ShownKeeps
    <3>2. QED
      BY <1>1, <3>1 DEF SoleAct, Right, Centre, Exists
  <2>2. CentroidsFollow => CentroidsFollow'
    BY <1>1 DEF CentroidsFollow, Centre
  <2>3. QED
    BY <1>1, <2>1, <2>2 DEF RequestInv, Alone
<1>4. QED
  BY <1>1, <1>2, <1>3 DEF RequestInv

\* Every step of the feature requests keeps the invariant.
LEMMA RequestStep == RequestInv /\ [RequestNext]_requestVars => RequestInv'
<1> SUFFICES ASSUME RequestInv, [RequestNext]_requestVars PROVE RequestInv'
  OBVIOUS
<1>1. ASSUME NEW w \in Curators, StartGather(w) \/ GatherStep(w)
      PROVE  RequestInv'
  BY <1>1, ArrivingCuratorsKeep, LinkKeeps, RecentreKeeps, GroupKeeps DEF GatherStep
<1>2. ASSUME NEW w \in Curators, CuratorStep(w)
      PROVE  RequestInv'
  BY <1>2, ArrivingCuratorsKeep, MergeKeeps, MoveKeeps, RecentreKeeps, SavingKeeps
     DEF CuratorStep
<1>3. CASE UNCHANGED requestVars
  <2>1. \A w \in Curators, f \in DOMAIN centroids : Shown(w, f) => Shown(w, f)'
    BY <1>3, ShownKeeps DEF requestVars
  <2>2. \A w \in Curators : SoleAct(w) => SoleAct(w)'
    BY <1>3, <2>1 DEF requestVars, SoleAct, Right, Centre, Exists
  <2>3. QED
    BY <1>3, <2>2 DEF requestVars, RequestInv, RequestTypeOK, ActOK, RejectedStaysOut, Alone,
       Centre, CentroidsFollow
<1>4. QED
  BY <1>1, <1>2, <1>3, DyingKeeps, ArisingKeeps DEF RequestNext

\* The feature requests of an organisation (requests/gather.py, views.py): what is
\* invariant of them.
THEOREM RequestInvariant == RequestSpec => []RequestInv
  BY RequestStarts, RequestStep, PTL DEF RequestSpec

\* A request's centroid is that of its asks, and what a person dismissed no pass
\* files again (recentre; views.py).
THEOREM EvidenceStaysRight == RequestSpec => []EvidenceIsRight
<1>1. RequestInv => EvidenceIsRight
  <2>1. RequestInv => CentroidsFollow
    BY DEF RequestInv, Alone, CentroidsFollow
  <2>2. QED
    BY <2>1 DEF RequestInv, EvidenceIsRight
<1>2. QED
  BY <1>1, RequestInvariant, PTL

\* A centroid half of whose asks are about a topic is near it: the others are no
\* more, and at most one another's pairs.
LEMMA HalfIsNear ==
  ASSUME NEW c \in SUBSET Asks, NEW t, About(c, t) # {},
         2 * Cardinality(About(c, t)) >= Cardinality(c)
  PROVE  Matches(c, t)
<1> DEFINE T == About(c, t)
           U == c \ T
           n == Cardinality(T)
           m == Cardinality(U)
<1>1. IsFiniteSet(c) /\ IsFiniteSet(T) /\ IsFiniteSet(U) /\ T \subseteq c
  <2>1. T \in SUBSET c /\ U \in SUBSET c
    BY DEF About
  <2>2. QED
    BY <2>1, FS_Subset, RequestConstants
<1>2. n \in Nat /\ m \in Nat /\ Cardinality(c) = n + m
  <2>1. c \cap T = T
    BY <1>1
  <2>2. Cardinality(U) = Cardinality(c) - Cardinality(T)
    BY <1>1, <2>1, FS_Difference
  <2>3. n \in Nat /\ m \in Nat /\ Cardinality(c) \in Nat
    BY <1>1, FS_CardinalityType
  <2>4. QED
    BY <2>2, <2>3
<1>3. m <= n
  BY <1>2
<1>4. Pairs(c) \subseteq (T \X T) \cup (U \X U)
  BY DEF Pairs, About
<1> HIDE DEF T, U
<1>5. /\ IsFiniteSet(T \X T) /\ Cardinality(T \X T) = n * n
      /\ IsFiniteSet(U \X U) /\ Cardinality(U \X U) = m * m
  BY <1>1, FS_Product
<1>6. /\ IsFiniteSet((T \X T) \cup (U \X U))
      /\ Cardinality((T \X T) \cup (U \X U)) <= n * n + m * m
  <2>1. (T \X T) \cap (U \X U) \in SUBSET (T \X T)
    OBVIOUS
  <2>2. Cardinality((T \X T) \cap (U \X U)) \in Nat
    BY <1>5, <2>1, FS_Subset, FS_CardinalityType
  <2>3. n * n \in Nat /\ m * m \in Nat
    BY <1>5, FS_CardinalityType
  <2>4. /\ IsFiniteSet((T \X T) \cup (U \X U))
        /\ Cardinality((T \X T) \cup (U \X U)) =
              n * n + m * m - Cardinality((T \X T) \cap (U \X U))
    BY <1>5, FS_Union
  <2>5. QED
    BY <2>2, <2>3, <2>4
<1>7. Cardinality(Pairs(c)) \in Nat /\ Cardinality(Pairs(c)) <= n * n + m * m
  <2>1. /\ Cardinality(Pairs(c)) <= Cardinality((T \X T) \cup (U \X U))
        /\ Cardinality(Pairs(c)) \in Nat /\ Cardinality((T \X T) \cup (U \X U)) \in Nat
    BY <1>4, <1>6, FS_Subset, FS_CardinalityType
  <2>2. n * n \in Nat /\ m * m \in Nat
    BY <1>5, FS_CardinalityType
  <2>3. QED
    BY <1>6, <2>1, <2>2
<1>8. m * m <= n * n /\ n * n \in Nat /\ m * m \in Nat
  <2> HIDE DEF n, m
  <2>1. m * m <= n * m /\ n * m <= n * n
    BY <1>2, <1>3
  <2>2. n * n \in Nat /\ m * m \in Nat /\ n * m \in Nat
    BY <1>2
  <2>3. QED
    BY <2>1, <2>2
<1>9. Hits(c, t) = n * n
  BY DEF Hits, T
<1> HIDE DEF n, m
<1>10. 25 * Hits(c, t) >= 9 * Cardinality(Pairs(c))
  <2> DEFINE N == n * n
             M == m * m
  <2>1. N \in Nat /\ M \in Nat /\ M <= N /\ Cardinality(Pairs(c)) <= N + M
    BY <1>7, <1>8
  <2> HIDE DEF N, M
  <2>2. 25 * N >= 9 * Cardinality(Pairs(c))
    BY <1>7, <2>1
  <2>3. QED
    BY <1>9, <2>2 DEF N
<1>11. QED
  BY <1>10 DEF Matches

\* No ask loses its place and no request is raised a second time on what one is
\* mostly about, with nobody else at it (merge_requests, gather).
THEOREM MergesAreNotUndone == RequestSpec => MergesStay
<1>1. RequestInv /\ RequestInv' /\ [RequestNext]_requestVars =>
         (~mixed' =>
            /\ \A a \in Asks : under[a] # Unfiled => under'[a] # Unfiled
            /\ made' > made => \A f \in DOMAIN centroids, a \in centroids'[made'] :
                                  ~MostlyAbout(f, topic[a]))
  <2> SUFFICES ASSUME RequestInv, RequestInv', [RequestNext]_requestVars, ~mixed'
               PROVE  /\ \A a \in Asks : under[a] # Unfiled => under'[a] # Unfiled
                      /\ made' > made => \A f \in DOMAIN centroids, a \in centroids'[made'] :
                                            ~MostlyAbout(f, topic[a])
    OBVIOUS
  <2>0. /\ under \in [Asks -> {Unfiled, Dismissed} \cup DOMAIN centroids] /\ made \in Nat
        /\ DOMAIN centroids \subseteq Features /\ DOMAIN centroids \subseteq 1..made
        /\ \A f \in Features : f # Unfiled /\ f # Dismissed /\ f \in Nat /\ f # 0
        /\ act \in [Curators -> ActRows]
    BY RequestConstants DEF RequestInv, RequestTypeOK, Features
  <2>1. CASE UNCHANGED <<under, made>>
    BY <2>0, <2>1
  <2>2. ASSUME NEW w \in Curators, NEW a \in Asks, Link(w, a)
        PROVE  made' = made /\ \A b \in Asks : under[b] # Unfiled => under'[b] # Unfiled
    <3>1. made' = made /\ \E f \in Nearest(w, a) :
             under' = IF under[a] = Unfiled /\ Exists(f) THEN [under EXCEPT ![a] = f] ELSE under
      BY <2>2 DEF Link
    <3>2. QED
      BY <2>0, <3>1
  <2>3. ASSUME NEW w \in Curators, NEW t \in Topics, CreateGroup(w, t)
        PROVE  /\ \A a \in Asks : under[a] # Unfiled => under'[a] # Unfiled
               /\ \A f \in DOMAIN centroids, a \in centroids'[made'] : ~MostlyAbout(f, topic[a])
    <3>1. /\ act[w].pc = "link" /\ mixed' = mixed /\ SoleAct(w)
          /\ \A a \in act[w].asks : Near(w, a) = {}
      BY <2>3 DEF CreateGroup, Goes, RequestInv, Alone
    <3>2. \A a \in Asks : under[a] # Unfiled => under'[a] = under[a]
      BY <2>3 DEF CreateGroup, Grouped
    <3>3. \A a \in centroids'[made'] : a \in act[w].asks /\ topic[a] = t
      BY <2>3 DEF CreateGroup, About
    <3>4. ASSUME NEW f \in DOMAIN centroids, NEW a \in centroids'[made'], MostlyAbout(f, topic[a])
          PROVE  FALSE
      <4> DEFINE asks == Centre(under, f)
                 known == act[w].known[f]
      <4>1. /\ Shown(w, f) /\ a \in act[w].asks /\ asks \in SUBSET Asks
            /\ About(asks, topic[a]) # {}
            /\ 2 * Cardinality(About(asks, topic[a])) >= Cardinality(asks)
        BY <3>1, <3>3, <3>4 DEF SoleAct, MostlyAbout, Centre
      <4>2. f \in DOMAIN act[w].known
        BY <4>1 DEF Shown, About
      <4>3. known \subseteq asks /\ \A b \in asks \ known : f \in Near(w, b)
        BY <4>1, <4>2 DEF Shown
      <4>4. f \notin Near(w, a)
        BY <3>1, <4>1
      <4>5. ~Matches(known, topic[a])
        BY <4>2, <4>4 DEF Near
      <4>6. \A b \in About(asks, topic[a]) : b \in known
        BY <4>3, <4>5 DEF Near, About
      <4>7. About(known, topic[a]) = About(asks, topic[a])
        BY <4>3, <4>6 DEF About
      <4>8. /\ Cardinality(known) <= Cardinality(asks)
            /\ Cardinality(known) \in Nat /\ Cardinality(asks) \in Nat
            /\ Cardinality(About(asks, topic[a])) \in Nat
        <5>1. IsFiniteSet(asks) /\ About(asks, topic[a]) \in SUBSET asks /\ known \in SUBSET asks
          BY <4>1, <4>3, FS_Subset, RequestConstants DEF About
        <5>2. QED
          BY <5>1, FS_Subset, FS_CardinalityType
      <4> HIDE DEF asks, known
      <4>9. 2 * Cardinality(About(known, topic[a])) >= Cardinality(known)
        BY <4>1, <4>7, <4>8
      <4>10. QED
        BY <4>1, <4>3, <4>5, <4>7, <4>9, HalfIsNear
    <3>5. QED
      BY <3>2, <3>4
  <2>4. ASSUME NEW w \in Curators, Merge(w)
        PROVE  made' = made /\ \A a \in Asks : under[a] # Unfiled => under'[a] # Unfiled
    <3>1. /\ act[w].pc = "merge" /\ mixed' = mixed /\ SoleAct(w) /\ made' = made
          /\ act[w].into \in Features
      <4>1. act[w].pc = "merge" /\ mixed' = mixed /\ made' = made
        BY <2>4 DEF Merge, Stops, Goes
      <4>2. act[w].into \in Features /\ SoleAct(w)
        BY <2>0, <4>1 DEF RequestInv, Alone, ActOK, ActRows
      <4>3. QED
        BY <4>1, <4>2
    <3>2. act[w].asks = {a \in Asks : under[a] = act[w].from}
      BY <3>1 DEF SoleAct
    <3>3. CASE UNCHANGED under
      BY <3>1, <3>3
    <3>4. CASE under' = AfterMerge(w)
      BY <2>0, <3>1, <3>2, <3>4 DEF AfterMerge
    <3>5. QED
      BY <2>4, <3>3, <3>4 DEF Merge
  <2>5. ASSUME NEW w \in Curators, Move(w)
        PROVE  made' = made /\ \A a \in Asks : under[a] # Unfiled => under'[a] # Unfiled
    <3>1. act[w].into \in Features \cup {0} /\ made' = made
      BY <2>0, <2>5 DEF Move, ActRows
    <3>2. Place(act[w].into) # Unfiled
      BY <2>0, <3>1, RequestConstants DEF Place
    <3>3. QED
      BY <2>0, <2>5, <3>1, <3>2 DEF Move
  <2>6. ASSUME NEW w \in Curators,
               \/ StartGather(w) \/ EndGather(w) \/ GatherStops(w) \/ UpdateEvidence(w)
               \/ EndMove(w) \/ SaveFeature(w) \/ GatherDies(w)
        PROVE  UNCHANGED <<under, made>>
    BY <2>6 DEF StartGather, EndGather, GatherStops, UpdateEvidence, EndMove, SaveFeature,
       GatherDies
  <2>7. ASSUME NEW w \in Curators,
               \/ \E f \in Features :
                     RecentreTouched(w, f) \/ RecentreMoved(w, f) \/ LoadFeature(w, f)
               \/ \E s, t \in Features : StartMerge(w, s, t)
               \/ \E a \in Asks, t \in Features \cup {0} : StartMove(w, a, t)
        PROVE  UNCHANGED <<under, made>>
    BY <2>7 DEF RecentreTouched, RecentreMoved, LoadFeature, StartMerge, StartMove
  <2>8. QED
    BY <2>0, <2>1, <2>2, <2>3, <2>4, <2>5, <2>6, <2>7
       DEF RequestNext, GatherStep, CuratorStep, Arises, requestVars
<1>2. QED
  BY <1>1, RequestInvariant, PTL DEF RequestSpec, MergesStay

-----------------------------------------------------------------------------
\* What each of the three can hold, of any size: requests, knowledge and sessions
\* keep their types whatever overlaps and dies.
THEOREM BooksAreTyped ==
  /\ RequestSpec => []RequestTypeOK
  /\ KnowledgeSpec => []KnowledgeTypeOK
  /\ SessionSpec => []SessionTypeOK
<1>1. RequestInv => RequestTypeOK
  BY DEF RequestInv
<1>2. KnowledgeInv => KnowledgeTypeOK
  BY DEF KnowledgeInv
<1>3. SessionInv => SessionTypeOK
  BY DEF SessionInv
<1>4. QED
  BY <1>1, <1>2, <1>3, RequestInvariant, KnowledgeInvariant, SessionInvariant, PTL
-----------------------------------------------------------------------------
(* Side by side.  A behaviour of MCBook is one of each part.               *)

LEMMA BookIsEachPart == BookSpec => RequestSpec /\ KnowledgeSpec /\ SessionSpec
<1>1. BookInit => RequestInit /\ KnowledgeInit /\ SessionInit
  BY DEF BookInit
<1>2. [BookNext]_bookVars => /\ [RequestNext]_requestVars /\ [KnowledgeNext]_knowledgeVars
                             /\ [SessionNext]_sessionVars
  BY DEF BookNext, OverlapsNext, MergesNext, RemindersNext, GapsNext, bookVars
<1>. QED  BY <1>1, <1>2, PTL DEF BookSpec, RequestSpec, KnowledgeSpec, SessionSpec

\* Requests, knowledge and sessions are well typed, however many there are of each.
THEOREM BookTypes == BookSpec => []TypeOK
<1>1. RequestTypeOK /\ KnowledgeTypeOK /\ SessionTypeOK => TypeOK
  BY DEF TypeOK
<1>. QED  BY <1>1, BookIsEachPart, BooksAreTyped, PTL
=============================================================================
