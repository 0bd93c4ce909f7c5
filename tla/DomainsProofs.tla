--------------------------- MODULE DomainsProofs ---------------------------
(***************************************************************************)
(* Proofs about Domains, for any organisations and any number of requests. *)
(* A verification revokes only what it has locked, nobody touches what it  *)
(* has locked, and what it could not lock the unique index watches.        *)
(***************************************************************************)
EXTENDS Domains, TLAPS

\* A running request is an organisation's, and a verification locks other
\* organisations' rows, in its transaction only.
Asked(w) == /\ pc[w] # "idle" => job[w].org \in Orgs
            /\ pc[w] # "locking" => job[w].held = {}
            /\ job[w].org \notin job[w].wanted \cup job[w].held

\* An organisation being founded has no claim yet, and nobody else acts for it.
Fresh(w) == pc[w] = "founding" => /\ claims[job[w].org] = "none"
                                  /\ \A v \in Workers \ {w} : job[v].org # job[w].org

IInv == /\ TypeOK
        /\ \A w \in Workers : Asked(w) /\ Fresh(w)
        /\ LockedClaimsStay
        /\ OneVerifiedHolder

-----------------------------------------------------------------------------
LEMMA NoJobType == NoJob \in Jobs
BY DEF NoJob, Jobs, Statuses

LEMMA InitIInv == Init => IInv
BY NoJobType DEF Init, IInv, TypeOK, Asked, Fresh, LockedClaimsStay, OneVerifiedHolder,
                 NoJob, Statuses, PCs, Jobs

\* A request that ends or begins holds no row.
LEMMA FinishKeeps ==
  ASSUME IInv, NEW w \in Workers, Finish(w), claims' = claims, dns' = dns
  PROVE  IInv'
<1>1. /\ pc' = [pc EXCEPT ![w] = "idle"]
      /\ job' = [job EXCEPT ![w] = NoJob]
  BY DEF Finish
<1>2. TypeOK'
  BY <1>1, NoJobType DEF IInv, TypeOK, PCs
<1>3. ASSUME NEW v \in Workers PROVE Asked(v)' /\ Fresh(v)'
  BY <1>1, DomainConstants DEF IInv, TypeOK, Asked, Fresh, NoJob
<1>4. LockedClaimsStay'
  BY <1>1 DEF IInv, TypeOK, LockedClaimsStay, Live, Holders, NoJob
<1>5. OneVerifiedHolder'
  BY DEF IInv, OneVerifiedHolder
<1>. QED  BY <1>2, <1>3, <1>4, <1>5 DEF IInv

LEMMA BeginKeeps ==
  ASSUME IInv, NEW w \in Workers, NEW o \in Orgs,
         NEW place \in {"claiming", "founding", "loaded"}, Begin(w, place, o),
         place = "founding" => New(o),
         \A v \in Workers : job[v].org = o => pc[v] # "founding"
  PROVE  IInv'
<1>. DEFINE fresh == [NoJob EXCEPT !.org = o, !.seen = claims[o]]
<1>1. /\ pc[w] = "idle"
      /\ pc' = [pc EXCEPT ![w] = place]
      /\ job' = [job EXCEPT ![w] = fresh]
      /\ claims' = claims /\ dns' = dns
  BY DEF Begin
<1>2. fresh \in Jobs /\ fresh.org = o /\ fresh.held = {} /\ fresh.wanted = {}
  BY DEF IInv, TypeOK, Jobs, NoJob, Statuses
<1>. HIDE DEF fresh
<1>3. TypeOK'
  BY <1>1, <1>2 DEF IInv, TypeOK, PCs
<1>4. ASSUME NEW v \in Workers PROVE Asked(v)'
  BY <1>1, <1>2 DEF IInv, TypeOK, Asked
<1>5. ASSUME NEW v \in Workers PROVE Fresh(v)'
  <2>1. CASE v = w
    BY <1>1, <1>2, <2>1 DEF IInv, TypeOK, Fresh, New
  <2>2. CASE v # w
    BY <1>1, <1>2, <2>2 DEF IInv, TypeOK, Fresh
  <2>. QED  BY <2>1, <2>2
<1>6. LockedClaimsStay'
  BY <1>1, <1>2 DEF IInv, TypeOK, LockedClaimsStay, Live, Holders
<1>7. OneVerifiedHolder'
  BY <1>1 DEF IInv, OneVerifiedHolder
<1>. QED  BY <1>3, <1>4, <1>5, <1>6, <1>7 DEF IInv

-----------------------------------------------------------------------------
(* The steps that write the domain's rows.                                 *)

\* The rows after a verification: revoked where locked, verified at its own.
LEMMA PromotedClaims ==
  ASSUME IInv, NEW w \in Workers, Promote(w), claims' # claims
  PROVE  /\ job[w].org \in Orgs /\ job[w].org \notin job[w].held
         /\ claims' \in [Orgs -> Statuses]
         /\ claims'[job[w].org] = "verified"
         /\ \A o \in job[w].held : claims'[o] = "revoked"
         /\ \A o \in Orgs \ (job[w].held \cup {job[w].org}) :
                claims'[o] = claims[o] /\ claims[o] # "verified"
<1>1. job[w].org \in Orgs /\ job[w].org \notin job[w].held /\ job[w].held \subseteq Orgs
  BY DEF IInv, Asked, Promote, TypeOK, Jobs
<1>2. ~ \E o \in Orgs \ (job[w].held \cup {job[w].org}) : claims[o] = "verified"
  BY DEF Promote
<1>3. claims' = [o \in Orgs |-> CASE o \in job[w].held -> "revoked"
                                  [] o = job[w].org    -> "verified"
                                  [] OTHER             -> claims[o]]
  BY <1>2 DEF Promote
<1>. QED  BY <1>1, <1>2, <1>3 DEF IInv, TypeOK, Statuses

LEMMA PromoteKeeps ==
  ASSUME IInv, NEW w \in Workers, Promote(w), claims' # claims
  PROVE  IInv'
<1>. DEFINE mine == job[w].org
            held == job[w].held
<1>1. /\ mine \in Orgs /\ mine \notin held
      /\ claims' \in [Orgs -> Statuses]
      /\ claims'[mine] = "verified"
      /\ \A o \in held : claims'[o] = "revoked"
      /\ \A o \in Orgs \ (held \cup {mine}) : claims'[o] = claims[o] /\ claims[o] # "verified"
  BY PromotedClaims
<1>2. /\ pc[w] = "locking"
      /\ pc' = [pc EXCEPT ![w] = "idle"]
      /\ job' = [job EXCEPT ![w] = NoJob]
      /\ dns' = dns
      /\ Holders(w, mine) = {}
  BY DEF Promote, Finish
<1>3. TypeOK'
  BY <1>1, <1>2, NoJobType DEF IInv, TypeOK, PCs
<1>4. ASSUME NEW v \in Workers PROVE Asked(v)'
  BY <1>2, DomainConstants DEF IInv, TypeOK, Asked, NoJob
<1>5. ASSUME NEW v \in Workers PROVE Fresh(v)'
  <2>. SUFFICES ASSUME pc'[v] = "founding"
                PROVE  /\ claims'[job'[v].org] = "none"
                       /\ \A u \in Workers \ {v} : job'[u].org # job'[v].org
    BY DEF Fresh
  <2>1. v # w /\ pc[v] = "founding" /\ job'[v] = job[v]
    BY <1>2 DEF IInv, TypeOK
  <2>2. /\ job[v].org \in Orgs /\ claims[job[v].org] = "none"
        /\ \A u \in Workers \ {v} : job[u].org # job[v].org
    BY <2>1 DEF IInv, Asked, Fresh
  <2>3. job[v].org \notin held
    BY <2>2 DEF IInv, LockedClaimsStay, Live
  <2>4. claims'[job[v].org] = "none"
    BY <1>1, <2>1, <2>2, <2>3
  <2>5. ASSUME NEW u \in Workers \ {v} PROVE job'[u].org # job'[v].org
    BY <1>2, <2>1, <2>2, DomainConstants DEF IInv, TypeOK, NoJob
  <2>. QED  BY <2>1, <2>4, <2>5
<1>6. LockedClaimsStay'
  <2>. SUFFICES ASSUME NEW v \in Workers, NEW o \in job'[v].held
                PROVE  Live(o)' /\ Holders(v, o)' = {}
    BY DEF LockedClaimsStay
  <2>1. v # w /\ job'[v] = job[v]
    BY <1>2 DEF IInv, TypeOK, NoJob
  <2>2. Live(o) /\ Holders(v, o) = {} /\ o \in Orgs
    BY <2>1 DEF IInv, TypeOK, Jobs, LockedClaimsStay
  <2>3. o \notin held
    BY <2>1, <2>2 DEF Holders
  <2>4. o # mine
    BY <1>2, <2>1 DEF Holders
  <2>5. Live(o)'
    BY <1>1, <2>2, <2>3, <2>4 DEF Live
  <2>6. Holders(v, o)' = {}
    BY <1>2, <2>2 DEF IInv, TypeOK, Holders, NoJob
  <2>. QED  BY <2>5, <2>6
<1>7. OneVerifiedHolder'
  BY <1>1 DEF OneVerifiedHolder
<1>. QED  BY <1>3, <1>4, <1>5, <1>6, <1>7 DEF IInv

\* A claim made in a row that was not there.
LEMMA ClaimKeeps ==
  ASSUME IInv, NEW w \in Workers, pc[w] \in {"claiming", "founding"}, Finish(w), dns' = dns,
         claims[job[w].org] = "none",
         claims' = [claims EXCEPT ![job[w].org] = "pending"]
  PROVE  IInv'
<1>. DEFINE mine == job[w].org
<1>1. /\ pc' = [pc EXCEPT ![w] = "idle"]
      /\ job' = [job EXCEPT ![w] = NoJob]
      /\ mine \in Orgs
  BY DEF Finish, IInv, Asked
<1>2. TypeOK'
  BY <1>1, NoJobType DEF IInv, TypeOK, PCs, Statuses
<1>3. ASSUME NEW v \in Workers PROVE Asked(v)'
  BY <1>1, DomainConstants DEF IInv, TypeOK, Asked, NoJob
<1>4. ASSUME NEW v \in Workers PROVE Fresh(v)'
  BY <1>1, DomainConstants DEF IInv, TypeOK, Asked, Fresh, NoJob
<1>5. LockedClaimsStay'
  BY <1>1 DEF IInv, TypeOK, LockedClaimsStay, Live, Holders, NoJob
<1>6. OneVerifiedHolder'
  BY <1>1 DEF IInv, TypeOK, OneVerifiedHolder
<1>. QED  BY <1>2, <1>3, <1>4, <1>5, <1>6 DEF IInv

-----------------------------------------------------------------------------
LEMMA LockKeeps ==
  ASSUME IInv, NEW w \in Workers, NEW o \in Orgs, LockOther(w, o)
  PROVE  IInv'
<1>. DEFINE held == IF Live(o) THEN job[w].held \cup {o} ELSE job[w].held
<1>1. /\ pc[w] = "locking" /\ o \in job[w].wanted
      /\ Holders(w, o) = {}
      /\ claims' = claims /\ dns' = dns /\ pc' = pc
      /\ job' = [job EXCEPT ![w].wanted = @ \ {o}, ![w].held = held]
  BY DEF LockOther, IInv, TypeOK, Jobs
<1>2. /\ job'[w].org = job[w].org
      /\ job'[w].wanted = job[w].wanted \ {o}
      /\ job'[w].held = held
      /\ \A v \in Workers \ {w} : job'[v] = job[v]
      /\ job' \in [Workers -> Jobs]
  BY <1>1 DEF IInv, TypeOK, Jobs
<1>3. TypeOK'
  BY <1>1, <1>2 DEF IInv, TypeOK
<1>4. ASSUME NEW v \in Workers PROVE Asked(v)' /\ Fresh(v)'
  BY <1>1, <1>2 DEF IInv, Asked, Fresh
<1>5. LockedClaimsStay'
  BY <1>1, <1>2 DEF IInv, LockedClaimsStay, Live, Holders
<1>6. OneVerifiedHolder'
  BY <1>1 DEF IInv, OneVerifiedHolder
<1>. QED  BY <1>3, <1>4, <1>5, <1>6 DEF IInv

LEMMA SelectKeeps ==
  ASSUME IInv, NEW w \in Workers, Select(w)
  PROVE  IInv'
<1>. DEFINE others == {o \in Orgs \ {job[w].org} : Live(o)}
<1>1. /\ pc[w] = "matched"
      /\ pc' = [pc EXCEPT ![w] = "locking"]
      /\ claims' = claims /\ dns' = dns
      /\ job' = [job EXCEPT ![w].wanted = others]
  BY DEF Select
<1>2. /\ job'[w].org = job[w].org
      /\ job'[w].wanted = others
      /\ job'[w].held = job[w].held
      /\ \A v \in Workers \ {w} : job'[v] = job[v]
      /\ job' \in [Workers -> Jobs]
  BY <1>1 DEF IInv, TypeOK, Jobs
<1>3. TypeOK'
  BY <1>1, <1>2 DEF IInv, TypeOK, PCs
<1>4. ASSUME NEW v \in Workers PROVE Asked(v)' /\ Fresh(v)'
  BY <1>1, <1>2 DEF IInv, TypeOK, Asked, Fresh
<1>5. LockedClaimsStay'
  BY <1>1, <1>2 DEF IInv, LockedClaimsStay, Live, Holders
<1>6. OneVerifiedHolder'
  BY <1>1 DEF IInv, OneVerifiedHolder
<1>. QED  BY <1>3, <1>4, <1>5, <1>6 DEF IInv

LEMMA LookUpKeeps ==
  ASSUME IInv, NEW w \in Workers, LookUp(w)
  PROVE  IInv'
<1>1. CASE job[w].org \in dns /\ job[w].seen # "verified"
  <2>1. /\ pc[w] = "loaded"
        /\ pc' = [pc EXCEPT ![w] = "matched"]
        /\ job' = job /\ claims' = claims /\ dns' = dns
    BY <1>1 DEF LookUp
  <2>. QED  BY <2>1 DEF IInv, TypeOK, PCs, Asked, Fresh, LockedClaimsStay, Live, Holders,
                        OneVerifiedHolder
<1>2. CASE ~(job[w].org \in dns /\ job[w].seen # "verified")
  BY <1>2, FinishKeeps DEF LookUp
<1>. QED  BY <1>1, <1>2

LEMMA PublishKeeps ==
  ASSUME IInv, NEW o \in Orgs, Publish(o)
  PROVE  IInv'
BY DEF Publish, IInv, TypeOK, Asked, Fresh, LockedClaimsStay, Live, Holders, OneVerifiedHolder

-----------------------------------------------------------------------------
\* The invariant is inductive.
LEMMA NextIInv == IInv /\ [Next]_vars => IInv'
<1>. SUFFICES ASSUME IInv, [Next]_vars PROVE IInv'
  OBVIOUS
<1>1. ASSUME NEW w \in Workers, CommitClaim(w) PROVE IInv'
  <2>1. pc[w] = "claiming" /\ Finish(w) /\ dns' = dns
    BY <1>1 DEF CommitClaim
  <2>2. CASE claims[job[w].org] = "none"
    <3>1. claims' = [claims EXCEPT ![job[w].org] = "pending"]
      BY <1>1, <2>2 DEF CommitClaim
    <3>. QED  BY <2>1, <2>2, <3>1, ClaimKeeps
  <2>3. CASE claims[job[w].org] # "none"
    <3>1. claims' = claims
      BY <1>1, <2>3 DEF CommitClaim, IInv, TypeOK
    <3>. QED  BY <2>1, <3>1, FinishKeeps
  <2>. QED  BY <2>2, <2>3
<1>2. ASSUME NEW w \in Workers, CommitFounding(w) PROVE IInv'
  <2>1. claims[job[w].org] = "none"
    BY <1>2 DEF CommitFounding, IInv, Fresh
  <2>. QED  BY <1>2, <2>1, ClaimKeeps DEF CommitFounding
<1>3. ASSUME NEW w \in Workers, LookUp(w) PROVE IInv'
  BY <1>3, LookUpKeeps
<1>4. ASSUME NEW w \in Workers, Select(w) PROVE IInv'
  BY <1>4, SelectKeeps
<1>5. ASSUME NEW w \in Workers, NEW o \in Orgs, LockOther(w, o) PROVE IInv'
  BY <1>5, LockKeeps
<1>6. ASSUME NEW w \in Workers, Promote(w) PROVE IInv'
  <2>1. CASE claims' # claims
    BY <1>6, <2>1, PromoteKeeps
  <2>2. CASE claims' = claims
    BY <1>6, <2>2, FinishKeeps DEF Promote
  <2>. QED  BY <2>1, <2>2
<1>7. ASSUME NEW w \in Workers, Abort(w) \/ Crash(w) PROVE IInv'
  BY <1>7, FinishKeeps DEF Abort, Crash
<1>8. ASSUME NEW w \in Workers, NEW o \in Orgs, Claim(w, o) PROVE IInv'
  BY <1>8, BeginKeeps DEF Claim
<1>9. ASSUME NEW w \in Workers, NEW o \in Orgs, Found(w, o) PROVE IInv'
  BY <1>9, BeginKeeps DEF Found, New
<1>10. ASSUME NEW w \in Workers, NEW o \in Orgs, Load(w, o) PROVE IInv'
  <2>1. ASSUME NEW v \in Workers, job[v].org = o PROVE pc[v] # "founding"
    BY <1>10, <2>1 DEF Load, IInv, Fresh
  <2>. QED  BY <1>10, <2>1, BeginKeeps DEF Load
<1>11. ASSUME NEW o \in Orgs, Publish(o) PROVE IInv'
  BY <1>11, PublishKeeps
<1>12. CASE UNCHANGED vars
  BY <1>12 DEF vars, IInv, TypeOK, Asked, Fresh, LockedClaimsStay, Live, Holders,
               OneVerifiedHolder
<1>. QED  BY <1>1, <1>2, <1>3, <1>4, <1>5, <1>6, <1>7, <1>8, <1>9, <1>10, <1>11, <1>12
          DEF Next, Step

\* The inductive invariant holds throughout.
THEOREM Invariant == Spec => []IInv
BY InitIInv, NextIInv, PTL DEF Spec

\* Every reachable state of the domain's rows and requests is well typed.
THEOREM TypeCorrect == Spec => []TypeOK
<1>1. IInv => TypeOK
  BY DEF IInv
<1>. QED  BY <1>1, Invariant, PTL

\* domains.verify: what it locked to revoke is its own until it commits.
THEOREM LocksHold == Spec => []LockedClaimsStay
<1>1. IInv => LockedClaimsStay
  BY DEF IInv
<1>. QED  BY <1>1, Invariant, PTL

\* A domain leads to one proven holder, however many verifications overlap.
THEOREM OneHolder == Spec => []OneVerifiedHolder
<1>1. IInv => OneVerifiedHolder
  BY DEF IInv
<1>. QED  BY <1>1, Invariant, PTL

\* A row outside the locked ones that a step leaves verified.
LEMMA StepsHold ==
  IInv /\ [Next]_vars => [(\E o \in Orgs : claims[o] = "verified")
                             => \E o \in Orgs : claims'[o] = "verified"]_vars
<1>. SUFFICES ASSUME IInv, Next, NEW o \in Orgs, claims[o] = "verified"
              PROVE  \E p \in Orgs : claims'[p] = "verified"
  OBVIOUS
<1>1. CASE claims' = claims
  BY <1>1
<1>2. ASSUME NEW w \in Workers, CommitClaim(w) PROVE claims'[o] = "verified"
  BY <1>2 DEF CommitClaim, IInv, TypeOK
<1>3. ASSUME NEW w \in Workers, CommitFounding(w) PROVE claims'[o] = "verified"
  BY <1>3 DEF CommitFounding, IInv, TypeOK, Fresh
<1>4. ASSUME NEW w \in Workers, Promote(w), claims' # claims
      PROVE  \E p \in Orgs : claims'[p] = "verified"
  BY <1>4, PromotedClaims
<1>. QED
  BY <1>1, <1>2, <1>3, <1>4
  DEF Next, Step, LookUp, Select, LockOther, Abort, Crash, Claim, Found, Load, Begin, Publish

\* Once proved, the domain always has a proven holder, through failed and
\* overlapping takeovers.
THEOREM AlwaysHeld == Spec => NeverUnheld
<1>1. IInv /\ [Next]_vars => [(\E o \in Orgs : claims[o] = "verified")
                                 => \E o \in Orgs : claims'[o] = "verified"]_vars
  BY StepsHold
<1>. QED  BY <1>1, Invariant, PTL DEF Spec, NeverUnheld
=============================================================================
