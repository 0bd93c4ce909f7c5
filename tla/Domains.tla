------------------------------- MODULE Domains -------------------------------
(***************************************************************************)
(* Who holds ONE company domain: the claims that founders and              *)
(* administrators make (identity/onboarding.create_workspace,              *)
(* identity/admin_views.py) and the proof by DNS record that supersedes    *)
(* them (identity/domains.verify).                                         *)
(*                                                                         *)
(* verify loads its own row and asks a resolver without a lock. Its        *)
(* transaction then locks the other organisations' rows, one after the     *)
(* other, and last its own.                                                *)
(***************************************************************************)
EXTENDS Integers, FiniteSets

CONSTANTS Orgs, NoOrg, Workers

ASSUME DomainConstants == NoOrg \notin Orgs /\ IsFiniteSet(Workers)

VARIABLES
    claims,     \* OrganizationDomain rows of the domain, "none" where there is none
    dns,        \* the organisations whose token is published on the domain
    pc, job     \* per worker: where its request is, and whose, and its row locks

vars == <<claims, dns, pc, job>>

Statuses == {"none", "pending", "verified", "revoked"}
PCs == {"idle", "claiming", "founding", "loaded", "matched", "locking"}
Jobs == [org : Orgs \cup {NoOrg}, seen : Statuses, wanted : SUBSET Orgs, held : SUBSET Orgs]

NoJob == [org |-> NoOrg, seen |-> "none", wanted |-> {}, held |-> {}]

Init == /\ claims = [o \in Orgs |-> "none"]
        /\ dns = {}
        /\ pc = [w \in Workers |-> "idle"]
        /\ job = [w \in Workers |-> NoJob]

Live(o) == claims[o] \in {"pending", "verified"}

\* Who else holds the lock of o's row.
Holders(w, o) == {v \in Workers \ {w} : o \in job[v].held}

Begin(w, place, o) == /\ pc[w] = "idle"
                      /\ pc' = [pc EXCEPT ![w] = place]
                      /\ job' = [job EXCEPT ![w] = [NoJob EXCEPT !.org = o, !.seen = claims[o]]]
                      /\ UNCHANGED <<claims, dns>>

Finish(w) == /\ pc' = [pc EXCEPT ![w] = "idle"]
             /\ job' = [job EXCEPT ![w] = NoJob]

-----------------------------------------------------------------------------
(* Claims.                                                                 *)

\* POST /identity/domains/: whatever other organisations claim.
Claim(w, o) == /\ claims[o] = "none"
               /\ \A v \in Workers : job[v].org = o => pc[v] # "founding"
               /\ Begin(w, "claiming", o)

\* One row per organisation and domain is a unique index.
CommitClaim(w) == /\ pc[w] = "claiming"
                  /\ claims' = [claims EXCEPT ![job[w].org] = IF @ = "none" THEN "pending" ELSE @]
                  /\ Finish(w)
                  /\ UNCHANGED dns

\* An organisation that nobody knows yet.
New(o) == claims[o] = "none" /\ \A v \in Workers : job[v].org # o

\* create_workspace: a founder, with a setup code from an earlier sign-in, looks
\* whether the domain is still unclaimed.
Found(w, o) == /\ New(o)
               /\ \A p \in Orgs : ~Live(p)
               /\ Begin(w, "founding", o)

\* The organisation, its founder and the claim, in one transaction.
CommitFounding(w) == /\ pc[w] = "founding"
                     /\ claims' = [claims EXCEPT ![job[w].org] = "pending"]
                     /\ Finish(w)
                     /\ UNCHANGED dns

-----------------------------------------------------------------------------
(* POST /identity/domains/<id>/verify/                                     *)

Load(w, o) == claims[o] # "none" /\ Begin(w, "loaded", o)

\* The resolver's answer. A row that was verified when it was loaded is left
\* as it is, a withdrawn record too.
LookUp(w) == /\ pc[w] = "loaded"
             /\ IF job[w].org \in dns /\ job[w].seen # "verified"
                THEN pc' = [pc EXCEPT ![w] = "matched"] /\ UNCHANGED job
                ELSE Finish(w)
             /\ UNCHANGED <<claims, dns>>

\* SELECT ... FOR UPDATE finds the other organisations' live rows ...
Select(w) == /\ pc[w] = "matched"
             /\ pc' = [pc EXCEPT ![w] = "locking"]
             /\ job' = [job EXCEPT ![w].wanted = {o \in Orgs \ {job[w].org} : Live(o)}]
             /\ UNCHANGED <<claims, dns>>

\* ... and locks them one by one, passing over those revoked in the meantime.
LockOther(w, o) == /\ pc[w] = "locking"
                   /\ o \in job[w].wanted
                   /\ Holders(w, o) = {}
                   /\ job' = [job EXCEPT ![w].wanted = @ \ {o},
                                         ![w].held = IF Live(o) THEN @ \cup {o} ELSE @]
                   /\ UNCHANGED <<claims, dns, pc>>

\* Mutant: no index on the verified rows.
PromoteUnindexed(w) ==
    LET mine == job[w].org
    IN  /\ pc[w] = "locking" /\ job[w].wanted = {}
        /\ Holders(w, mine) = {}
        /\ claims' = [o \in Orgs |-> IF o \in job[w].held THEN "revoked"
                                     ELSE IF o = mine THEN "verified" ELSE claims[o]]
        /\ Finish(w)
        /\ UNCHANGED dns

\* The locked rows revoked, the own row verified. A row somebody verified
\* that was not there to lock fails the whole on the unique index.
Promote(w) ==
    LET mine == job[w].org
        held == job[w].held
    IN  /\ pc[w] = "locking" /\ job[w].wanted = {}
        /\ Holders(w, mine) = {}
        /\ claims' = IF \E o \in Orgs \ (held \cup {mine}) : claims[o] = "verified"
                     THEN claims
                     ELSE [o \in Orgs |-> CASE o \in held -> "revoked"
                                            [] o = mine   -> "verified"
                                            [] OTHER      -> claims[o]]
        /\ Finish(w)
        /\ UNCHANGED dns

-----------------------------------------------------------------------------
(* Failures, and what the company publishes.                               *)

\* The row locks a transaction still needs.
Needs(w) == IF job[w].wanted # {} THEN job[w].wanted ELSE {job[w].org}

\* Workers who wait for one another only.
Deadlocked(group) == \A v \in group : /\ pc[v] = "locking"
                                      /\ \A o \in Needs(v) : Holders(v, o) \cap group # {}

\* Postgres aborts one of them.
Abort(w) == /\ \E group \in SUBSET Workers : w \in group /\ Deadlocked(group)
            /\ Finish(w)
            /\ UNCHANGED <<claims, dns>>

\* Mutant: the revocations are saved one by one, outside a transaction.
CrashHalfway(w) == /\ pc[w] # "idle"
                   /\ claims' = [o \in Orgs |-> IF o \in job[w].held THEN "revoked" ELSE claims[o]]
                   /\ Finish(w)
                   /\ UNCHANGED dns

Crash(w) == /\ pc[w] # "idle"
            /\ Finish(w)
            /\ UNCHANGED <<claims, dns>>

Publish(o) == /\ dns' \in {dns \cup {o}, dns \ {o}}
              /\ dns' # dns
              /\ claims[o] # "none"
              /\ UNCHANGED <<claims, pc, job>>

-----------------------------------------------------------------------------
Step(w) == \/ CommitClaim(w) \/ CommitFounding(w) \/ LookUp(w) \/ Select(w)
           \/ \E o \in Orgs : LockOther(w, o)
           \/ Promote(w)

Next == \/ \E w \in Workers : Step(w) \/ Abort(w) \/ Crash(w)
        \/ \E w \in Workers, o \in Orgs : Claim(w, o) \/ Found(w, o) \/ Load(w, o)
        \/ \E o \in Orgs : Publish(o)

\* A row lock goes to its waiters in turn, a running statement returns, the
\* resolver is given up on in time, and the deadlock detector wakes up.
Fairness == \A w \in Workers : SF_vars(Step(w)) /\ WF_vars(Abort(w))

Spec == Init /\ [][Next]_vars
FairSpec == Spec /\ Fairness

-----------------------------------------------------------------------------
TypeOK == /\ claims \in [Orgs -> Statuses]
          /\ dns \subseteq Orgs
          /\ pc \in [Workers -> PCs]
          /\ job \in [Workers -> Jobs]

\* What a verification has locked to revoke, nobody else has locked, revoked
\* or verified away until it commits (domains.verify, select_for_update).
LockedClaimsStay == \A w \in Workers : \A o \in job[w].held : Live(o) /\ Holders(w, o) = {}

\* Two verifications never leave two verified holders, also when each had
\* nothing of the other's to lock (models.py, "routing must never be
\* ambiguous").
OneVerifiedHolder == \A o, p \in Orgs : claims[o] = "verified" /\ claims[p] = "verified" => o = p

\* Once proved, the domain always leads somewhere: a takeover that fails
\* half-way, on a deadlock, the index or a crash, leaves the holder it found.
NeverUnheld == [][(\E o \in Orgs : claims[o] = "verified")
                     => \E o \in Orgs : claims'[o] = "verified"]_vars

\* Two verifications that lock each other's rows still end.
VerificationEnds == \A w \in Workers : pc[w] # "idle" ~> pc[w] = "idle"
=============================================================================
