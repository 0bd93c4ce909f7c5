------------------------------- MODULE MCDesk -------------------------------
(***************************************************************************)
(* What administrators and their workers do side by side, for TLC in one   *)
(* run: paid model calls, a campaign, letting a person in, a person's      *)
(* second factor, and what scenarios and webhooks make of an event.  They  *)
(* share no state; "part" says which of them a behaviour is about.         *)
(* Letting in is two parts: two requests at once over up to three rows, or *)
(* one at a time over three access requests.                               *)
(***************************************************************************)
EXTENDS ModelCalls, Campaigns, Onboarding, SecondFactor, Automation, TLC

CONSTANTS w1, w2, trial, pro, c1, c2, c3, rTrial, rPro, r1, r2, r3, b1, b2, b3,
          p1, p2,
          ann, bob, admin, csm,
          s1, s2, n0, n1, n2

VARIABLE part

\* The service handles finitely many requests at a time.
ASSUME DeskConstants == IsFiniteSet(Handlers)

MCMonthlyCredits == (trial :> 2) @@ (pro :> 1)
MCPlanRef == (trial :> {}) @@ (pro :> {rPro})
MCAmounts == {1}
MCChargeRef == (c1 :> r1) @@ (c2 :> r2) @@ (c3 :> r3)
MCRefundRef == (c1 :> b1) @@ (c2 :> b2) @@ (c3 :> b3)
AdminSeesAll == admin :> {ann, bob} @@ csm :> {bob}

\* Scenarios: two short ones in every standing, or one of any graph of an entry
\* and two nodes, which are alike, that somebody runs.
Entry == [kind : {"entry"}, yes : Ends \ {n2}, no : {Nowhere}]
Drawn == [kind : {"action", "mockup", "filter"}, yes : Ends, no : {Nowhere}]
            \cup [kind : {"condition"}, yes : Ends, no : Ends]
            \cup [kind : {"end"}, yes : {Nowhere}, no : {Nowhere}]
Graph(first, one, two) ==
    [entry |-> IF first.kind = "entry" THEN n0 ELSE Nowhere,
     kind |-> n0 :> first.kind @@ n1 :> one.kind @@ n2 :> two.kind,
     yes |-> n0 :> first.yes @@ n1 :> one.yes @@ n2 :> two.yes,
     no |-> n0 :> first.no @@ n1 :> one.no @@ n2 :> two.no]
Leaf(kind) == [kind |-> kind, yes |-> Nowhere, no |-> Nowhere]
Single(kind) == Graph([kind |-> "entry", yes |-> n1, no |-> Nowhere], Leaf(kind), Leaf(kind))
Standing == [state : RowStates, trigger : Triggers, flow : {Single("action"), Single("condition")}]
Resting == [state |-> "deleted", trigger |-> "new_entity", flow |-> Single("action")]
Drafts == [state : {"off"}, trigger : {"new_entity"},
           flow : {Graph(Leaf("end"), Leaf("end"), Leaf("end"))}
                      \cup {Graph(e, a, b) : e \in Entry, a \in Drawn, b \in Drawn}]
MCRuleSets == {s1 :> a @@ s2 :> b : a \in Standing, b \in Standing}
                  \cup {s1 :> a @@ s2 :> Resting : a \in Drafts}

\* Workers, colleagues and handlers are the same two.
Symmetry == Permutations(Workers) \cup Permutations(Orgs)

deskVars == <<allVars, campaignVars, onboardingVars, factorVars, automationVars, part>>

DeskInit == /\ part \in {"calls", "campaign", "two", "one", "factor", "rules"}
            /\ part # "rules" => /\ scenarios = (s1 :> Resting @@ s2 :> Resting)
                                 /\ hooks = [h \in Hooks |-> "deleted"]
            /\ CallInit /\ CampaignInit /\ OnboardingInit /\ FactorInit /\ AutomationInit
            /\ part # "calls" => enforced
            /\ scenarios[s1] \in Drafts => hooks = [h \in Hooks |-> "deleted"]

DeskNext ==
    /\ UNCHANGED part
    /\ \/ /\ part = "calls" /\ CallNext
          /\ UNCHANGED <<campaignVars, onboardingVars, factorVars, automationVars>>
       \/ /\ part = "campaign" /\ CampaignNext
          /\ UNCHANGED <<allVars, onboardingVars, factorVars, automationVars>>
       \/ /\ part \in {"two", "one"} /\ OnboardingNext
          /\ part = "two" => Len(requests') + Len(invitations') <= 3
          /\ part = "one" => Cardinality({w \in Handlers : stage'[w] # "idle"}) <= 1
          /\ UNCHANGED <<allVars, campaignVars, factorVars, automationVars>>
       \/ /\ part = "factor" /\ FactorNext
          /\ UNCHANGED <<allVars, campaignVars, onboardingVars, automationVars>>
       \/ /\ part = "rules" /\ AutomationNext
          /\ UNCHANGED <<allVars, campaignVars, onboardingVars, factorVars>>

DeskSpec == DeskInit /\ [][DeskNext]_deskVars

\* What the parts can hold.
DeskTypeOK == CallTypeOK /\ CampaignTypeOK /\ OnboardingTypeOK /\ FactorTypeOK /\ AutomationTypeOK

\* A decided access request or invitation is not decided again; and while requests
\* come one at a time a decided row keeps its decision ("That request has already
\* been decided.", onboarding.py:262; "no longer open", onboarding.py:430), nobody
\* is in without a decision that lets them in, and nobody who is in still waits
\* for one.
DecisionsAreFinal ==
    /\ NothingReopens
    /\ [][part = "one" => DecisionsStand /\ AdmittedByDecision' /\ MembersDoNotWait']_deskVars
=============================================================================
