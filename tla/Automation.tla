------------------------------ MODULE Automation ------------------------------
(***************************************************************************)
(* What follows a customer's creation, an interaction's classification or  *)
(* "Run Now" (scenarios/engine.py, signals.py, webhooks/engine.py,         *)
(* signals.py): the scenarios are walked, then the webhooks called, all    *)
(* within the request that caused it, each statement a commit of its own,  *)
(* while scenarios and webhooks are edited and deleted.                    *)
(*                                                                         *)
(* Requests share nothing but those rows, so one of them is under way at a *)
(* time. A node is what its handler can do to the walk; a condition may    *)
(* hold, fail to hold, or raise.                                           *)
(***************************************************************************)
EXTENDS Integers, Sequences, FiniteSets

CONSTANTS
    Scenarios, Hooks,
    Nodes,          \* a scenario's nodes
    Nowhere,        \* an edge that is not drawn
    RuleSets,       \* the scenarios there may be to begin with
    MaxEvents, MaxRuleEdits

VARIABLES
    scenarios,      \* Scenario rows: is_active, the entry's eventTrigger, the graph
    hooks,          \* WebhookSubscription rows
    scenarioRuns,   \* ScenarioRun rows
    posted,         \* webhook calls made, each with its WebhookDelivery or without
    event,          \* how many events there were
    chain,          \* the request that follows the last one up
    touched,        \* rows edited since that event (history)
    ruleEdits

automationVars == <<scenarios, hooks, scenarioRuns, posted, event, chain, touched, ruleEdits>>

Triggers == {"new_entity", "interaction_classified"}
NodeKinds == {"entry", "action", "mockup", "condition", "filter", "end"}
Ends == Nodes \cup {Nowhere}
\* entry: the first node of that type, if there is one. A condition has two edges.
Flow == [entry : Ends, kind : [Nodes -> NodeKinds], yes : [Nodes -> Ends], no : [Nodes -> Ends]]
RowStates == {"on", "off", "deleted"}
ScenarioRow == [state : RowStates, trigger : Triggers, flow : Flow]

ASSUME AutomationConstants == /\ IsFiniteSet(Nodes) /\ Nowhere \notin Nodes
                              /\ RuleSets \subseteq [Scenarios -> ScenarioRow]
                              /\ MaxEvents \in Nat /\ MaxRuleEdits \in Nat

NoChain == [pc |-> "idle", cause |-> "manual", left |-> {}, of |-> Nowhere, at |-> Nowhere,
            visits |-> 0, log |-> <<>>, did |-> <<>>, failed |-> FALSE]

AutomationInit ==
    /\ scenarios \in RuleSets
    /\ hooks \in [Hooks -> RowStates]
    /\ scenarioRuns = {} /\ posted = {}
    /\ event = 0 /\ ruleEdits = 0
    /\ chain = NoChain
    /\ touched = {}

Rules == <<scenarios, hooks, touched, ruleEdits>>

\* An exception, or the end of the process: nothing after it is done.
Breaks == chain' = [NoChain EXCEPT !.pc = "broken", !.cause = chain.cause]

-----------------------------------------------------------------------------
(* What starts it                                                           *)

\* The entry says what the scenario waits for.
WaitsFor(s, cause) == scenarios[s].flow.entry # Nowhere /\ scenarios[s].trigger = cause

\* Mutant: what is switched off runs as well.
MatchingInactive(cause) == {s \in Scenarios : scenarios[s].state # "deleted" /\ WaitsFor(s, cause)}

Matching(cause) == {s \in Scenarios : scenarios[s].state = "on" /\ WaitsFor(s, cause)}

\* The row is saved and the scenarios looked up; their follow-up runs at the commit.
Happen == /\ chain.pc \in {"idle", "ended", "broken"} /\ event < MaxEvents
          /\ event' = event + 1
          /\ \E cause \in Triggers :
               chain' = [NoChain EXCEPT !.pc = "runs", !.cause = cause, !.left = Matching(cause)]
          /\ touched' = {}
          /\ UNCHANGED <<scenarios, hooks, scenarioRuns, posted, ruleEdits>>

\* ScenarioRunView.post, active or not.
RunNow(s) == /\ chain.pc \in {"idle", "ended", "broken"} /\ event < MaxEvents
             /\ scenarios[s].state # "deleted"
             /\ event' = event + 1
             /\ chain' = [NoChain EXCEPT !.pc = "runs", !.left = {s}]
             /\ touched' = {}
             /\ UNCHANGED <<scenarios, hooks, scenarioRuns, posted, ruleEdits>>

-----------------------------------------------------------------------------
(* run_scenario                                                             *)

NewRun(s) == [event |-> event, of |-> s, finished |-> FALSE, failed |-> FALSE, log |-> <<>>,
           did |-> <<>>, cut |-> FALSE]

\* The run's row comes first. It cannot refer to a scenario that is gone.
BeginRun(s) ==
    /\ chain.pc = "runs" /\ s \in chain.left
    /\ IF scenarios[s].state = "deleted"
       THEN Breaks /\ UNCHANGED scenarioRuns
       ELSE LET flow == scenarios[s].flow
                new == [chain EXCEPT !.left = @ \ {s}, !.of = s, !.pc = "walk", !.at = flow.entry]
            IN  /\ scenarioRuns' = scenarioRuns \cup {NewRun(s)}
                /\ chain' = IF flow.entry # Nowhere THEN new
                            ELSE [new EXCEPT !.failed = TRUE,
                                             !.log = <<[node |-> Nowhere, status |-> "failed"]>>]
    /\ UNCHANGED <<Rules, posted, event>>

\* Mutant: the entry is not counted among the nodes.
GuardShort == Cardinality(Nodes) - 1

\* visited_guard: one step more than there are nodes.
Guard == Cardinality(Nodes) + 1

Walking == chain.pc = "walk" /\ chain.at # Nowhere /\ chain.visits < Guard
OurFlow == scenarios[chain.of].flow
Kind == OurFlow.kind[chain.at]
StaysPut == UNCHANGED <<Rules, scenarioRuns, posted, event>>
Raises == Breaks /\ StaysPut

Noted(status) == [node |-> chain.at, status |-> status]
Logged(status) == Append(chain.log, Noted(status))
\* A node is done with, logged or not, and the walk goes on at another.
WalkOn(status, log, to) ==
    /\ chain' = [chain EXCEPT !.log = log, !.did = Append(@, Noted(status)), !.visits = @ + 1,
                              !.failed = @ \/ status = "failed", !.at = to]
    /\ StaysPut

Enter == Walking /\ Kind = "entry" /\ WalkOn("ok", chain.log, OurFlow.yes[chain.at])

\* What a handler does is done; what it raises is logged, and the walk goes on.
Act == /\ Walking /\ Kind = "action"
       /\ \E status \in {"ok", "failed"} : WalkOn(status, Logged(status), OurFlow.yes[chain.at])

\* An action no handler is wired to.
PassBy == Walking /\ Kind = "mockup" /\ WalkOn("skipped", Logged("skipped"), OurFlow.yes[chain.at])

Judge == /\ Walking /\ Kind = "condition"
         /\ \/ WalkOn("ok", Logged("ok"), OurFlow.yes[chain.at])
            \/ WalkOn("ok", Logged("ok"), OurFlow.no[chain.at])
            \/ Raises

Sift == /\ Walking /\ Kind = "filter"
        /\ \/ WalkOn("ok", Logged("ok"), OurFlow.yes[chain.at])
           \/ WalkOn("ok", Logged("ok"), Nowhere)
           \/ Raises

Stop == Walking /\ Kind = "end" /\ WalkOn("ok", Logged("ok"), Nowhere)

\* run.save(): a row that went with its scenario cannot be saved again.
CloseRun ==
    /\ chain.pc = "walk" /\ ~Walking
    /\ IF scenarios[chain.of].state = "deleted"
       THEN Breaks /\ UNCHANGED scenarioRuns
       ELSE /\ scenarioRuns' = (scenarioRuns \ {NewRun(chain.of)})
                 \cup {[NewRun(chain.of) EXCEPT !.finished = TRUE, !.failed = chain.failed,
                          !.log = chain.log, !.did = chain.did, !.cut = chain.at # Nowhere]}
            /\ chain' = [NoChain EXCEPT !.pc = "runs", !.cause = chain.cause, !.left = chain.left]
    /\ UNCHANGED <<Rules, posted, event>>

-----------------------------------------------------------------------------
(* Webhooks                                                                 *)

\* Only a creation has any. They are looked up when the scenarios are through.
ToHooks == /\ chain.pc = "runs" /\ chain.left = {}
           /\ chain' = IF chain.cause = "new_entity"
                       THEN [chain EXCEPT !.pc = "hooks",
                                          !.left = {h \in Hooks : hooks[h] = "on"}]
                       ELSE [NoChain EXCEPT !.pc = "ended", !.cause = chain.cause]
           /\ StaysPut

\* send_webhook: the call, and the row that says how it went. A refused URL, an
\* error and a timeout have their row too; a subscription that is gone has none.
Post(h) == /\ chain.pc = "hooks" /\ h \in chain.left
           /\ posted' = posted \cup {[event |-> event, of |-> h, kept |-> hooks[h] # "deleted"]}
           /\ IF hooks[h] = "deleted" THEN Breaks ELSE chain' = [chain EXCEPT !.left = @ \ {h}]
           /\ UNCHANGED <<Rules, scenarioRuns, event>>

AllPosted == /\ chain.pc = "hooks" /\ chain.left = {}
             /\ chain' = [NoChain EXCEPT !.pc = "ended", !.cause = chain.cause]
             /\ StaysPut

ProcessDies == chain.pc \in {"runs", "walk", "hooks"} /\ Raises

-----------------------------------------------------------------------------
(* The builder and the settings: switching on and off, deleting             *)

EditScenario(s) ==
    /\ scenarios[s].state # "deleted" /\ ruleEdits < MaxRuleEdits
    /\ \E state \in RowStates \ {scenarios[s].state} :
         /\ scenarios' = [scenarios EXCEPT ![s].state = state]
         /\ scenarioRuns' = IF state = "deleted" THEN {r \in scenarioRuns : r.of # s}
                            ELSE scenarioRuns
    /\ touched' = touched \cup {s}
    /\ ruleEdits' = ruleEdits + 1
    /\ UNCHANGED <<hooks, posted, event, chain>>

EditHook(h) ==
    /\ hooks[h] # "deleted" /\ ruleEdits < MaxRuleEdits
    /\ \E state \in RowStates \ {hooks[h]} : hooks' = [hooks EXCEPT ![h] = state]
    /\ posted' = IF hooks'[h] = "deleted" THEN {p \in posted : p.of # h} ELSE posted
    /\ touched' = touched \cup {h}
    /\ ruleEdits' = ruleEdits + 1
    /\ UNCHANGED <<scenarios, scenarioRuns, event, chain>>

AutomationNext == \/ Happen
                  \/ \E s \in Scenarios : RunNow(s) \/ BeginRun(s) \/ EditScenario(s)
                  \/ Enter \/ Act \/ PassBy \/ Judge \/ Sift \/ Stop \/ CloseRun
                  \/ ToHooks \/ AllPosted \/ ProcessDies
                  \/ \E h \in Hooks : Post(h) \/ EditHook(h)

AutomationSpec == AutomationInit /\ [][AutomationNext]_automationVars

-----------------------------------------------------------------------------
(* Properties                                                               *)

AutomationTypeOK ==
    /\ scenarios \in [Scenarios -> ScenarioRow]
    /\ hooks \in [Hooks -> RowStates]
    /\ chain.at \in Ends /\ chain.visits \in 0..Guard
    /\ \A r \in scenarioRuns : scenarios[r.of].state # "deleted"

\* Of some steps, those that were actions of a scenario with these nodes.
IsAct(step, kind) == step.node # Nowhere /\ kind[step.node] = "action"
ActsOf(steps, kind) ==
    LET acts[n \in 0..Len(steps)] ==
            IF n = 0 THEN <<>>
            ELSE IF IsAct(steps[n], kind) THEN Append(acts[n - 1], steps[n]) ELSE acts[n - 1]
    IN  acts[Len(steps)]

\* A finished run's log is what the walk did to the world, in its order, failures
\* included, and its status is failed exactly when a step was ("every failure mode
\* becomes a log entry, and status reflects whether anything failed", engine.py:386).
\* The guard cuts off a walk that goes round in circles, and no other.
RunsTellTheTruth ==
    \A r \in scenarioRuns :
       LET kind == scenarios[r.of].flow.kind
       IN  IF r.finished
           THEN /\ ActsOf(r.log, kind) = ActsOf(r.did, kind)
                /\ r.failed = \E i \in DOMAIN r.log : r.log[i].status = "failed"
                /\ r.cut => \E i, j \in DOMAIN r.did : i # j /\ r.did[i].node = r.did[j].node
           ELSE r.log = <<>>

RunsOf(s) == {r \in scenarioRuns : r.event = event /\ r.of = s}

\* A request that got to its end has followed up on what happened: each scenario
\* that waited for it has run once and to its end, no other has, and each webhook
\* was called once, and written down, after all of them. What somebody edits
\* meanwhile is left out.
FollowUpsAreMade ==
    /\ chain.pc = "ended" /\ chain.cause \in Triggers =>
         /\ \A s \in Scenarios \ touched :
              IF scenarios[s].state = "on" /\ WaitsFor(s, chain.cause)
              THEN \E r \in scenarioRuns : RunsOf(s) = {r} /\ r.finished
              ELSE RunsOf(s) = {}
         /\ \A h \in Hooks \ touched :
              LET calls == {p \in posted : p.event = event /\ p.of = h}
              IN  IF hooks[h] = "on" /\ chain.cause = "new_entity"
                  THEN \E p \in posted : calls = {p} /\ p.kept
                  ELSE calls = {}
    /\ \A p \in posted, r \in scenarioRuns : p.event = r.event => r.finished
=============================================================================
