# Revenact backend: formal models, checks and proofs

TLA+ models of the parts of this Django backend in which several requests, the
scheduler and crashes meet over shared rows; TLC configurations that check them
on small instances; and TLAPS proofs for every size. Paths below are relative to
the repository (`src/`). The backend is one process image run as `web`, as
websocket server and as a scheduler that sleeps and loops
(`docker-compose.yml`), over one Postgres database at READ COMMITTED. There is
no request-wide transaction (`ATOMIC_REQUESTS` is off) and no task queue, so
what is atomic is exactly what stands under `transaction.atomic()`, and what
excludes others is exactly what is selected `FOR UPDATE` or carried by a unique
index. That is what the models are about.

## 1. Inventory

| Part | State | Operations | Meets others through | Hard behaviour | Correct when |
|---|---|---|---|---|---|
| Credit ledger (`services/billing/ledger.py`, `accounts.py`) | `BillingAccount` (plan, status, seat limit), append-only `CreditLedger` rows with `balance_after` and `reference` | ensure, grant, consume, refund, adjust, expire_all, change_plan, set_seats | account row lock, unique `reference` | lost updates, replays, crash between plan and grant | rows chain, no debt, each reference once, a plan is credited |
| Paid model calls (`copilot/anthropic_client.py`, `usage.py`, `billing/credits.py`) | `ModelCall` rows (tokens), credits | get_completion: budget check, charge, call, refund, record | the ledger; every feature that asks the model | budget read unlocked, failure after the charge, death in between | an answer costs one credit, an error none; overshoot bounded |
| Seats (`billing/seats.py`, `signals.py`) | `SeatAssignment` rows | reserve, allocate, release, membership signal | account row lock | last seat raced, stale saves | active members are seated, within the limit |
| Users (`accounts/views.py`, `serializers.py`) | `User` (active, role, organisation) | PATCH, POST | seats, membership | unlocked load, whole-row save | somebody manages users; the owner's standing is theirs |
| Ownership (`identity/ownership.py`) | `OrganizationMembership.is_owner` | claim, transfer | one-owner index | two transfers at once | exactly one owner |
| Onboarding (`identity/onboarding.py`, `login.py`) | `AccessRequest`, `Invitation`, membership, `User.organisation` | request, approve, reject, invite, refresh, cancel, accept | partial unique indexes, one row lock | decisions on loaded copies, creations with nothing to lock | one open row per tenant, decisions final, in only by a decision |
| Domains (`identity/domains.py`, `admin_views.py`) | `OrganizationDomain` | claim, found, verify | row locks, index on verified rows | locks in any order, proof older than the commit | one proven holder, never unheld |
| Campaigns (`campaigns/views.py`) | `Campaign`, its recipients, `Email` rows | edit, delete, send | row lock, claim status | long send with no lock, crash in the middle | nobody mailed twice, what went out is what is shown |
| Sign-in codes, second factor (`identity/login.py`, `accounts/mfa.py`) | cache entries, `TOTPDevice` | issue, redeem, enrol, confirm, verify | cache, row lock on verify only | get-then-delete, two confirmations | a code is spent once |
| Segments (`segments/nightly.py`, `baseline.py`, `views.py`) | `Segment` (rules, last members, paused, last evaluated), `SegmentChange`, the alert | evaluate nightly, edit, rebaseline, delete | segment row lock, the records of the book | a late or second scheduler, an edit between two nights, a pause, a list too long to keep | the changes add up to the members, a day is told once to an owner who asked |
| Mailbox sync and sending (`mail/sync.py`, `views.py`) | `MailboxConnection` (cursor, credentials), `MailMessage`, `Email` | sync_mailbox, send, reply, flag, connect, disconnect | provider | overlapping passes, whole connection saved late, send before its rows | what the cursor passed is there, once, as the person left it |
| Ticket connectors (`connectors/sync.py`, `views.py`) | `Connector` (cursor, secret), `Ticket` | sync_connector, inbound push, connect, disconnect, switch off | provider, unique external id | check then create, cursor saved after the tickets | no change passed over, no ticket taken back |
| Feature requests (`requests/gather.py`, `views.py`); anomalies (`anomalies/detect.py`) | requests, evidence, centroids; clusters | gather, merge, move, dismiss, edit; detect | unique evidence, the model | snapshots shared by two passes, people who act while the model thinks | what a person took out stays out, a merge stays, a centroid is that of its asks |
| Knowledge (`knowledge/gaps.py`, `aging.py`, `mentions.py`, `views.py`) | `Question`, `KnowledgeGap`, `Contribution` | record_unanswered, sweep, nudge, route, answer, contribute, dismiss | unique fingerprint, one transaction per sweep of a question | jobs that die half-way, repeats | a swept question is in a gap, nothing counted or sent twice |
| Scenarios, webhooks (`scenarios/`, `webhooks/`) | `Scenario`, `ScenarioRun`, `WebhookSubscription`, `WebhookDelivery` | run at an event or by hand, call, switch on and off, delete | signals after the save, in the same request | a node that fails or raises, a row deleted meanwhile, a graph with a cycle | each follow-up once, the log is what was done |
| Metrics proposals (`metrics/proposals.py`) | proposals, initiatives | draft, decide, record | - | two deciders | decided once |
| Copilot (`copilot/*`) | conversation, its session and invitations, messages | make live, invite, hand off, answer, close, post; ask, stream | model calls, websocket | session read at the start and saved at the end | access along chains of accepted invitations, a closed session is quiet |
| Attention, notifications, translation | one row per user and item; notifications; cached texts | snooze, notify, translate | unique keys, websocket | out-of-order answers | nothing of consequence between requests |
| Readings (`customers/classification.py`, `calls.py`, `contact_sentiment.py`, `metrics/feedback.py`) | `ai_*` and sentiment of calls, emails, tickets; `Contact.sentiment` | classify on arrival, nightly, again; correct; recompute; PATCH | the model, no locks | corrections while a pass waits, copies saved late | a correction stands, a contact sounds as what they wrote |
| Customers, portfolio, account story, custom objects, attributes, FX, MCP, platform console | the book of business | CRUD, lists, exports, bulk edits | - | little | query semantics |
| core, config, scripts, e2e | audit events, throttle counters | append, count | - | - | - |

`PROJECT.json` lists the same parts with their files and, under `hazards`, each
behaviour that a test would hardly reach, at its line, with the property that
catches it or the reason there is none.

## 2. Modules

```
CreditAccount <--refines-- CreditLedger <--extends-- ModelCalls
                                |                        |
                          MCCreditLedger                 |
Members ---- MCMembers                                   |
   |                                                     |
Domains ---- MCWaits          Campaigns  Onboarding  SecondFactor  Automation
                                         \___________|___________/
Segments --- MCSegments                            MCDesk
Readings --- MCReadings       Requests  Knowledge  Sessions ---- MCBook
                              MailSync  TicketSync ------------- MCSyncs

Proofs:  CreditLedgerProofs <-- ModelCallsProofs <-- DeskProofs (MCDesk)
         MembersProofs (MCMembers)   DomainsProofs   NightlyProofs (Segments, Readings)
         BookProofs (MCBook)         SyncsProofs (MCSyncs)
```

In all of them a *worker* (under the name its module gives it) is whoever executes
code for one request: a web thread or the scheduler. A record per worker (`pc`,
`job`, `req`, `op`, `act`, `chore`, ...) says between which two database
statements it stands and what it carries in local variables. A step is what READ
COMMITTED lets nobody see in halves: a transaction's writes become visible in its
commit step, and the steps before it only read, take locks and fill locals. Where
the code has no transaction, every statement is a step of its own. Row locks are
a variable (CreditLedger, Members, Segments), a set of locked rows per worker
(Domains), or the `pc` of the only section that holds one (Onboarding, Campaigns,
SecondFactor). A crash rolls back: locals and locks are gone, committed rows stay.

MCWaits, MCSyncs, MCDesk and MCBook put components that share *no* state into one
run. A variable `part`, which never changes, says which of them a behaviour is
about, so nothing of one component is ever concluded from another; what they save
is start-up and one configuration each. MCMembers does the same with two modes of
one component. A part or mode that is *serial* has one request under way at a time:
it asks whether rules that are read without a lock are right in themselves, over
any sequence of whole requests and of requests that give up half-way. With two at
once the code breaks those rules (section 5), which is why they are stated so.

### CreditAccount, CreditLedger (billing/ledger.py, accounts.py)

One organisation. `ledger` is the committed rows, `plan` the committed account
row (`NoPlan`: none yet). A movement begins (`Grant`, `Consume`, `Refund`,
`Adjust`, `ExpireAll`, `ChangePlan`), takes the row lock (`LockRow`, `_locked`),
reads the balance (`ReadBalance`, the first half of `_append`), is refused
(`RefuseOverdraft`, `RefuseReplay`) or inserts and commits. The code checks the
balance before the insert meets the unique index, and so does the model. `ensure`
is `Ensure`, `LookUp`, then `Got` or `Created`, the two outcomes of
`get_or_create`. A plan change's reference names a second: `PlanRef[p]` is the set
of references the clock can produce, so two changes within a second are the same
reference, which change_plan swallows.

`CreditAccount` is what callers are promised: one balance that each movement
changes in one step, never into debt, and references applied once. `Promise` in
CreditLedger maps `opened` to "there is an account row", `credits` to the last
row's `balance_after` and `applied` to the references in the table.

### ModelCalls (copilot/anthropic_client.py, usage.py, billing/credits.py)

`get_completion` around CreditLedger's own actions: `StartCall` (the budget, read
unlocked), `Charge`, `Charged` / `Exhausted`, `BuildClient`, `Answer` / `Fail`,
`Refunded`, `Die`. Every phase is interleaved with the others' movements.
`enforced` is `BILLING_ENFORCED`, either way. `NewMonth` is the calendar. Every
other part of the program that asks the model does it through this function; those
models take the answer as a choice and leave the price to this one.

### Members (accounts/views.py, billing/seats.py, identity/ownership.py)

One organisation's people. `users` are `User.is_active` and `User.role`, `joined`
the membership (live, role, owner), `seated` who has an open seat, `limit` the
account's. A PATCH is `Load` (the row, before any lock), `Validate` or `Invalid`,
`ReserveAgain` for a reactivation, `Save`, `Seat`, `CommitPatch`; `Draft` is the
row that is written: the *loaded* copy with the body's fields on top. An
admission is `Approve`, `Reserve`, `CommitAdmission`; a transfer `LoadTransfer`,
`CommitTransfer`. A PATCH holds the user row and then wants the account, an
admission the other way round; `Abort` is Postgres' deadlock detector.

### Onboarding (identity/onboarding.py, login.py, admin_views.py)

One address, several organisations. `requests` and `invitations` are the rows in
order of creation; `lapsed` is `expires_at` passed; `home` is where the address's
domain leads. Decisions load, look, and later write by primary key (`LoadRequest`
then `CommitApprove` / `CommitReject`; `LoadInvitation` then `CommitCancel`).
`invite` is `LookForInvitation`, `CreateInvitation` or `Refresh`, of which only
the refresh holds a lock (`Held`). `AskToJoin` / `CommitRequest` is
`request_access` in a transaction of its own, as its tests call it; `Wait` is the
same inside the sign-in, where it is rolled back (section 5).

### Domains (identity/domains.py)

One domain, several organisations. `verify` is `Load`, `LookUp` (the resolver),
`Select` (the rows it wants), one `LockOther` per row, `Promote`; a row revoked
while it was waited for is passed over, as READ COMMITTED re-checks the
condition. `Promote` fails as a whole on the index of verified rows. `Claim` and
`Found` look and commit in two steps each.

### Campaigns (campaigns/views.py)

One campaign. An edit is `Open` (`get_object`, unlocked), `LockForEdit`,
`CommitEdit`; a send is `Claim`, `CommitClaim`, then per recipient `Mail` and
`Record`, then `CommitSent`. `job.copy` is the row as it was loaded; `Saved` is
what `serializer.save()` writes from it. `mailed` counts what left, `emails` the
rows, `sentOut` what the claim read.

### SecondFactor (accounts/mfa.py)

One person's `device` row. An enrolment (`Setup`, `Confirm`) reads the row and
saves all of it in a later step, under no lock (`SaveSetup`, `SaveConfirm`). A
sign-in (`Present`) or a switch-off locks the row for as long as it takes
(`DeviceFree`), then `AcceptCode` or `TurnOff`. A code is the app's, for a secret
and a step of thirty seconds with a step's drift either way (`Matches`), or one
of a printed batch. `uses` counts the acceptances of each, `crossed` remembers
that an enrolment was saved over a row changed since it was read.

### Segments (segments/nightly.py, baseline.py, views.py)

One segment and the records of the book, whose `place` moves under it. The rules
are the value they select. A night is `StartNight` (the lock, the once-a-day gate
`DoneFor`; `Skip`, `Pause`, `Begin`), `Count` and `Read`, two queries that may see
two states of the book, and `Commit`: `Restart` when last night's members are not
to be compared with, else `Compare`, which writes the change rows and, by `Tell`,
the alert, when there is a change and the owner asked for alerts (`tells`, the
field `alert_on_changes`: off by default, and read under the lock). `wanted`
remembers the days compared while they did. More members than `MaxTracked` are
counted and not kept. Edits rebaseline under the same lock, unless they only switch
the alerts; `Fail` is a pass that rolls back, which leaves the segment due.

### MailSync (mail/sync.py, mail/views.py)

One mailbox. `listed` is the provider's log, a cursor is how much of it was seen.
A pass is `StartSync` (it loads the connection), `Fetch`, `Look` (which of the
batch are there), `CommitSync`: one transaction for the messages and for the
connection as it was loaded. A send is `StartSend`, `ProviderSends`, `FileSent`
(the Email), `KeepSent` (the copy), with a death possible in between. `named` says
whether the provider gives an id for what it sends; where it does not, the copy is
a placeholder that a later pass recognises (`RowOf`).

### TicketSync (connectors/sync.py, connectors/views.py)

One connector. `StartPass` loads it, `Pull` asks the source, `LookUp` finds the
tickets that exist, `CommitTickets` files them in one transaction and
`SaveConnector` saves the cursor after it; a pass may die between the two. `Push`
is the inbound endpoint. A ticket's row is the change it shows.

### Requests (requests/gather.py, views.py)

An embedding is the unit vector of the topic it stands for, and different topics
have nothing in common; so two new asks are one group when they have one topic. A
centroid is the normalised mean of the vectors of a set of asks, and the model
keeps it as that set (`Centre`): its cosine with a topic is n / sqrt(sum of the
squares of all n), with n the number of its asks about a topic, and `Matches` and
`Nearer` compare the squares in integers (`MATCH` = 0.6; a tie goes to either). A
merge of unequal requests dilutes the smaller one: with one ask of two its cosine
is 0.71, with one of three 0.45. Embeddings that resemble each other only in part
are left out. A pass is `StartGather` (the snapshot), `Link` to the nearest,
`RecentreTouched`, and one `CreateGroup` for each group the model named, which drops
what somebody has filed or dismissed meanwhile (`Grouped`). `Merge`, `Move` (with
`RecentreMoved`, the target first and then the source) and the edit write objects
they loaded before; nothing is locked.

### Knowledge (knowledge/gaps.py, aging.py, mentions.py, views.py)

One customer. The sweep is `StartSweep`, then per question `FindGap` and `Raise`
(one transaction: the gap and the mark), the reminders `StartNudge`, `Remind`,
`MarkNudged`. `AskCopilot` / `RecordAsk`, `AnswerGap` / `ContributeToGap` /
`CommitContribution`, `LoadQuestion` / `WriteAnswer` / `CloseQuestion` and the
dismissal are the requests.

### Sessions (copilot/views.py)

One conversation's session. A request checks once and writes its rows one by one:
`MakeLive` / `OpenSession` / `SaveLive` / `Join`, `Handoff` / `OpenSession` / `Join` /
`SaveInvite` / `SaveAwaiting`, `Invite` / `SaveInvite`, `Accept` or `Decline` /
`SaveAnswer`, `Close` / `SaveClosed`, `Send` / `StoreReply`. `OpenSession` is there for
those that found no session (`IfNone`). `Holders` is `grant_holders`: the fixed point of "invited,
accepted, by one who holds a grant".

### Readings (customers/classification.py, calls.py, contact_sentiment.py, metrics/feedback.py)

One contact and what they said and wrote. A pass takes `Pending` records, marks
those without words, asks the model for the rest (`Ask`, which may leave records
out or fail), writes each from its copy (`Write`), and then recomputes the people
concerned: `LoadPeople`, `Hear` (the query), `SaveLabel`. Arrivals, the night and
`--reclassify` differ in what they take. `OpenRecord` / `Correct` is a person's
correction, `SaveContact` the PATCH of a sentiment set by hand.

### Automation (scenarios/engine.py, signals.py, webhooks/engine.py, signals.py)

What follows an event within its request: `Happen` looks the scenarios up,
`BeginRun` inserts a run, one step per node walks it (`Enter`, `Act`, `PassBy`,
`Judge`, `Sift`, `Stop`) until the end or the guard, `CloseRun` saves the log; then
`ToHooks` and a `Post` per webhook. A node is what its handler can do to the walk.
`EditScenario` and `EditHook` switch and delete rows meanwhile.

## 3. Runs

| Run | Instance | Asks |
|---|---|---|
| `ledger` | 2 workers, trial and one plan, 4 references (one free for callers), ledger up to 3 rows | `BalanceChain`, `PlanIsCredited`, the refinement `ImplementsAccount`, `EveryMovementSettles` |
| `members` | 3 people, 2 workers, limits 1 to 3 (seats); one request at a time, 2 roles, every body (standing) | `ReservationHolds`, `ActiveMembersAreSeated`, `ExactlyOneOwner`, `SerialRulesHold` |
| `waits` | one domain, 3 organisations, 2 workers; 2 people, limits 1 to 2, 2 workers | `OneVerifiedHolder`, `NeverUnheld`, `EveryRequestEnds` |
| `segments` | 2 records, 1 tracked, alerts wanted or not, 2 workers, 3 days, one edit, one failure | `TypeOK`, `HistoryIsTrue`, `OneAlertPerChangedDay`, `GapIsNotReported`, `DueIsEvaluated` |
| `readings` | a call that may be wordless, an email, one request beside the night | `ReadingTypeOK`, `CorrectionsStand`, `PeopleCatchUp` |
| `syncs` | a message received and one sent, a log of 2, 2 connections, 2 workers; 2 tickets, 2 changes, 2 secrets, 2 workers | `TypeOK`, `MailboxIsTrue`, `PullsLoseNothing`, `EverythingComesIn` |
| `desk` | calls: 2 workers, 3 calls, 2 trial credits, budget 2, billing enforced or not; campaign: 2 contacts, an editor who sees both and one who sees one; letting in: 2 tenants, 2 workers over up to 3 rows, or one at a time over 3 requests; second factor: 2 browsers, 2 secrets, 2 printed codes; automation: two scenarios in every standing and one of every graph over an entry and two nodes, one webhook, one event, one edit | `DeskTypeOK`, `CallsArePaidFor`, `MailedOnce`, `SentAsShown`, `UnseenAreKept`, `OneOpenRowPerTenant`, `DecisionsAreFinal`, `CodesAreSpentOnce`, `RunsTellTheTruth`, `FollowUpsAreMade` |
| `book` | requests: 2 topics; 2 workers over 2 asks and 2 requests, or one at a time over 4 asks and 3 requests; knowledge: 2 questions, one subject, 2 functions, 2 days; session: an owner and 2 guests, 2 requests at once | `TypeOK`, `EvidenceIsRight`, `MergesStay`, `SweptIsFiled`, `JobsDoNothingTwice`, `GrantsFollowChains`, `SessionIsKept` |
| `onboarding_waiting` | 1 worker | `WaitingIsRecorded` is violated |
| `sent_twice` | as `syncs` | `SentIsFiledOnce` is violated |
| `handed_back` | an owner and 2 guests | `HandoffCanBeTaken` is violated |
| `answers_fill_gaps` | one question | `AnswersFillGaps` is violated |

**Histories.** Some properties leave out, by a history variable the comment at its
declaration explains, behaviours in which the code is known to fail: `overlapped`
(MailSync, Sessions: two requests at once), `raced` (TicketSync), `mixed`
(Requests), `crossed` (Knowledge, SecondFactor), `touched` (Automation: rows edited
since the event). What is left out is listed in section 5; everything else about
those behaviours is still checked.

**Bounds.** Every race in this code is between two requests over one row, or over
two rows that are each the other's; two workers reach it, and the proofs cover
more. Three people are two who want the last seat and one who has one. Three
ledger rows are the trial, a movement and one that depends on it; `MaxRows` stops
new movements only, those begun still end. Three calls let two fly together and a
third find what they left. Two requests per person cover one decided and one open,
or one at each of two tenants; three, a chain of decisions. Three organisations
let two verifications each have a row of somebody else's to lock. Three days are a
night, a pause or an edit, and the night after. Two log entries are a change and
the one that supersedes it, so that a slow pass can carry the older. Two graphs'
nodes beside the entry make a cycle, a branch, and a failure before a success.
Four asks are a request of two and one of one that is merged into it, or two of
one, and one more ask about the one that went; three requests are those two and
the one that would be raised again: the run raises it where a third of the asks or
fewer are about the topic (section 5), and not where half of them are.
Two guests are the shortest chain of invitations that can be closed to a ring.
Where symmetry is declared (members, desk, book) the symmetric constants occur in
no ASSUME and no action by name, and the run checks no liveness. `desk`, `book`
and `syncs` switch the deadlock check off: a deleted campaign, a closed session
and a mailbox disconnected for good leave nothing to do.

**Fairness.** Five runs assume it, of the scheduler and of steps already under way
only; crashes are allowed for ever, and no person ever has to ask for anything.

- `ledger`, `waits`: a worker that can go on does (a statement returns, a resolver
  is given up on in time); a row lock goes to each of its waiters in turn (strong
  fairness of the step that waits: Postgres queues waiters); the deadlock detector
  wakes up (`Abort`, weak: a deadlock stays until it is broken).
- `segments`: the scheduler's loop starts a night when one is due and a
  transaction that can go on does. Days pass only when they do, and failures are
  bounded.
- `readings`: the nightly job starts again and again and every reader goes on.
  `PeopleCatchUp` asks for what follows once records stay as they are, no pass is
  cut short and nobody sets a sentiment by hand.
- `syncs`: the scheduler runs a pass every few minutes and one that began goes on.
  `EverythingComesIn` asks for what follows once nothing breaks off any more.

## 4. Proofs

The eight proof modules hold for any number of workers, people, organisations,
contacts, records, codes and so on; all they assume are the constants' own ASSUMEs
(which TLC evaluates in the runs). They say that the "none" values are not among
the real ones (`NoRecord`, `NoMailbox`, `Unfiled`, `Anybody`, ...), that what the
database holds finite sets of is finite (`People`, `Viewers`, `Workers`,
`Handlers`, `Interactions`, ...), that bounds are numbers, and, in `CallReferences`,
that no two calls share a reference and no plan has one of theirs, which is how
`credits.py` makes them. Each component has an inductive invariant, one lemma per
action that can disturb it, and theorems read off it.

- **CreditLedgerProofs.** `BalanceChain` is not inductive: a worker may be about
  to insert a row computed from an older balance. `IInv` adds that whoever is
  inside holds the lock (so there is at most one), that the balance it has read
  is still the balance, that an inserted row's reference is still unused, and
  that a worker ready to commit without a row has a reason to. Theorems:
  `TypeCorrect`, `NoLostUpdate`, `Idempotent`, `PlansAreCredited`, and
  `Refinement`: every step is a step of CreditAccount or a stutter.
- **MembersProofs.** `ReservationHolds` needs that only the lock's holder may add
  a seat or change the limit, whoever closes one only makes room, and that what a
  worker has decided to do with a seat (`seatOp`) stays right while it holds the
  user's row. `ActiveMembersAreSeated` needs that a PATCH which writes "active"
  opens the seat or found it open, and that nobody closes it in between.
  `TurnInv` is for requests that come one at a time: somebody manages users, and
  what the running request has checked still holds, since nobody else writes
  (`FitsNow`); from it follow the lockout rule, the owner rule and the seat limit.
  Theorems: `TypeCorrect`, `SeatsArePromisedOnce`, `MembersAreSeated`, `OneOwner`,
  `RulesHoldInTurn`.
- **DomainsProofs.** A row held by a verification is live and held by nobody
  else, and an organisation that is being founded has no row anybody else knows.
  Theorems: `TypeCorrect`, `LocksHold`, `OneHolder`, and the action property
  `AlwaysHeld`.
- **ModelCallsProofs.** The steps of a call are steps of the ledger, so `IInv` is
  kept as it was proved; `CallInv` adds the thread from a call's phase over the
  movement its worker is making (`Moving`) to the rows that carry its references,
  which nobody else's movement can carry (`Knowing`, `OwnCalls`, `Settled`).
  Theorems: `CallInvariant`, `PaidFor` (`CallsArePaidFor`), `BudgetHolds` (whoever
  is past the unlocked budget check counts for one answer), and `CallsImplementAccount`.
- **DeskProofs.** *Campaigns*: under the row lock the campaign is a draft; a draft
  has reached nobody; a worker that mails has claimed the campaign, is the only
  one, and has left to do only contacts that were not reached. What an editor
  cannot open is read under the lock and put back by the save (`HiddenOnesStay`).
  *Second factor*: whoever holds the row has a code in hand that was never used;
  every used code is behind the row's last step or off its list; what was not
  generated yet was not used. *Onboarding*: a row is decided once; what a worker
  has loaded is still the row it means; a row that is being refreshed is pending,
  since whoever accepts or cancels it waits for its lock; hence one open row
  (`OneRowIsOpen`) and no decided row that waits again. For requests one at a time
  `AloneInv` adds that what a worker has seen is so, and that a decision and being
  in go together. *Automation*: a scenario is among those left, or is being
  walked, or has had its one run; a walk's log and what it did have the same
  actions; a walk of more steps than nodes has met a node twice (a pigeonhole
  argument), so only a circle is cut off. *Side by side*: a behaviour of MCDesk is
  one of every part, and one of "one" has one request at a time, which gives
  `DeskTypes` and `DecisionsStayMade`. Other theorems: `ReachedOnce`,
  `WhatWentOutStays`, `SpentOnce`, `EverythingIsFollowedUp`, `LogsAreTrue`.
- **NightlyProofs.** *Segments*: what a transaction has read of the row stays so
  while it holds the lock; its day is later than the row's, and no change row is
  later than the row's day, so what a night writes is the last word on each record
  it names. From that the history adds up: `TypeCorrect`, `HistoryAddsUp`,
  `OneAlert`, `Forward` (no pass goes back to a day it has had), `PauseIsSilent`.
  *Readings*: `ReadingInv` says that a worker has loaded whatever it writes, that
  only a person's request is at a correction, that a corrected row has been read
  (so the nightly query leaves it out), and that a pass which is not told to
  include corrected rows has loaded none. Theorems: `ReadingTypes`,
  `CorrectionStands`.
- **BookProofs.** *Sessions*: who hands off is in, who answers was invited, and
  while requests do not overlap what one has checked stays so; whoever is out of
  the rounds of grants is in a set nobody outside has invited anybody into
  (`GrantsAreChained`). *Knowledge*: a question that was swept is in a gap, and,
  while nothing crosses, a gap counts each of its questions once (`SweepsAreFiled`,
  `NothingIsDoneTwice`). *Requests*: whoever writes an ask's request or a centroid
  is alone with it unless passes have mixed, and a rejected ask stays out
  (`EvidenceStaysRight`). What a request got since a pass began is near what the
  pass has of it (`Shown`); a centroid is near every topic that half of its asks are
  about, since the pairs about one topic are pairs of those or of the others, who
  are no more (`HalfIsNear`). So what such a request has is never left over for a new
  one (`MergesAreNotUndone`). `SessionsAreKept` joins
  `AccessNeedsAnAnswer` and `ClosedSessionsAreQuiet`; `BookTypes` is for all three.
- **SyncsProofs.** *Tickets*: while passes do not overlap, a pass finds the tickets
  filed as far as the cursor it starts from, and what it has looked up follows
  the source up to its page (`NothingIsLost`). *Mail*: a pass has, for what its
  cursor passes, a copy of each message, whatever it overlaps with; that the
  copies are one per message and up to date is an invariant of workers that take
  turns (`InTurn`). Theorems: `MailInvariant`, `WhatWasListedIsThere`, `SyncTypes`.

What the code computes in rounds or by counting (who sees a session, the last log
entry about a ticket, the smallest free number) is a recursive function, a fold
or a CHOOSE in the models. The library's induction theorems take an operator,
which the installed provers cannot instantiate; the proofs induct over a *set*
instead, from finite sets being well founded under strict inclusion
(`FS_StrictSubsetOrderingWellFounded`, `WFMin`): of the rounds at which a claim
would fail there is none that is smallest (`SmallestNumber`, `LargestNumber` and the
lemmas that cite them).

Only model-checked: liveness (`EveryMovementSettles`, `DueIsEvaluated`,
`EveryRequestEnds`, `EverythingComesIn`, `PeopleCatchUp`), for which the prover has no
rule; and the four violations, which are counterexamples. Every other property of
a passing run is stated by a theorem.

## 5. Where the code and its documents differ

With a run:

- `onboarding_waiting`: the sign-in tells a newcomer to wait by an exception that
  leaves `transaction.atomic()` in `login.complete`, and so rolls back the very
  request they are to wait for (`identity/login.py:330`).
- `sent_twice`: a mail sent through a provider that gives no id for what it sends
  is filed on the customer's timeline a second time when the next pass lists it
  (`mail/sync.py:310`); the mailbox's own copy is recognised, the Email is not.
- `handed_back`: a session handed back to the one who had invited cannot be
  taken: the hand-off resets the invitation both were in by
  (`copilot/views.py:1561`).
- `answers_fill_gaps`: the answer to a routed question is a contribution that
  fills no gap (`knowledge/mentions.py:223`; `docs/API_CONTRACTS.md:5991`).

Seen while modelling, without a run of their own. Most can be reproduced by
dropping the history condition of the property named, or by stating the sentence
as an invariant of the module:

- Members: two overlapping requests can leave nobody who manages users, re-role
  the owner, or exceed the seat limit by a PATCH that saves a stale copy
  (`accounts/serializers.py:596-618`, `accounts/views.py:538, 550`). A PATCH with
  a role writes `User.role` and never `OrganizationMembership.role`, though
  `identity/context.py:112` relies on both agreeing.
- Onboarding: a rejection or a cancellation that looked before an approval or an
  acceptance is written after it (`identity/onboarding.py:431, 511`).
- Domains: two founders who both find a domain unclaimed both claim it
  (`identity/onboarding.py:170`).
- Campaigns: `perform_update` saves the whole row it loaded before the lock, so of
  two editors the later takes the earlier's field back (`campaigns/views.py:145`);
  a crash between a mail and its row leaves a contact mailed without an `Email`.
- Credits: a worker that dies between charge and answer leaves the credit taken.
  `balance()` orders rows by `created_at`, a host's clock (`billing/ledger.py:20`).
- SecondFactor: a setup or a confirmation saved over a row that changed meanwhile
  brings back a spent code, un-confirms the device or re-creates a disabled one
  (`accounts/mfa.py:117-145`). The hand-off and setup codes of a sign-in are read
  from the cache and then deleted, so two redemptions at once both succeed
  (`identity/login.py:396`).
- MailSync: a slow pass, or one in flight over a disconnect, saves the connection
  it loaded over the new one; overlapping passes leave older flags behind the
  cursor, and a send and a pass that overlap make two copies; a second send with
  the same subject within ten minutes adopts the first one's placeholder; the
  Gmail listing is newest first and stops at 500 (`mail/providers/google.py:139`);
  connecting again after a disconnect files old mail again; a `DatabaseError` in
  one mailbox ends the loop over the others.
- TicketSync: a pass in flight undoes a disconnect; overlapping passes may leave a
  ticket's older state behind the cursor.
- Requests: `requests/gather.py:211-213` and `views.py:155-156` say that without its
  recentre a merge would undo itself, because the survivor's centroid "would still
  not match the asks folded into it". With it that may be so as well: the mean of
  two asks about one topic and one about another has a cosine of 0.45 with the
  latter, below `MATCH`, so the next such ask raises the request again that was
  merged away (put "a third" for "half" in `MostlyAbout`, and `book` finds it). Two
  overlapping gathers can leave a request without asks
  (`requests/gather.py:268`); the whole-row save of an edit restores an old
  centroid or a request merged away; recentring a request that was merged away
  ends the pass or the move.
- Knowledge: the one who loses the race to make a gap is not counted
  (`knowledge/gaps.py:54-64`); a dismissal that races an answer overwrites it; a
  question can be answered twice; a reminder that went out before a crash goes
  out again.
- Sessions: a request in flight reopens a session that was closed meanwhile, and a
  reply is stored after the close.
- Readings: a pass that waits for the model overwrites a correction made
  meanwhile; clearing the classification of a record that was never read makes it
  neutral evidence. `classify_interactions` says that it is not wired into
  `run_health_maintenance`, which calls it.
- Automation: a condition that raises, a node without an id, or a scenario or
  webhook deleted meanwhile ends everything after it, leaves the run "success"
  with an empty log, and answers a creation with an error though the row exists
  (`scenarios/engine.py:385` says "Never raises"). Raised in a classification, it
  stops the batch behind it.
- Anomalies: a resolved cluster met again becomes a new one without evidence, the
  tickets of the boundary day are read twice (`anomalies/detect.py:150-156`), and
  overlapping passes leave clusters without evidence.
- Metrics: approving and rejecting a proposal decide from an unlocked read, so it
  can be decided twice; a crash between the task it makes and its own save leaves
  it undecided with the task made.

## 6. Not modelled

Providers, HTTP, encryption, templates, query compilation, derived figures and
exports: they keep no state between requests, or their correctness is arithmetic
or query semantics. The greater part of the code by lines is that: the CRUD views,
serializers, models and list filters of the book of business
(`services/customers/views.py`, `models.py`, `serializers.py`), Copilot's prompt
assembly and retrieval, seeding commands and migrations. Clocks are
nondeterministic choices (a lapse, a month, the second of a reference); the order
of `created_at` between hosts is taken to be the order of commits. Passwords,
bearer tokens and their revocation, the cached codes of a sign-in, and the linking
of identities are not modelled. Audit events are left out. Ids, texts, names,
embeddings and amounts are model values or small numbers. Anomaly detection and
metrics proposals were read (section 5) and not modelled: the first follows from
distances between vectors, the second is one view over one row.

## 7. Plan

1. Abstract specifications beside CreditAccount that a detailed module implements,
   with the simulation proved step by step over the invariants above: a campaign
   as one atomic send, a segment as one atomic night.
2. `Proposals` (`metrics/proposals.py`): drafted, decided, executed, with two
   deciders and a crash between the task and the save.
3. `SignInCodes` (`identity/login.py:334-405`): the cache's get and delete as two
   steps, with tokens and their revocation after the PATCH's commit.

New runs take the place of the least telling ones where a run's question is
answered by a theorem.

## 8. Running

```
cd tla
tlc -workers 2 -config MCCreditLedger.cfg MCCreditLedger
tlapm CreditLedgerProofs.tla
```

`desk` and `syncs` take two to three minutes with two workers, the others less.
Every run is listed in `PROJECT.json` with its module and configuration. Under
`mutants` each property has a changed definition (a dropped guard, a missing
lock, a swapped order) that is a plausible bug of the code it is mapped to, and
that the property must catch. Under `hazards` is each behaviour that a test would
hardly reach, at its line, with the properties that catch it; `theorems` lists
what is proved.
