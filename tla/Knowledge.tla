------------------------------ MODULE Knowledge ------------------------------
(***************************************************************************)
(* What the company cannot answer about ONE customer (knowledge/gaps.py,   *)
(* aging.py, mentions.py, views.py): questions routed to a person, the     *)
(* nightly sweep that makes a gap of a stale one, the nightly reminders,   *)
(* Copilot questions nobody could answer, and the contributions that fill  *)
(* the gaps.  Nothing takes a lock; the sweep of one question and a        *)
(* contribution with the gaps it fills are one transaction each.           *)
(*                                                                         *)
(* A subject stands for the fingerprint of a text.                         *)
(***************************************************************************)
EXTENDS Integers, FiniteSets

CONSTANTS
    Questions,      \* Question rows
    Subjects,
    Functions,      \* the parts of the company
    Askers,         \* the requests and nightly jobs there may be at once
    StaleDays,      \* an open question is stale after so many
    MaxAsks,        \* bound: Copilot questions per subject
    MaxDay          \* bound: days

Anybody == "anybody"        \* function = ""

ASSUME KnowledgeConstants ==
    StaleDays \in Nat /\ MaxAsks \in Nat /\ MaxDay \in Nat /\ Anybody \notin Functions

VARIABLES
    subject,        \* what each question asks
    owes,           \* the function of whoever it is put to
    question,
    gap,            \* per subject, the KnowledgeGap row or NoGap
    day,
    chore,          \* per worker: where it is
    came,           \* Copilot questions recorded while their gap was not closed (history)
    joined,         \* questions swept while their gap was not closed (history)
    reminded,       \* per question, the night of its last reminder (history)
    crossed         \* two workers were at it at once (history)

knowledgeVars == <<subject, owes, question, gap, day, chore, came, joined, reminded, crossed>>

Never == -MaxDay - 1
NoGap == [status |-> "none", function |-> Anybody, asked |-> 0, named |-> FALSE]
NoChore == [pc |-> "idle", todo |-> {}, one |-> "-", seen |-> NoGap, by |-> Anybody, since |-> 0]
Unasked == [status |-> "none", asked |-> 0, swept |-> FALSE, nudged |-> Never]

KnowledgeInit ==
    /\ subject \in [Questions -> Subjects] /\ owes \in [Questions -> Functions]
    /\ question = [q \in Questions |-> Unasked]
    /\ gap = [s \in Subjects |-> NoGap]
    /\ day = 0
    /\ chore = [w \in Askers |-> NoChore]
    /\ came = [s \in Subjects |-> 0]
    /\ joined = {}
    /\ reminded = [q \in Questions |-> Never]
    /\ crossed = FALSE

Begins(w, new) ==
    /\ chore[w].pc = "idle"
    /\ chore' = [chore EXCEPT ![w] = new]
    /\ crossed' = (crossed \/ \E v \in Askers \ {w} : chore[v].pc # "idle")
GoesOn(w, new) == chore' = [chore EXCEPT ![w] = new] /\ UNCHANGED crossed
Finishes(w) == GoesOn(w, NoChore)

Stale(q) == question[q].status = "open" /\ question[q].asked + StaleDays <= day

-----------------------------------------------------------------------------
(* record_unanswered                                                        *)

\* The row after somebody asked, given the row that was found: it is counted as
\* long as it was open then; a row made meanwhile refuses the insert, and nothing
\* more comes of it.
Recorded(s, seen, function) ==
    IF seen.status = "open" THEN [gap[s] EXCEPT !.asked = @ + 1]
    ELSE IF seen = NoGap /\ gap[s] = NoGap
         THEN [NoGap EXCEPT !.status = "open", !.function = function, !.asked = 1]
         ELSE gap[s]

\* The Copilot had nothing to answer from.
AskCopilot(w, s) ==
    /\ came[s] < MaxAsks
    /\ Begins(w, [NoChore EXCEPT !.pc = "ask", !.one = s, !.seen = gap[s]])
    /\ UNCHANGED <<subject, owes, question, gap, day, came, joined, reminded>>

RecordAsk(w) ==
    LET s == chore[w].one
    IN  /\ chore[w].pc = "ask"
        /\ gap' = [gap EXCEPT ![s] = Recorded(s, chore[w].seen, Anybody)]
        /\ came' = [came EXCEPT ![s] =
                        IF chore[w].seen.status \in {"none", "open"} THEN @ + 1 ELSE @]
        /\ Finishes(w)
        /\ UNCHANGED <<subject, owes, question, day, joined, reminded>>

-----------------------------------------------------------------------------
(* The nightly job: sweep, then remind                                      *)

DueForSweep == {q \in Questions : Stale(q) /\ ~question[q].swept}

\* The list is read once.
StartSweep(w) ==
    /\ DueForSweep # {}
    /\ Begins(w, [NoChore EXCEPT !.pc = "sweep", !.todo = DueForSweep])
    /\ UNCHANGED <<subject, owes, question, gap, day, came, joined, reminded>>

\* Mutant: the question is marked before, and not with, its gap.
FindGapMarking(w, q) ==
    /\ chore[w].pc = "sweep" /\ q \in chore[w].todo
    /\ GoesOn(w, [chore[w] EXCEPT !.pc = "raise", !.one = q, !.seen = gap[subject[q]]])
    /\ question' = [question EXCEPT ![q].swept = TRUE]
    /\ UNCHANGED <<subject, owes, gap, day, came, joined, reminded>>

FindGap(w, q) ==
    /\ chore[w].pc = "sweep" /\ q \in chore[w].todo
    /\ GoesOn(w, [chore[w] EXCEPT !.pc = "raise", !.one = q, !.seen = gap[subject[q]]])
    /\ UNCHANGED <<subject, owes, question, gap, day, came, joined, reminded>>

\* The first question a gap comes from names it, and gives it a function if it
\* has none; the instance that was found says whether that is so.
Named(row, seen, function) ==
    IF seen.named THEN row
    ELSE [row EXCEPT !.named = TRUE,
                     !.function = IF seen.function = Anybody THEN function ELSE seen.function]

\* One question: its gap and its mark, in one transaction, whatever it became since.
Raise(w) ==
    LET q == chore[w].one
        s == subject[q]
        seen == chore[w].seen
        row == Recorded(s, seen, owes[q])
        left == chore[w].todo \ {q}
    IN  /\ chore[w].pc = "raise"
        /\ gap' = [gap EXCEPT ![s] = Named(row, IF seen = NoGap THEN row ELSE seen, owes[q])]
        /\ question' = [question EXCEPT ![q].swept = TRUE]
        /\ joined' = IF seen.status \in {"none", "open"} THEN joined \cup {q} ELSE joined
        /\ IF left = {} THEN Finishes(w)
           ELSE GoesOn(w, [NoChore EXCEPT !.pc = "sweep", !.todo = left])
        /\ UNCHANGED <<subject, owes, day, came, reminded>>

\* Mutant: the last reminder is forgotten.
DueForNudgeAgain == {q \in Questions : Stale(q)}

DueForNudge == {q \in Questions : Stale(q) /\ question[q].nudged <= day - 1}

StartNudge(w) ==
    /\ DueForNudge # {}
    /\ Begins(w, [NoChore EXCEPT !.pc = "nudge", !.todo = DueForNudge, !.since = day])
    /\ UNCHANGED <<subject, owes, question, gap, day, came, joined, reminded>>

\* The reminder goes out, and then it is written down.
Remind(w, q) ==
    /\ chore[w].pc = "nudge" /\ q \in chore[w].todo
    /\ reminded' = [reminded EXCEPT ![q] = chore[w].since]
    /\ GoesOn(w, [chore[w] EXCEPT !.pc = "mark", !.one = q])
    /\ UNCHANGED <<subject, owes, question, gap, day, came, joined>>

MarkNudged(w) ==
    LET q == chore[w].one
        left == chore[w].todo \ {q}
    IN  /\ chore[w].pc = "mark"
        /\ question' = [question EXCEPT ![q].nudged = chore[w].since]
        /\ IF left = {} THEN Finishes(w)
           ELSE GoesOn(w, [chore[w] EXCEPT !.pc = "nudge", !.todo = left, !.one = "-"])
        /\ UNCHANGED <<subject, owes, gap, day, came, joined, reminded>>

-----------------------------------------------------------------------------
(* People                                                                   *)

RouteQuestion(q) ==
    /\ question[q].status = "none"
    /\ question' = [question EXCEPT ![q] = [Unasked EXCEPT !.status = "open", !.asked = day]]
    /\ UNCHANGED <<subject, owes, gap, day, chore, came, joined, reminded, crossed>>

\* The open gaps somebody of a function can fill.
Fillable(f) == {s \in Subjects : gap[s].status = "open" /\ gap[s].function \in {Anybody, f}}

\* A contribution is written, and the gaps it fills are listed.
Contribute(w, f) ==
    /\ Begins(w, [NoChore EXCEPT !.pc = "write", !.by = f, !.todo = Fillable(f)])
    /\ UNCHANGED <<subject, owes, question, gap, day, came, joined, reminded>>

\* A gap's own answer box: it is open when it is looked at.
AnswerGap(w, f, s) ==
    /\ gap[s].status = "open"
    /\ Begins(w, [NoChore EXCEPT !.pc = "gap", !.by = f, !.one = s])
    /\ UNCHANGED <<subject, owes, question, gap, day, came, joined, reminded>>

ContributeToGap(w) ==
    /\ chore[w].pc = "gap"
    /\ GoesOn(w, [chore[w] EXCEPT !.pc = "write",
                                  !.todo = Fillable(chore[w].by) \cup {chore[w].one}])
    /\ UNCHANGED <<subject, owes, question, gap, day, came, joined, reminded>>

\* What was listed is filled, whatever became of it.
CommitContribution(w) ==
    /\ chore[w].pc = "write"
    /\ gap' = [s \in Subjects |-> IF s \in chore[w].todo THEN [gap[s] EXCEPT !.status = "filled"]
                                  ELSE gap[s]]
    /\ Finishes(w)
    /\ UNCHANGED <<subject, owes, question, day, came, joined, reminded>>

LoadGap(w, s) ==
    /\ gap[s].status = "open"
    /\ Begins(w, [NoChore EXCEPT !.pc = "dismiss", !.one = s])
    /\ UNCHANGED <<subject, owes, question, gap, day, came, joined, reminded>>

DismissGap(w) ==
    /\ chore[w].pc = "dismiss"
    /\ gap' = [gap EXCEPT ![chore[w].one].status = "dismissed"]
    /\ Finishes(w)
    /\ UNCHANGED <<subject, owes, question, day, came, joined, reminded>>

\* The person asked, or one who manages users, answers an open question: a
\* contribution of their function, and then the question is closed.
LoadQuestion(w, q, f) ==
    /\ question[q].status = "open"
    /\ Begins(w, [NoChore EXCEPT !.pc = "load", !.one = q, !.by = f])
    /\ UNCHANGED <<subject, owes, question, gap, day, came, joined, reminded>>

WriteAnswer(w) ==
    /\ chore[w].pc = "load"
    /\ GoesOn(w, [chore[w] EXCEPT !.pc = "answer"])
    /\ UNCHANGED <<subject, owes, question, gap, day, came, joined, reminded>>

CloseQuestion(w) ==
    /\ chore[w].pc = "answer"
    /\ question' = [question EXCEPT ![chore[w].one].status = "answered"]
    /\ Finishes(w)
    /\ UNCHANGED <<subject, owes, gap, day, came, joined, reminded>>

\* What was not committed is lost; a reminder that went out has gone out.
JobDies(w) == /\ chore[w].pc # "idle" /\ chore[w].pc # "mark"
              /\ Finishes(w)
              /\ UNCHANGED <<subject, owes, question, gap, day, came, joined, reminded>>

\* Reminded, and not written down: it goes out again, so it counts as crossed.
DiesAfterReminder(w) == /\ chore[w].pc = "mark"
                        /\ chore' = [chore EXCEPT ![w] = NoChore] /\ crossed' = TRUE
                        /\ UNCHANGED <<subject, owes, question, gap, day, came, joined, reminded>>

NextDay == /\ day < MaxDay /\ day' = day + 1
           /\ UNCHANGED <<subject, owes, question, gap, chore, came, joined, reminded, crossed>>

JobStep(w) == \/ StartSweep(w) \/ Raise(w) \/ StartNudge(w) \/ MarkNudged(w)
              \/ \E q \in Questions : FindGap(w, q) \/ Remind(w, q)
              \/ JobDies(w) \/ DiesAfterReminder(w)

PersonStep(w) == \/ \E s \in Subjects : AskCopilot(w, s) \/ LoadGap(w, s)
                 \/ \E f \in Functions : \/ Contribute(w, f)
                                         \/ \E s \in Subjects : AnswerGap(w, f, s)
                                         \/ \E q \in Questions : LoadQuestion(w, q, f)
                 \/ RecordAsk(w) \/ ContributeToGap(w) \/ CommitContribution(w)
                 \/ DismissGap(w) \/ WriteAnswer(w) \/ CloseQuestion(w)

KnowledgeNext == \/ \E w \in Askers : JobStep(w) \/ PersonStep(w)
                 \/ \E q \in Questions : RouteQuestion(q)
                 \/ NextDay

KnowledgeSpec == KnowledgeInit /\ [][KnowledgeNext]_knowledgeVars

-----------------------------------------------------------------------------
(* Properties                                                               *)

KnowledgeTypeOK ==
    /\ \A q \in Questions : /\ question[q].status \in {"none", "open", "answered"}
                            /\ question[q].asked \in 0..day
                            /\ question[q].nudged \in {Never} \cup 0..day
                            /\ question[q].swept \in BOOLEAN
    /\ \A s \in Subjects : /\ gap[s].status \in {"none", "open", "filled", "dismissed"}
                           /\ gap[s].function \in {Anybody} \cup Functions
                           /\ gap[s].named => gap[s].function # Anybody
    /\ day \in 0..MaxDay /\ joined \subseteq Questions /\ crossed \in BOOLEAN

\* A question no sweep will look at again is in a gap somebody can see: the mark
\* and the gap come together, however many sweeps overlap, die or lose the race
\* to make the gap.
SweptIsFiled ==
    \A q \in Questions : question[q].swept =>
        gap[subject[q]].status # "none" /\ gap[subject[q]].named

\* "so the list ranks by how often it comes up" (record_unanswered): with one at
\* a time, dying or not, a gap has counted everybody who asked until it closed,
\* and every stale question once, whatever number of sweeps saw it.
CountedOnce ==
    ~crossed => \A s \in Subjects :
        gap[s].asked = came[s] + Cardinality({q \in joined : subject[q] = s})

\* A nightly job does nothing twice, with one at a time, dying or not: it counts
\* a question once, and reminds "once a day, not on every run" (aging.py:5) and
\* only of questions that are still open.
JobsDoNothingTwice ==
    [][/\ CountedOnce'
       /\ \A w \in Askers, q \in Questions :
             chore[w].pc = "nudge" /\ chore'[w].pc = "mark" /\ chore'[w].one = q /\ ~crossed =>
                Stale(q) /\ reminded[q] < chore[w].since]_knowledgeVars

\* "Writing a Contribution on that customer from the function that owed the
\* answer fills every open gap it covers, wherever it was written"
\* (API_CONTRACTS.md:5991): also where it is the answer to a question.
AnswersFillGaps ==
    [][\A w \in Askers, q \in Questions, s \in Subjects :
          /\ chore[w].pc = "answer" /\ ~crossed
          /\ question[q].status = "open" /\ question'[q].status = "answered"
          /\ gap'[s].status = "open"
          => gap'[s].function \notin {Anybody, chore[w].by}]_knowledgeVars
=============================================================================
