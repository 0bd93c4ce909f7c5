------------------------------ MODULE Readings ------------------------------
(***************************************************************************)
(* How ONE contact sounds (customers/classification.py, calls.py,          *)
(* contact_sentiment.py, metrics/feedback.py). Their calls and emails are  *)
(* read by the model, as they arrive and at night; a person may correct a  *)
(* reading; and after each of these the contact's sentiment is computed    *)
(* anew from all that has been read.                                       *)
(*                                                                         *)
(* A pass writes from copies it loaded before it asked the model, record   *)
(* by record, each in a statement of its own; nothing here takes a lock.   *)
(* Tags are there or not, and a record sounds neutral or negative.         *)
(***************************************************************************)
EXTENDS Integers, FiniteSets, FiniteSetsExt

CONSTANTS
    Interactions,   \* the contact's calls, emails and tickets
    Calls,
    Readers,        \* the requests there may be at once, and
    Scheduler,      \* the one that runs every night
    NotYet,         \* no such record, or no copy of it
    NoLabel

ASSUME ReadingConstants == /\ IsFiniteSet(Interactions)
                           /\ Calls \subseteq Interactions
                           /\ Scheduler \notin Readers

VARIABLES
    wordless,       \* calls with nothing to read; it stays as it is
    records,        \* per interaction, its row
    contact,        \* the contact's sentiment and where it is from
    reading         \* per worker: where its pass or request is

readingVars == <<wordless, records, contact, reading>>

AllReaders == Readers \cup {Scheduler}
Sounds == {"neutral", "negative"}
Sources == {"manual", "computed"}
\* read: ai_classified_at is set; nothing: not_analysable.
Record == [read : BOOLEAN, nothing : BOOLEAN, corrected : BOOLEAN, tagged : BOOLEAN,
           sounds : Sounds]
Contact == [sounds : Sounds, source : Sources]

ASSUME NoRecord == NotYet \notin Record

Kinds == {"arrival", "night", "reclassify", "override", "request"}

Unread == [read |-> FALSE, nothing |-> FALSE, corrected |-> FALSE, tagged |-> FALSE,
           sounds |-> "neutral"]
NoReading == [pc |-> "idle", kind |-> "request", phase |-> "batch",
              copy |-> [i \in Interactions |-> NotYet], todo |-> {}, placed |-> {},
              touched |-> FALSE, contact |-> [sounds |-> "neutral", source |-> "manual"],
              label |-> NoLabel]

There == {i \in Interactions : records[i] # NotYet}

ReadingInit == /\ wordless \in SUBSET Calls
               /\ records = [i \in Interactions |-> NotYet]
               /\ contact \in [sounds : Sounds, source : {"manual"}]
               /\ reading = [w \in AllReaders |-> NoReading]

-----------------------------------------------------------------------------
(* What a reading makes of a record                                         *)

\* apply_classification. not_analysable goes if the copy had it.
Placed(row, copy, sounds) ==
    [row EXCEPT !.read = TRUE, !.tagged = TRUE, !.sounds = sounds,
                !.nothing = @ /\ ~copy.nothing]

\* mark_not_analysable.
Marked(row) == [row EXCEPT !.read = TRUE, !.tagged = FALSE, !.sounds = "neutral", !.nothing = TRUE]

\* clear_classification: the sentiment stays.
Cleared(row) == [row EXCEPT !.read = TRUE, !.tagged = FALSE]

\* Mutant: a correction leaves ai_classified_at as it was.
CorrectedUnstamped(row, copy, tagged, sounds) ==
    [row EXCEPT !.tagged = tagged, !.sounds = sounds, !.corrected = TRUE,
                !.nothing = @ /\ ~copy.nothing]

\* correct_classification: the person's tags, and the row is read.
Corrected(row, copy, tagged, sounds) ==
    [row EXCEPT !.read = TRUE, !.tagged = tagged, !.sounds = sounds, !.corrected = TRUE,
                !.nothing = @ /\ ~copy.nothing]

-----------------------------------------------------------------------------
(* A pass: classify_records and classify_interactions                       *)

\* What of its copies a pass uses: whether there was nothing to read, and whose
\* the reading was.
Glance(row) == [Unread EXCEPT !.nothing = row.nothing, !.corrected = row.corrected]
Copied(ids) == [i \in Interactions |-> IF i \in ids THEN Glance(records[i]) ELSE NotYet]
Loaded(w) == {i \in Interactions : reading[w].copy[i] # NotYet}

\* Those with something to read; the rest are marked first.
Batch(w) == Loaded(w) \ wordless

\* A pass that has loaded ids marks what there is nothing to read in, and asks.
Pass(kind, ids) ==
    [NoReading EXCEPT !.kind = kind, !.copy = Copied(ids),
                      !.pc = IF ids \cap wordless # {} THEN "write" ELSE "ask",
                      !.phase = IF ids \cap wordless # {} THEN "mark" ELSE "batch",
                      !.todo = ids \cap wordless]

\* The rows a pass takes: those nobody has read; with --reclassify all but a
\* person's; with --include-corrected every one.
Pending(kind) == CASE kind = "night" -> {i \in There : ~records[i].read}
                   [] kind = "reclassify" -> {i \in There : ~records[i].corrected}
                   [] OTHER -> There

\* Where a worker goes when a phase of its pass is over: the batch after the
\* marks, the whole book after the night's batch.
After(w, phase) ==
    IF phase = "mark" /\ Batch(w) # {}
    THEN [reading[w] EXCEPT !.pc = "ask", !.phase = "batch", !.touched = FALSE,
                            !.contact = NoReading.contact, !.label = NoLabel]
    ELSE IF reading[w].kind = "night" /\ phase # "all"
    THEN [NoReading EXCEPT !.pc = "people", !.kind = "night", !.phase = "all"]
    ELSE NoReading

\* The people on what a phase has touched are recomputed at its end.
ToPeople(w) == IF reading[w].phase = "mark" THEN [reading[w] EXCEPT !.pc = "people", !.todo = {}]
               ELSE [NoReading EXCEPT !.pc = "people",
                       !.kind = IF reading[w].kind = "night" THEN "night" ELSE "request"]

\* A mailbox sync, a ticket sync or a sent mail files emails and tickets; a call
\* is logged on its own.
Receive(w) ==
    /\ reading[w].pc = "idle"
    /\ \E new \in (SUBSET (Interactions \ There)) \ {{}} :
         /\ new \cap Calls = {} \/ Cardinality(new) = 1
         /\ records' = [i \in Interactions |-> IF i \in new THEN Unread ELSE records[i]]
         /\ reading' = [reading EXCEPT ![w] =
                          [NoReading EXCEPT !.kind = "arrival", !.todo = new \cap wordless,
                             !.copy = [i \in Interactions |-> IF i \in new THEN Unread ELSE NotYet],
                             !.pc = IF new \subseteq wordless THEN "people" ELSE "ask"]]
    /\ UNCHANGED <<wordless, contact>>

\* run_health_maintenance: what is pending is classified, then every contact
\* is recomputed.
StartMaintenance(w) ==
    /\ reading[w].pc = "idle"
    /\ reading' = [reading EXCEPT ![w] =
                     IF Pending("night") = {}
                     THEN [NoReading EXCEPT !.pc = "people", !.kind = "night", !.phase = "all"]
                     ELSE Pass("night", Pending("night"))]
    /\ UNCHANGED <<wordless, records, contact>>

StartReclassify(w) == /\ reading[w].pc = "idle"
                      /\ \E kind \in {"reclassify", "override"} :
                           /\ Pending(kind) # {}
                           /\ reading' = [reading EXCEPT ![w] = Pass(kind, Pending(kind))]
                      /\ UNCHANGED <<wordless, records, contact>>

\* Mutant: an answer about a record that was not in the batch is taken too.
AskAboutAll(w) == /\ reading[w].pc = "ask"
                  /\ \E placed \in SUBSET Loaded(w) :
                       reading' = [reading EXCEPT ![w].pc = "write", ![w].todo = Batch(w) \cup placed,
                                                  ![w].placed = placed]
                  /\ UNCHANGED <<wordless, records, contact>>

\* classify_batch answers for some of the batch, or for none of it.
Ask(w) == /\ reading[w].pc = "ask"
          /\ \E placed \in SUBSET Batch(w) :
               reading' = [reading EXCEPT ![w].pc = "write", ![w].todo = Batch(w),
                                          ![w].placed = placed]
          /\ UNCHANGED <<wordless, records, contact>>

\* No key, no budget, or an answer that cannot be read. Being on the call is
\* contact: classify_call recomputes its people all the same.
Refused(w) == /\ reading[w].pc = "ask"
              /\ reading' = [reading EXCEPT ![w] =
                               IF reading[w].kind = "arrival" /\ Batch(w) \subseteq Calls
                               THEN ToPeople(w) ELSE After(w, "batch")]
              /\ UNCHANGED <<wordless, records, contact>>

\* reading_of: a call is declined when the reply is about it.
Declined(w, i) == /\ i \in Calls
                  /\ reading[w].placed # {} \/ Cardinality(Batch(w)) = 1

\* What this pass makes of record i.
Verdicts(w, i) ==
    CASE reading[w].phase = "mark" -> {Marked(records[i])}
      [] i \in reading[w].placed -> {Placed(records[i], reading[w].copy[i], s) : s \in Sounds}
      [] Declined(w, i) -> {Marked(records[i])}
      [] i \notin Calls /\ reading[w].kind \in {"reclassify", "override"} -> {Cleared(records[i])}
      [] OTHER -> {records[i]}

Touches(w, i) == reading[w].phase = "mark" \/ i \in reading[w].placed \/ Declined(w, i)

\* The records in turn; the people on those it has touched come after the last.
Write(w, i) ==
    LET touched == reading[w].touched \/ Touches(w, i)
        left == reading[w].todo \ {i}
    IN  /\ reading[w].pc = "write" /\ i \in reading[w].todo
        /\ \E row \in Verdicts(w, i) : records' = [records EXCEPT ![i] = row]
        /\ reading' = [reading EXCEPT ![w] =
                         CASE left # {} -> [@ EXCEPT !.todo = left, !.touched = touched]
                           [] left = {} /\ touched -> ToPeople(w)
                           [] OTHER -> After(w, @.phase)]
        /\ UNCHANGED <<wordless, contact>>

-----------------------------------------------------------------------------
(* recompute                                                                *)

\* What has been read and said something.
Evidence == {i \in There : records[i].read /\ ~records[i].nothing}

\* A call outweighs an email; below a quarter of the weight is neutral.
Weight(i) == IF i \in Calls THEN 10 ELSE 6
Label(ids) ==
    LET negative == {i \in ids : records[i].sounds = "negative"}
    IN  IF ids = {} THEN NoLabel
        ELSE IF 4 * MapThenSumSet(Weight, negative) > MapThenSumSet(Weight, ids)
             THEN "negative" ELSE "neutral"

\* The contact is loaded, and then what there is about them.
LoadPeople(w) == /\ reading[w].pc = "people"
                 /\ reading' = [reading EXCEPT ![w].pc = "hear",
                                               ![w].contact.source = contact.source]
                 /\ UNCHANGED <<wordless, records, contact>>

Hear(w) == /\ reading[w].pc = "hear"
           /\ reading' = [reading EXCEPT ![w].pc = "save", ![w].label = Label(Evidence)]
           /\ UNCHANGED <<wordless, records, contact>>

\* Mutant: nothing is saved for a contact who sounds as they did.
SaveLabelIfNew(w) ==
    IF reading[w].label = NoLabel
    THEN contact' = [contact EXCEPT !.source = "manual"]
    ELSE contact' = IF reading[w].label = reading[w].contact.sounds THEN contact
                    ELSE [sounds |-> reading[w].label, source |-> "computed"]

\* Without evidence a computed sentiment is a hand-set one again.
SaveLabel(w) ==
    IF reading[w].label = NoLabel
    THEN contact' = IF reading[w].contact.source = "computed"
                    THEN [contact EXCEPT !.source = "manual"] ELSE contact
    ELSE contact' = [sounds |-> reading[w].label, source |-> "computed"]

\* A call with nothing to read is marked in the transaction of its people.
SavePeople(w) ==
    /\ reading[w].pc = "save"
    /\ SaveLabel(w)
    /\ records' = [i \in Interactions |-> IF i \in reading[w].todo THEN Marked(records[i])
                                          ELSE records[i]]
    /\ reading' = [reading EXCEPT ![w] = After(w, @.phase)]
    /\ UNCHANGED wordless

-----------------------------------------------------------------------------
(* People: correcting a reading, PATCH of a contact                         *)

OpenRecord(w, i) == /\ reading[w].pc = "idle" /\ i \in There
                    /\ reading' = [reading EXCEPT ![w].pc = "correct", ![w].copy[i] = records[i]]
                    /\ UNCHANGED <<wordless, records, contact>>

\* A body that says what the copy says changes nothing.
Correct(w, i) ==
    LET copy == reading[w].copy[i]
    IN  /\ reading[w].pc = "correct" /\ i \in Loaded(w)
        /\ \E tagged \in BOOLEAN, sounds \in Sounds :
             IF copy.tagged = tagged /\ copy.sounds = sounds /\ ~copy.nothing
             THEN /\ reading' = [reading EXCEPT ![w] = NoReading]
                  /\ UNCHANGED records
             ELSE /\ records' = [records EXCEPT ![i] = Corrected(@, copy, tagged, sounds)]
                  /\ reading' = [reading EXCEPT ![w] = [NoReading EXCEPT !.pc = "people"]]
        /\ UNCHANGED <<wordless, contact>>

OpenContact(w) == /\ reading[w].pc = "idle"
                  /\ reading' = [reading EXCEPT ![w].pc = "patch", ![w].contact = contact]
                  /\ UNCHANGED <<wordless, records, contact>>

\* The whole row is saved as it was loaded, with the body on top.
SaveContact(w) ==
    /\ reading[w].pc = "patch"
    /\ \/ contact' = reading[w].contact
       \/ \E sounds \in Sounds : contact' = [sounds |-> sounds, source |-> "manual"]
    /\ reading' = [reading EXCEPT ![w] = NoReading]
    /\ UNCHANGED <<wordless, records>>

\* The process dies, or a query fails.
ReaderDies(w) == /\ reading[w].pc # "idle"
                 /\ reading' = [reading EXCEPT ![w] = NoReading]
                 /\ UNCHANGED <<wordless, records, contact>>

ReadingStep(w) == \/ Ask(w) \/ Refused(w) \/ LoadPeople(w) \/ Hear(w) \/ SavePeople(w)
                  \/ SaveContact(w)
                  \/ \E i \in Interactions : Write(w, i) \/ Correct(w, i)

ReadingNext == \/ StartMaintenance(Scheduler)
               \/ \E w \in Readers : \/ Receive(w) \/ StartReclassify(w) \/ OpenContact(w)
                                     \/ \E i \in Interactions : OpenRecord(w, i)
               \/ \E w \in AllReaders : ReadingStep(w) \/ ReaderDies(w)

\* The scheduler sleeps and runs again; what has begun goes on.
ReadingFairness == /\ WF_readingVars(StartMaintenance(Scheduler))
                   /\ \A w \in AllReaders : WF_readingVars(ReadingStep(w))

ReadingSpec == ReadingInit /\ [][ReadingNext]_readingVars /\ ReadingFairness

-----------------------------------------------------------------------------
(* Properties                                                               *)

ReadingTypeOK ==
    /\ wordless \subseteq Calls
    /\ records \in [Interactions -> {NotYet} \cup Record]
    /\ contact \in Contact
    /\ \A w \in AllReaders :
         /\ reading[w].kind \in Kinds
         /\ reading[w].contact \in Contact
         /\ reading[w].label \in Sounds \cup {NoLabel}
         /\ reading[w].placed \subseteq Batch(w) /\ reading[w].todo \subseteq Interactions

Reading(row) == <<row.tagged, row.sounds, row.nothing>>

\* A person's correction "outranks every later reclassify" (metrics/views.py:534)
\* and no scheduled pass takes it for unread: what the row says after it changes by
\* another correction only, by a pass told to include corrected rows, or by one that
\* had loaded the row before.
CorrectionsStand ==
    [][\A i \in There :
         records[i].corrected /\ Reading(records'[i]) # Reading(records[i]) =>
           \E w \in AllReaders :
              /\ i \in Loaded(w) /\ reading'[w] # reading[w]
              /\ reading[w].kind \in {"request", "override"} \/ ~reading[w].copy[i].corrected]_readingVars

\* The contact sounds as what has been read of them does.
PeopleFollow == IF Evidence = {} THEN contact.source = "manual"
                ELSE contact = [sounds |-> Label(Evidence), source |-> "computed"]

\* A worker stops where it should have gone on.
CutShort(w) == ReaderDies(w) /\ ~ReadingStep(w)

\* Once records stay as they are and nobody sets the sentiment by hand, whatever
\* passes and saves of stale contacts left behind, the next nights put it right.
PeopleCatchUp ==
    <>[][/\ records' = records
         /\ ~\E w \in AllReaders : CutShort(w) \/ SaveContact(w)]_readingVars
      => <>[]PeopleFollow
=============================================================================
