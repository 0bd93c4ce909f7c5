------------------------------- MODULE MailSync -------------------------------
(***************************************************************************)
(* ONE person's mailbox (mail/sync.py, mail/views.py): passes that pull    *)
(* what the provider lists after the cursor, messages sent from the app,   *)
(* flags changed in the app, disconnecting and connecting again.           *)
(*                                                                         *)
(* The provider lists an entry for a message that is new and again when    *)
(* its flags change; a cursor is the number of entries seen. A pass holds  *)
(* the connection it loaded, looks its messages up and commits them with   *)
(* the connection in one transaction.                                      *)
(***************************************************************************)
EXTENDS Integers, Sequences, FiniteSets, SequencesExt

CONSTANTS
    Received, Sent, \* the messages there may be, by their direction
    Matched,        \* those whose other side is in the book
    Persons,        \* the requests and passes there may be at once
    NoMail,         \* no connection; or what a worker without work holds
    MaxLog, MaxConnects

ASSUME MailConstants == /\ Received \cap Sent = {}
                        /\ Matched \subseteq Received \cup Sent
                        /\ MaxLog \in Nat /\ MaxConnects \in Nat \ {0}

VARIABLES
    named,          \* the provider names the messages it sends (Gmail does, Graph does not)
    listed,         \* what the provider has listed
    mailbox,        \* the MailboxConnection row
    connects,       \* how many rows there have been
    copies,         \* MailMessage rows
    filed,          \* Email rows
    task,           \* per worker: where its request or pass is
    overlapped      \* two of them were under way at once (history)

mailVars == <<named, listed, mailbox, connects, copies, filed, task, overlapped>>

Messages == Received \cup Sent

\* revived: the row was written again by a save that found it gone.
Mailbox == [id : Nat, cursor : Nat, revived : BOOLEAN]

ASSUME NoMailbox == NoMail \notin Mailbox

\* The app's own record of a send has no provider id until a pass finds it. Its
\* flags are as of an entry, or as the person left them.
Copy == [of : Messages, by : {"pass", "send"}, keyed : BOOLEAN, seen : Nat,
         mine : BOOLEAN, flags : {"theirs", "ours"}]

\* An Email keeps the provider's id it was filed under, if any. Those a removed
\* mailbox leaves behind are no longer looked at, and left out.
Filed == [of : Messages, keyed : BOOLEAN]

NoTask == [pc |-> "idle", id |-> 0, upto |-> 0, cursor |-> 0, of |-> NoMail, rows |-> {},
           known |-> {}]

MailInit == /\ named \in BOOLEAN
            /\ listed = <<>>
            /\ mailbox = [id |-> 1, cursor |-> 0, revived |-> FALSE]
            /\ connects = 1
            /\ copies = {}
            /\ filed = {}
            /\ task = [p \in Persons |-> NoTask]
            /\ overlapped = FALSE

Connected == mailbox # NoMail
Rests(p) == task' = [task EXCEPT ![p] = NoTask] /\ UNCHANGED overlapped
Starts(p, new) ==
    /\ task[p].pc = "idle"
    /\ task' = [task EXCEPT ![p] = new]
    /\ overlapped' = (overlapped \/ \E q \in Persons \ {p} : task[q].pc # "idle")
StepsTo(p, pc) == task' = [task EXCEPT ![p].pc = pc] /\ UNCHANGED overlapped

-----------------------------------------------------------------------------
(* sync_mailbox                                                             *)

StartSync(p) == /\ Connected
                /\ Starts(p, [NoTask EXCEPT !.pc = "fetch", !.id = mailbox.id,
                                            !.cursor = mailbox.cursor])
                /\ UNCHANGED <<named, listed, mailbox, connects, copies, filed>>

\* Mutant: the cursor is saved as soon as the provider has answered.
FetchSavesCursor(p) ==
    /\ task[p].pc = "fetch"
    /\ task' = [task EXCEPT ![p].upto = Len(listed), ![p].pc = "look"]
    /\ mailbox' = IF Connected THEN [mailbox EXCEPT !.cursor = Len(listed)] ELSE mailbox
    /\ UNCHANGED <<named, listed, connects, copies, filed, overlapped>>

Fetch(p) == /\ task[p].pc = "fetch"
            /\ task' = [task EXCEPT ![p].upto = Len(listed), ![p].pc = "look"]
            /\ UNCHANGED <<named, listed, mailbox, connects, copies, filed, overlapped>>

\* The provider refuses, or the process dies: no row of the pass is there.
SyncFails(p) == /\ task[p].pc \in {"fetch", "look", "write"}
                /\ Rests(p)
                /\ UNCHANGED <<named, listed, mailbox, connects, copies, filed>>

Batch(p) == {listed[i] : i \in (task[p].cursor + 1)..task[p].upto}
LastEntry(m, upto) == CHOOSE i \in 1..upto : /\ listed[i] = m
                                             /\ \A j \in (i + 1)..upto : listed[j] # m

\* Which of its messages the pass finds stored and filed, as rows it will save.
Look(p) == /\ task[p].pc = "look"
           /\ task' = [task EXCEPT ![p].pc = "write",
                         ![p].rows = IF Connected /\ mailbox.id = task[p].id
                                     THEN {c \in copies : c.of \in Batch(p)} ELSE {},
                         ![p].known = {m \in Batch(p) : Connected /\ mailbox.id = task[p].id
                                                       /\ [of |-> m, keyed |-> TRUE] \in filed}]
           /\ UNCHANGED <<named, listed, mailbox, connects, copies, filed, overlapped>>

\* The row of a message: the one with its id, else the app's own record of the
\* send (_placeholder_for), which takes the id.
RowOf(p, m) == LET rows == {c \in task[p].rows : c.of = m}
               IN  IF \E c \in rows : c.keyed THEN {c \in rows : c.keyed} ELSE rows

\* _refresh: what the person did here is left alone.
Refreshed(c, upto) == IF c.mine THEN [c EXCEPT !.keyed = TRUE]
                      ELSE [c EXCEPT !.keyed = TRUE, !.flags = "theirs",
                                     !.seen = LastEntry(c.of, upto)]

\* The same row, however it has changed since it was read.
Same(c, d) == c.of = d.of /\ c.by = d.by
Found(p) == UNION {RowOf(p, m) : m \in Batch(p)}
Saves(p) == {c \in Found(p) : ~(c.keyed /\ c.mine)}
Unseen(p) == {m \in Batch(p) : RowOf(p, m) = {}}
NewlyFiled(p) == (Batch(p) \cap Matched) \ task[p].known

\* What the transaction trips over: a row it saves is gone, a row or an Email it
\* creates, or an id it gives, is there by now, or somebody connected anew.
Trips(p) ==
    \/ Connected /\ mailbox.id # task[p].id
    \/ \E c \in Saves(p) : ~\E d \in copies : Same(c, d)
    \/ \E m \in Unseen(p) : \E d \in copies : d.of = m /\ d.keyed
    \/ \E c \in Saves(p) : ~c.keyed /\ \E d \in copies : d.of = c.of /\ d.keyed /\ ~Same(c, d)
    \/ \E m \in NewlyFiled(p) : [of |-> m, keyed |-> TRUE] \in filed

\* Only the columns that were refreshed are saved.
After(p, d) ==
    IF \E c \in Found(p) : Same(c, d)
    THEN LET c == Refreshed(CHOOSE c \in Found(p) : Same(c, d), task[p].upto)
         IN  IF c.mine /\ c.flags = "ours" THEN [d EXCEPT !.keyed = TRUE]
             ELSE [d EXCEPT !.keyed = TRUE, !.flags = c.flags, !.seen = c.seen]
    ELSE d

\* The transaction. connection.save() writes the row whole: it takes back a
\* cursor that was reset or went further, and puts a deleted row back.
CommitSync(p) ==
    /\ task[p].pc = "write"
    /\ Rests(p)
    /\ IF Trips(p)
       THEN UNCHANGED <<mailbox, copies, filed>>
       ELSE /\ copies' = {After(p, d) : d \in copies} \cup
                         {[of |-> m, by |-> "pass", keyed |-> TRUE, mine |-> FALSE,
                           flags |-> "theirs", seen |-> LastEntry(m, task[p].upto)] : m \in Unseen(p)}
            /\ filed' = filed \cup {[of |-> m, keyed |-> TRUE] : m \in NewlyFiled(p)}
            /\ mailbox' = [id |-> task[p].id, cursor |-> task[p].upto,
                           revived |-> ~Connected \/ mailbox.revived]
    /\ UNCHANGED <<named, listed, connects>>

-----------------------------------------------------------------------------
(* send_email, and reply_to for mail that is nobody's in the book           *)

StartSend(p, m) == /\ Connected
                   /\ m \notin ToSet(listed)
                   /\ \A q \in Persons : task[q].of # m
                   /\ Starts(p, [NoTask EXCEPT !.pc = "send", !.id = mailbox.id, !.of = m])
                   /\ UNCHANGED <<named, listed, mailbox, connects, copies, filed>>

ProviderSends(p) == /\ task[p].pc = "send"
                    /\ Len(listed) < MaxLog
                    /\ listed' = Append(listed, task[p].of)
                    /\ StepsTo(p, IF task[p].of \in Matched THEN "file" ELSE "keep")
                    /\ UNCHANGED <<named, mailbox, connects, copies, filed>>

\* The Email goes under the provider's id, which Graph does not give. It fails
\* when the mailbox is gone, or a pass has filed the message already.
FileSent(p) ==
    LET e == [of |-> task[p].of, keyed |-> named]
    IN  /\ task[p].pc = "file"
        /\ IF Connected /\ mailbox.id = task[p].id /\ ~(named /\ e \in filed)
           THEN filed' = filed \cup {e} /\ StepsTo(p, "keep")
           ELSE UNCHANGED filed /\ Rests(p)
        /\ UNCHANGED <<named, listed, mailbox, connects, copies>>

NewCopy(p) == [of |-> task[p].of, by |-> "send", keyed |-> named, seen |-> 0,
               mine |-> FALSE, flags |-> "theirs"]

KeepSent(p) ==
    /\ task[p].pc = "keep"
    /\ copies' = IF Connected /\ mailbox.id = task[p].id
                    /\ ~(named /\ \E c \in copies : c.of = task[p].of /\ c.keyed)
                 THEN copies \cup {NewCopy(p)} ELSE copies
    /\ Rests(p)
    /\ UNCHANGED <<named, listed, mailbox, connects, filed>>

\* The process dies, or the provider refuses: a mail that is out has no record yet.
SendDies(p) == /\ task[p].pc \in {"send", "file", "keep"}
               /\ Rests(p)
               /\ UNCHANGED <<named, listed, mailbox, connects, copies, filed>>

-----------------------------------------------------------------------------
(* The person's own changes, and the provider                               *)

LoadCopy(p, c) == /\ ~c.mine
                  /\ Starts(p, [NoTask EXCEPT !.pc = "patch", !.id = mailbox.id, !.rows = {c}])
                  /\ UNCHANGED <<named, listed, mailbox, connects, copies, filed>>

Patched(c) == [c EXCEPT !.flags = "ours", !.mine = TRUE]

\* The whole row is saved, with the id and the flags it was loaded with, and put
\* back if it is gone; it fails when its mailbox is gone or the id is taken.
SavePatch(p) ==
    LET c    == CHOOSE c \in task[p].rows : TRUE
        rest == {d \in copies : ~Same(c, d)}
    IN  /\ task[p].pc = "patch"
        /\ copies' = IF /\ Connected /\ mailbox.id = task[p].id
                        /\ ~(c.keyed /\ \E d \in rest : d.of = c.of /\ d.keyed)
                     THEN rest \cup {Patched(c)} ELSE copies
        /\ Rests(p)
        /\ UNCHANGED <<named, listed, mailbox, connects, filed>>

Disconnect == /\ Connected
              /\ mailbox' = NoMail
              /\ copies' = {}
              /\ filed' = {}
              /\ UNCHANGED <<named, listed, connects, task, overlapped>>

\* _save_connection: a new row, or the same one from the start.
Connect == /\ connects < MaxConnects
           /\ connects' = connects + 1
           /\ mailbox' = IF Connected THEN [mailbox EXCEPT !.cursor = 0]
                         ELSE [id |-> connects + 1, cursor |-> 0, revived |-> FALSE]
           /\ UNCHANGED <<named, listed, copies, filed, task, overlapped>>

\* A message comes in, or a listed one changes its flags at the provider.
Arrive == /\ Len(listed) < MaxLog
          /\ \E m \in Received : listed' = Append(listed, m)
          /\ UNCHANGED <<named, mailbox, connects, copies, filed, task, overlapped>>

SyncStep(p) == Fetch(p) \/ Look(p) \/ CommitSync(p)
RequestStep(p) == ProviderSends(p) \/ FileSent(p) \/ KeepSent(p) \/ SavePatch(p)
Fails(p) == SyncFails(p) \/ SendDies(p)

MailNext == \/ \E p \in Persons : \/ StartSync(p) \/ SyncStep(p) \/ RequestStep(p) \/ Fails(p)
                                  \/ \E m \in Sent : StartSend(p, m)
                                  \/ \E c \in copies : LoadCopy(p, c)
            \/ Disconnect \/ Connect \/ Arrive

MailSpec == MailInit /\ [][MailNext]_mailVars

-----------------------------------------------------------------------------
(* Properties                                                               *)

MailTypeOK ==
    /\ named \in BOOLEAN /\ overlapped \in BOOLEAN
    /\ listed \in Seq(Messages)
    /\ mailbox \in {NoMail} \cup Mailbox
    /\ connects \in 1..MaxConnects
    /\ copies \subseteq Copy
    /\ filed \subseteq Filed
    /\ \A c, d \in copies : Same(c, d) => c = d

\* What the cursor has passed the person has, whatever failed or overlapped;
\* and, when nothing did overlap, as the person left it ("what they did here
\* wins") or else with the provider's last word on what came in.
CursorCovers ==
    Connected /\ ~mailbox.revived =>
        \A i \in 1..mailbox.cursor : \E c \in copies :
            /\ c.of = listed[i]
            /\ ~overlapped /\ c.of \in Received =>
                  IF c.mine THEN c.flags = "ours" ELSE c.seen >= LastEntry(c.of, mailbox.cursor)

\* A mail sent from here is shown once, though the provider lists it again under
\* an id the app was never told (_placeholder_for): unless a pass and the send,
\* or two passes, overlapped, or the process died in between.
SentShownOnce == ~overlapped => \A c, d \in copies : c.of = d.of => c = d

\* The person's mailbox has what the provider's has, once.
MailboxIsTrue == CursorCovers /\ SentShownOnce

\* The Email on the customer's timeline is filed once, as the copy is.
SentIsFiledOnce == ~overlapped =>
    \A e, f \in filed : e.of = f.of => e = f
=============================================================================
