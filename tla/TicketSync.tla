------------------------------ MODULE TicketSync ------------------------------
(***************************************************************************)
(* ONE ticket connector (connectors/sync.py, connectors/views.py): passes  *)
(* that pull the source's changes after the cursor, or a source that       *)
(* pushes them; connecting, disconnecting, switching it off.               *)
(*                                                                         *)
(* A change is an entry of the source's log, a cursor the number of        *)
(* entries pulled; a ticket is listed where it changed last, as it is now. *)
(* A pass files its tickets in one transaction and saves the connector it  *)
(* loaded, whole, after it.                                                *)
(***************************************************************************)
EXTENDS Integers, Sequences, FiniteSets, SequencesExt

CONSTANTS
    Tickets,        \* the source's tickets
    Known,          \* those whose requester is in the book
    Pullers,        \* the passes and requests there may be at once
    MaxChanges, MaxSecrets

ASSUME TicketConstants == Known \subseteq Tickets /\ MaxChanges \in Nat /\ MaxSecrets \in Nat

VARIABLES
    pushes,         \* the source pushes (Provider.WEBHOOK); nothing is pulled
    source,         \* its changes, in order
    connector,      \* the Connector row; secret 0: not connected
    secrets,        \* how many secrets there have been
    tickets,        \* per ticket, the change its row has; 0: no row
    job,            \* per worker: where its pass or request is
    raced           \* two of them were under way at once (history)

ticketVars == <<pushes, source, connector, secrets, tickets, job, raced>>

Connector == [secret : Nat, cursor : Nat, enabled : BOOLEAN]
NoJob == [pc |-> "idle", row |-> [secret |-> 0, cursor |-> 0, enabled |-> TRUE], from |-> 0,
          upto |-> 0, now |-> 0, found |-> {}]

TicketInit == /\ pushes \in BOOLEAN
              /\ source = <<>>
              /\ connector = [secret |-> 0, cursor |-> 0, enabled |-> TRUE]
              /\ secrets = 0
              /\ tickets = [t \in Tickets |-> 0]
              /\ job = [w \in Pullers |-> NoJob]
              /\ raced = FALSE

Ends(w) == job' = [job EXCEPT ![w] = NoJob] /\ UNCHANGED raced
Begins(w, new) ==
    /\ job[w].pc = "idle"
    /\ job' = [job EXCEPT ![w] = new]
    /\ raced' = (raced \/ \E v \in Pullers \ {w} : job[v].pc # "idle")

-----------------------------------------------------------------------------
(* sync_connector                                                           *)

Live == connector.secret # 0 /\ connector.enabled

StartPass(w) == /\ Live
                /\ Begins(w, [NoJob EXCEPT !.pc = "pull", !.row = connector])
                /\ UNCHANGED <<pushes, source, connector, secrets, tickets>>

\* A pass stops after so many pages; there is nothing to pull from a source that
\* pushes.
Pull(w) ==
    LET row == job[w].row
    IN  /\ job[w].pc = "pull"
        /\ \E upto \in row.cursor..Len(source) :
              /\ pushes => upto = row.cursor
              /\ ~pushes /\ row.cursor < Len(source) => upto > row.cursor
              /\ job' = [job EXCEPT ![w].pc = "look", ![w].from = row.cursor, ![w].upto = upto,
                                    ![w].now = Len(source)]
        /\ UNCHANGED <<pushes, source, connector, secrets, tickets, raced>>

\* What the source sends in one request, with the connector's secret.
Push(w) ==
    /\ pushes /\ Live
    /\ \E i \in 1..Len(source) :
          Begins(w, [NoJob EXCEPT !.pc = "look", !.from = i - 1, !.upto = i, !.now = i])
    /\ UNCHANGED <<pushes, source, connector, secrets, tickets>>

\* The changes a pass gets: the last one of each ticket, where its pages reach it.
LastChange(i, now) == \A j \in (i + 1)..now : source[j] # source[i]
Changes(w) == {i \in (job[w].from + 1)..job[w].upto : LastChange(i, job[w].now)}
Remotes(w) == {source[i] : i \in Changes(w)}
\* Mutant: every row takes what the first of the batch says.
ChangeOfFirst(w, t) == job[w].from + 1

ChangeOf(w, t) == CHOOSE i \in Changes(w) : source[i] = t

\* file_ticket looks up each ticket of the batch.
LookUp(w) == /\ job[w].pc = "look"
             /\ job' = [job EXCEPT ![w].pc = "file",
                                   ![w].found = {t \in Remotes(w) : tickets[t] # 0}]
             /\ UNCHANGED <<pushes, source, connector, secrets, tickets, raced>>

\* Mutant: only tickets that are not there yet are filed.
AppliedNew(w, t) == IF t \in (Remotes(w) \cap Known) \ job[w].found THEN ChangeOf(w, t) ELSE tickets[t]

\* A ticket that is there takes what the source says now; one that is new is
\* created if its requester is in the book.
Applied(w, t) == IF t \in Remotes(w) /\ (t \in job[w].found \/ t \in Known)
               THEN ChangeOf(w, t) ELSE tickets[t]

\* The transaction: all of the batch, or none of it when another worker has
\* created a ticket since (ticket_unique_per_connector_external_id).
CommitTickets(w) ==
    /\ job[w].pc = "file"
    /\ IF \E t \in (Remotes(w) \cap Known) \ job[w].found : tickets[t] # 0
       THEN UNCHANGED tickets /\ Ends(w)
       ELSE /\ tickets' = [t \in Tickets |-> Applied(w, t)]
            /\ IF job[w].row.secret = 0 THEN Ends(w)
               ELSE job' = [job EXCEPT ![w].pc = "save"] /\ UNCHANGED raced
    /\ UNCHANGED <<pushes, source, connector, secrets>>

\* Mutant: the row is saved with the cursor it was loaded with.
SaveConnectorAsLoaded(w) == /\ job[w].pc = "save"
                            /\ connector' = job[w].row
                            /\ Ends(w)
                            /\ UNCHANGED <<pushes, source, secrets, tickets>>

\* connector.save(): the whole row, as it was loaded but for the cursor.
SaveConnector(w) == /\ job[w].pc = "save"
                    /\ connector' = [job[w].row EXCEPT !.cursor = job[w].upto]
                    /\ Ends(w)
                    /\ UNCHANGED <<pushes, source, secrets, tickets>>

\* The source refuses, or the process dies: before the batch, or after it and
\* before the cursor that says so.
PassDies(w) == /\ job[w].pc # "idle"
               /\ Ends(w)
               /\ UNCHANGED <<pushes, source, connector, secrets, tickets>>

-----------------------------------------------------------------------------
(* The administrator's requests, and the source                             *)

\* _store: the first secret, or another one.
ConnectSource == /\ secrets < MaxSecrets
                 /\ secrets' = secrets + 1
                 /\ connector' = [connector EXCEPT !.secret = secrets + 1, !.cursor = 0]
                 /\ UNCHANGED <<pushes, source, tickets, job, raced>>

DisconnectSource == /\ connector.secret # 0
                    /\ connector' = [connector EXCEPT !.secret = 0, !.cursor = 0]
                    /\ UNCHANGED <<pushes, source, secrets, tickets, job, raced>>

Switch == /\ connector' = [connector EXCEPT !.enabled = ~@]
          /\ UNCHANGED <<pushes, source, secrets, tickets, job, raced>>

\* A ticket is opened or changed at the source.
Change(t) == /\ Len(source) < MaxChanges
             /\ source' = Append(source, t)
             /\ UNCHANGED <<pushes, connector, secrets, tickets, job, raced>>

PassStep(w) == Pull(w) \/ LookUp(w) \/ CommitTickets(w) \/ SaveConnector(w)

TicketNext == \/ \E w \in Pullers : StartPass(w) \/ Push(w) \/ PassStep(w) \/ PassDies(w)
              \/ \E t \in Tickets : Change(t)
              \/ ConnectSource \/ DisconnectSource \/ Switch

TicketSpec == TicketInit /\ [][TicketNext]_ticketVars

-----------------------------------------------------------------------------
(* Properties                                                               *)

TicketTypeOK ==
    /\ pushes \in BOOLEAN /\ raced \in BOOLEAN
    /\ source \in Seq(Tickets)
    /\ connector \in Connector
    /\ secrets \in 0..MaxSecrets
    /\ tickets \in [Tickets -> 0..Len(source)]
    /\ \A t \in Tickets : tickets[t] # 0 => source[tickets[t]] = t

\* What the cursor has passed is filed as the source last had it, for requesters
\* in the book: a pass that dies between its tickets and its cursor is done
\* again, and never the other way round. Two passes at once may file an older
\* state after a newer one.
CursorIsFiled ==
    ~raced => \A i \in 1..connector.cursor :
                 source[i] \in Known /\ LastChange(i, Len(source)) => tickets[source[i]] = i

\* And nothing a pass does twice takes a ticket back, and no row goes away: not
\* by a pass done again after a crash, a new secret or a cursor that starts over.
PullsLoseNothing ==
    [][/\ CursorIsFiled'
       /\ \A t \in Tickets : /\ tickets[t] # 0 => tickets'[t] # 0
                             /\ ~raced' /\ ~pushes => tickets'[t] >= tickets[t]]_ticketVars
=============================================================================
