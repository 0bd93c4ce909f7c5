------------------------------- MODULE MCSyncs -------------------------------
(***************************************************************************)
(* The two pulls for TLC, in one run: a mailbox, or a ticket connector.    *)
(* They share no state; "part" says which of them a behaviour is about.    *)
(***************************************************************************)
EXTENDS MailSync, TicketSync

CONSTANTS in1, s1, p1, p2, t1, t2, w1, w2

VARIABLE part

vars == <<mailVars, ticketVars, part>>

Init == /\ part \in {"mail", "tickets"}
        /\ MailInit /\ TicketInit
        /\ part = "mail" => ~pushes
        /\ part = "tickets" => ~named

MailDoes(A) == part = "mail" /\ A /\ UNCHANGED <<ticketVars, part>>
TicketsDo(A) == part = "tickets" /\ A /\ UNCHANGED <<mailVars, part>>

Next == MailDoes(MailNext) \/ TicketsDo(TicketNext)

\* The scheduler runs a pass every few minutes, and one of those that began goes on.
Fairness ==
    /\ WF_vars(MailDoes(\E p \in Persons : StartSync(p) \/ SyncStep(p) \/ RequestStep(p)))
    /\ WF_vars(TicketsDo(\E w \in Pullers : StartPass(w) \/ PassStep(w)))

Spec == Init /\ [][Next]_vars /\ Fairness

\* What the two pulls can hold.
TypeOK == MailTypeOK /\ TicketTypeOK

CaughtUp == IF part = "mail" THEN Connected => mailbox.cursor = Len(listed)
            ELSE Live /\ ~pushes => connector.cursor = Len(source)

\* Somebody stops where they should have gone on.
Breaks == \/ \E p \in Persons : Fails(p) /\ ~SyncStep(p) /\ ~RequestStep(p)
          \/ \E w \in Pullers : PassDies(w) /\ ~PassStep(w)

\* Once nothing fails any more, what the provider lists comes in, however often a
\* slow pass takes the cursor back and however few pages one pass gets.
EverythingComesIn == <>[][~Breaks]_vars => []<>CaughtUp
=============================================================================
