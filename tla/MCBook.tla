------------------------------- MODULE MCBook -------------------------------
(***************************************************************************)
(* Work on the book of business, for TLC in one run: feature requests, a   *)
(* customer's knowledge, a Copilot session.  They share no state; "part"   *)
(* says which of them a behaviour is about.  The requests are two parts:   *)
(* workers that overlap and die over two asks, and one at a time over all  *)
(* of them.  So is knowledge: its nightly reminders, one job at a time,    *)
(* and its gaps.                                                           *)
(***************************************************************************)
EXTENDS Requests, Knowledge, Sessions, TLC

CONSTANTS w1, w2, own, x1, x2, a1, a2, a3, a4, export

VARIABLE part

\* Curators, askers and visits are the same two; so are questions and guests.
Symmetry == Permutations({w1, w2}) \cup Permutations({x1, x2}) \cup Permutations(Functions)

bookVars == <<requestVars, knowledgeVars, sessionVars, part>>

\* What a behaviour is not about stays as it begins. One topic is like the other,
\* and one ask, where nobody overlaps: there the first are about the first topic.
BookInit ==
    /\ RequestInit /\ KnowledgeInit /\ SessionInit
    /\ topic[a1] = export
    /\ part \in {"requests", "merges", "reminders", "gaps", "session"}
    /\ part = "merges" => /\ topic[a3] = export => topic[a2] = export
                          /\ topic[a4] = export => topic[a3] = export
    /\ part # "merges" => \A a \in Asks \ {a2} : topic[a] = export
    /\ part \notin {"requests", "merges"} => topic[a2] = export
    /\ part \notin {"reminders", "gaps"} =>
           \A p, q \in Questions : subject[p] = subject[q] /\ owes[p] = owes[q]

OverlapsNext == RequestNext /\ asked' \subseteq {a1, a2} /\ made' <= 2

MergesNext == RequestNext /\ ~mixed'

RemindersNext == /\ KnowledgeNext
                 /\ Cardinality({w \in Askers : chore'[w].pc # "idle"}) <= 1
                 /\ gap' = gap

GapsNext == KnowledgeNext /\ day' < MaxDay /\ reminded' = reminded

BookNext ==
    /\ UNCHANGED part
    /\ \/ /\ \/ part = "requests" /\ OverlapsNext
             \/ part = "merges" /\ MergesNext
          /\ UNCHANGED <<knowledgeVars, sessionVars>>
       \/ /\ \/ part = "reminders" /\ RemindersNext
             \/ part = "gaps" /\ GapsNext
          /\ UNCHANGED <<requestVars, sessionVars>>
       \/ /\ part = "session" /\ SessionNext
          /\ UNCHANGED <<requestVars, knowledgeVars>>

BookSpec == BookInit /\ [][BookNext]_bookVars

\* What the three parts can hold, of which each run of the program sees one.
TypeOK == RequestTypeOK /\ KnowledgeTypeOK /\ SessionTypeOK
=============================================================================
