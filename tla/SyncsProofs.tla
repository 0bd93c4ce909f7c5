----------------------------- MODULE SyncsProofs -----------------------------
(***************************************************************************)
(* Proofs about the two pulls, TicketSync and MailSync, each by itself and *)
(* for any number of passes, changes and people.                           *)
(***************************************************************************)
EXTENDS MCSyncs, FiniteSetTheorems, SequenceTheorems, WellFoundedInduction, TLAPS

-----------------------------------------------------------------------------
(* Tickets.  As long as no two passes overlap, a pass finds the tickets as *)
(* the one before it left them: filed as far as the cursor it starts from. *)

Reached(n, log, rows) ==
    \A i \in 1..n :
       log[i] \in Known /\ (\A j \in (i + 1)..Len(log) : log[j] # log[i]) => rows[log[i]] = i

Moments == {"idle", "pull", "look", "file", "save"}

\* What a pass holds.  Of a source that pushes there is nothing to pull.
Holds(w) ==
    /\ job[w] \in [pc : Moments, row : Connector, from : Nat, upto : Nat, now : Nat,
                    found : SUBSET Tickets]
    /\ job[w].from <= job[w].upto /\ job[w].upto <= job[w].now /\ job[w].now <= Len(source)
    /\ job[w].row.cursor <= Len(source)
    /\ pushes => job[w].row.cursor = 0
    /\ pushes /\ job[w].row.secret # 0 => job[w].upto = 0
    /\ job[w].pc = "save" => job[w].row.secret # 0

\* How far what a pass goes by is filed, if it is alone.
Follows(w) ==
    /\ job[w].pc = "pull" => Reached(job[w].row.cursor, source, tickets)
    /\ job[w].pc \in {"look", "file"} => /\ Reached(job[w].from, source, tickets)
                                         /\ \A t \in Tickets : tickets[t] <= job[w].now
    /\ job[w].pc = "save" => Reached(job[w].upto, source, tickets)

TicketInv ==
    /\ TicketTypeOK /\ DOMAIN job = Pullers
    /\ \A w \in Pullers : Holds(w)
    /\ connector.cursor <= Len(source)
    /\ pushes => connector.cursor = 0
    /\ ~raced => /\ \A v, w \in Pullers : job[v].pc # "idle" /\ job[w].pc # "idle" => v = w
                 /\ Reached(connector.cursor, source, tickets)
                 /\ ~pushes => \A w \in Pullers : Follows(w)

LEMMA NoJobType ==
  /\ NoJob \in [pc : Moments, row : Connector, from : Nat, upto : Nat, now : Nat,
                found : SUBSET Tickets]
  /\ NoJob.pc = "idle" /\ NoJob.row.cursor = 0 /\ NoJob.row.secret = 0
  /\ NoJob.from = 0 /\ NoJob.upto = 0 /\ NoJob.now = 0
BY DEF NoJob, Moments, Connector

LEMMA TicketStarts == TicketInit => TicketInv
<1>. SUFFICES ASSUME TicketInit PROVE TicketInv
  OBVIOUS
<1>1. /\ source = <<>> /\ Len(source) = 0 /\ source \in Seq(Tickets)
      /\ connector.cursor = 0 /\ connector \in Connector
  BY DEF TicketInit, Connector
<1>2. TicketTypeOK /\ DOMAIN job = Pullers
  <2>1. tickets \in [Tickets -> 0..Len(source)] /\ \A t \in Tickets : tickets[t] = 0
    BY <1>1 DEF TicketInit
  <2>2. secrets \in 0..MaxSecrets /\ DOMAIN job = Pullers
    BY TicketConstants DEF TicketInit
  <2>3. pushes \in BOOLEAN /\ raced \in BOOLEAN
    BY DEF TicketInit
  <2>. QED  BY <1>1, <2>1, <2>2, <2>3 DEF TicketTypeOK
<1>3. \A w \in Pullers : Holds(w)
  <2>1. \A w \in Pullers : job[w] = NoJob
    BY DEF TicketInit
  <2>. QED  BY <1>1, <2>1, NoJobType DEF Holds
<1>4. Reached(0, source, tickets)
  BY DEF Reached
<1>5. \A w \in Pullers : job[w].pc = "idle"
  BY DEF TicketInit, NoJob
<1>6. \A w \in Pullers : Follows(w)
  BY <1>5 DEF Follows
<1>. QED  BY <1>1, <1>2, <1>3, <1>4, <1>5, <1>6 DEF TicketInv

\* What is filed stays so while the source goes on.
LEMMA ReachedStays ==
  ASSUME NEW n \in Nat, NEW log \in Seq(Tickets), NEW rows, n <= Len(log),
         Reached(n, log, rows), NEW t \in Tickets
  PROVE  Reached(n, Append(log, t), rows)
<1>1. /\ Len(log) \in Nat /\ Len(Append(log, t)) = Len(log) + 1
      /\ \A i \in 1..Len(log) : Append(log, t)[i] = log[i]
  BY LenProperties, AppendProperties
<1>. QED  BY <1>1 DEF Reached

\* One worker goes on; the tickets, the source and the connector stay.
LEMMA WorkerGoesOn ==
  ASSUME TicketInv, NEW w \in Pullers, DOMAIN job' = Pullers,
         \A v \in Pullers \ {w} : job'[v] = job[v],
         UNCHANGED <<pushes, source, connector, secrets, tickets>>,
         Holds(w)', raced' \in BOOLEAN, raced => raced',
         ~raced' => job'[w].pc = "idle" \/ \A v \in Pullers \ {w} : job[v].pc = "idle",
         ~raced' /\ ~pushes => Follows(w)'
  PROVE  TicketInv'
<1>1. /\ pushes' = pushes /\ source' = source /\ connector' = connector /\ secrets' = secrets
      /\ tickets' = tickets
  OBVIOUS
<1>2. DOMAIN job' = Pullers /\ \A v \in Pullers \ {w} : job'[v] = job[v]
  OBVIOUS
<1>3. TicketTypeOK'
  BY <1>1 DEF TicketInv, TicketTypeOK
<1>4. \A v \in Pullers : Holds(v)'
  BY <1>1, <1>2 DEF TicketInv, Holds
<1>5. ASSUME ~raced', ~pushes, NEW v \in Pullers PROVE Follows(v)'
  <2>1. CASE v # w
    <3>1. Follows(v)
      BY <1>5 DEF TicketInv
    <3>. QED  BY <1>1, <1>2, <2>1, <3>1 DEF Follows
  <2>. QED  BY <1>5, <2>1
<1>6. ~raced' => \A u, v \in Pullers : job'[u].pc # "idle" /\ job'[v].pc # "idle" => u = v
  BY <1>2 DEF TicketInv
<1>. QED  BY <1>1, <1>2, <1>3, <1>4, <1>5, <1>6 DEF TicketInv

LEMMA PassEndsInv ==
  ASSUME TicketInv, NEW w \in Pullers, Ends(w),
         UNCHANGED <<pushes, source, connector, secrets, tickets>>
  PROVE  TicketInv'
<1>1. /\ job'[w] = NoJob /\ DOMAIN job' = Pullers /\ \A v \in Pullers \ {w} : job'[v] = job[v]
      /\ raced' = raced
  BY DEF Ends, TicketInv
<1>2. Holds(w)' /\ Follows(w)'
  <2>1. Len(source) \in Nat
    BY DEF TicketInv, TicketTypeOK
  <2>. QED  BY <1>1, <2>1, NoJobType DEF Holds, Follows
<1>3. raced \in BOOLEAN
  BY DEF TicketInv, TicketTypeOK
<1>. QED  BY <1>1, <1>2, <1>3, NoJobType, WorkerGoesOn

\* A pass begins, or the source pushes.
LEMMA StartPassInv == ASSUME TicketInv, NEW w \in Pullers, StartPass(w) PROVE TicketInv'
<1>. DEFINE new == [NoJob EXCEPT !.pc = "pull", !.row = connector]
<1>1. /\ job'[w] = new /\ source' = source
      /\ DOMAIN job' = Pullers /\ \A v \in Pullers \ {w} : job'[v] = job[v]
      /\ tickets' = tickets /\ pushes' = pushes
      /\ raced' = (raced \/ \E v \in Pullers \ {w} : job[v].pc # "idle")
      /\ UNCHANGED <<pushes, source, connector, secrets, tickets>>
  BY DEF StartPass, Begins, TicketInv
<1>2. /\ new \in [pc : Moments, row : Connector, from : Nat, upto : Nat, now : Nat,
                   found : SUBSET Tickets]
      /\ new.pc = "pull" /\ new.row = connector /\ new.from = 0 /\ new.upto = 0 /\ new.now = 0
  <2>1. connector \in Connector
    BY DEF TicketInv, TicketTypeOK
  <2>. QED  BY <2>1 DEF NoJob, Moments
<1>. HIDE DEF new
<1>3. Holds(w)'
  <2>1. Len(source) \in Nat /\ connector \in Connector
    BY DEF TicketInv, TicketTypeOK
  <2>. QED  BY <1>1, <1>2, <2>1 DEF Holds, TicketInv
<1>4. ~raced' => Follows(w)' /\ \A v \in Pullers \ {w} : job[v].pc = "idle"
  BY <1>1, <1>2 DEF Follows, TicketInv
<1>5. raced' \in BOOLEAN /\ (raced => raced')
  BY <1>1 DEF TicketInv, TicketTypeOK
<1>. QED  BY <1>1, <1>3, <1>4, <1>5, WorkerGoesOn

LEMMA PushInv == ASSUME TicketInv, NEW w \in Pullers, Push(w) PROVE TicketInv'
<1>1. PICK i \in 1..Len(source) :
         Begins(w, [NoJob EXCEPT !.pc = "look", !.from = i - 1, !.upto = i, !.now = i])
  BY DEF Push
<1>. DEFINE new == [NoJob EXCEPT !.pc = "look", !.from = i - 1, !.upto = i, !.now = i]
<1>2. /\ job'[w] = new /\ pushes
      /\ DOMAIN job' = Pullers /\ \A v \in Pullers \ {w} : job'[v] = job[v]
      /\ source' = source /\ tickets' = tickets /\ pushes' = pushes
      /\ raced' = (raced \/ \E v \in Pullers \ {w} : job[v].pc # "idle")
      /\ UNCHANGED <<pushes, source, connector, secrets, tickets>>
  BY <1>1 DEF Push, Begins, TicketInv
<1>3. /\ new \in [pc : Moments, row : Connector, from : Nat, upto : Nat, now : Nat,
                   found : SUBSET Tickets]
      /\ new.pc = "look" /\ new.row = NoJob.row /\ new.from = i - 1 /\ new.upto = i
      /\ new.now = i
  <2>1. i \in Nat /\ i - 1 \in Nat /\ "look" \in Moments
    BY DEF TicketInv, TicketTypeOK, Moments
  <2>. QED  BY <2>1, NoJobType
<1>. HIDE DEF new
<1>4. Holds(w)'
  <2>1. Len(source) \in Nat
    BY DEF TicketInv, TicketTypeOK
  <2>. QED  BY <1>2, <1>3, <2>1, NoJobType DEF Holds
<1>5. ~raced' => \A v \in Pullers \ {w} : job[v].pc = "idle"
  BY <1>2
<1>6. raced' \in BOOLEAN /\ (raced => raced')
  BY <1>2 DEF TicketInv, TicketTypeOK
<1>. QED  BY <1>2, <1>4, <1>5, <1>6, WorkerGoesOn

LEMMA PullInv == ASSUME TicketInv, NEW w \in Pullers, Pull(w) PROVE TicketInv'
<1>. DEFINE row == job[w].row
<1>1. PICK upto \in row.cursor..Len(source) :
         /\ pushes => upto = row.cursor
         /\ job' = [job EXCEPT ![w].pc = "look", ![w].from = row.cursor, ![w].upto = upto,
                               ![w].now = Len(source)]
  BY DEF Pull
<1>2. /\ job[w].pc = "pull" /\ raced' = raced /\ source' = source /\ pushes' = pushes
      /\ UNCHANGED <<pushes, source, connector, secrets, tickets>>
  BY DEF Pull
<1>3. Holds(w) /\ Len(source) \in Nat /\ raced \in BOOLEAN
  BY DEF TicketInv, TicketTypeOK
<1>4. /\ DOMAIN job' = Pullers /\ \A v \in Pullers \ {w} : job'[v] = job[v]
      /\ job'[w] = [job[w] EXCEPT !.pc = "look", !.from = row.cursor, !.upto = upto,
                                  !.now = Len(source)]
  BY <1>1 DEF TicketInv
<1>5. row \in Connector /\ row.cursor \in Nat /\ upto \in Nat
  BY <1>1, <1>3 DEF Holds, Connector
<1>6. /\ job'[w] \in [pc : Moments, row : Connector, from : Nat, upto : Nat, now : Nat,
                       found : SUBSET Tickets]
      /\ job'[w].pc = "look" /\ job'[w].row = row /\ job'[w].from = row.cursor
      /\ job'[w].upto = upto /\ job'[w].now = Len(source)
  BY <1>3, <1>4, <1>5 DEF Holds, Moments
<1>7. Holds(w)'
  <2>1. row.cursor <= Len(source) /\ (pushes => row.cursor = 0)
    BY <1>3 DEF Holds
  <2>2. row.cursor <= upto /\ upto <= Len(source) /\ (pushes => upto = 0)
    BY <1>1, <1>3, <1>5, <2>1
  <2>. QED  BY <1>2, <1>3, <1>6, <2>1, <2>2 DEF Holds
<1>8. ~raced => \A v \in Pullers \ {w} : job[v].pc = "idle"
  BY <1>2 DEF TicketInv
<1>9. ~raced /\ ~pushes => Follows(w)'
  <2>1. \A t \in Tickets : tickets[t] <= Len(source)
    BY DEF TicketInv, TicketTypeOK
  <2>2. ~raced /\ ~pushes => Reached(row.cursor, source, tickets)
    BY <1>2 DEF TicketInv, Follows
  <2>. QED  BY <1>2, <1>6, <2>1, <2>2 DEF Follows
<1>. QED  BY <1>2, <1>3, <1>4, <1>7, <1>8, <1>9, WorkerGoesOn

LEMMA LookUpInv == ASSUME TicketInv, NEW w \in Pullers, LookUp(w) PROVE TicketInv'
<1>. DEFINE found == {t \in Remotes(w) : tickets[t] # 0}
<1>1. /\ job[w].pc = "look" /\ raced' = raced /\ source' = source /\ pushes' = pushes
      /\ UNCHANGED <<pushes, source, connector, secrets, tickets>>
      /\ DOMAIN job' = Pullers /\ \A v \in Pullers \ {w} : job'[v] = job[v]
      /\ job'[w] = [job[w] EXCEPT !.pc = "file", !.found = found]
  BY DEF LookUp, TicketInv
<1>2. Holds(w) /\ Len(source) \in Nat /\ raced \in BOOLEAN /\ source \in Seq(Tickets)
  BY DEF TicketInv, TicketTypeOK
<1>3. found \in SUBSET Tickets
  <2>1. \A i \in Changes(w) : i \in 1..Len(source)
    BY <1>2 DEF Holds, Changes
  <2>. QED  BY <1>2, <2>1, ElementOfSeq DEF Remotes
<1>. HIDE DEF found
<1>4. /\ job'[w] \in [pc : Moments, row : Connector, from : Nat, upto : Nat, now : Nat,
                       found : SUBSET Tickets]
      /\ job'[w].pc = "file" /\ job'[w].row = job[w].row /\ job'[w].from = job[w].from
      /\ job'[w].upto = job[w].upto /\ job'[w].now = job[w].now
  BY <1>1, <1>2, <1>3 DEF Holds, Moments
<1>5. Holds(w)'
  BY <1>1, <1>2, <1>4 DEF Holds
<1>6. ~raced => \A v \in Pullers \ {w} : job[v].pc = "idle"
  BY <1>1 DEF TicketInv
<1>7. ~raced /\ ~pushes => Follows(w)'
  BY <1>1, <1>4 DEF TicketInv, Follows
<1>. QED  BY <1>1, <1>2, <1>5, <1>6, <1>7, WorkerGoesOn

\* Of the changes of a batch one is a ticket's last.
LEMMA LastOfTicket ==
  ASSUME TicketInv, NEW w \in Pullers, NEW t \in Remotes(w)
  PROVE  /\ ChangeOf(w, t) \in Changes(w) /\ source[ChangeOf(w, t)] = t
         /\ ChangeOf(w, t) \in 1..Len(source) /\ ChangeOf(w, t) <= job[w].now
         /\ \A i \in Changes(w) : source[i] = t => i = ChangeOf(w, t)
<1>1. Holds(w) /\ Len(source) \in Nat
  BY DEF TicketInv, TicketTypeOK
<1>2. PICK i \in Changes(w) : source[i] = t
  BY DEF Remotes
<1>3. ChangeOf(w, t) \in Changes(w) /\ source[ChangeOf(w, t)] = t
  BY <1>2 DEF ChangeOf
<1>4. \A j \in Changes(w) : /\ j \in Nat /\ job[w].from < j /\ j <= job[w].upto
                            /\ \A k \in (j + 1)..job[w].now : source[k] # source[j]
  BY <1>1 DEF Holds, Changes, LastChange
<1>5. ASSUME NEW j \in Changes(w), NEW k \in Changes(w), source[j] = source[k], j < k PROVE FALSE
  <2>1. k \in (j + 1)..job[w].now
    BY <1>1, <1>4, <1>5 DEF Holds
  <2>. QED  BY <1>4, <1>5, <2>1
<1>6. ASSUME NEW j \in Changes(w), source[j] = t PROVE j = ChangeOf(w, t)
  BY <1>3, <1>4, <1>5, <1>6
<1>. QED  BY <1>1, <1>3, <1>4, <1>6 DEF Holds

\* What a transaction does to the tickets.
LEMMA Files ==
  ASSUME TicketInv, NEW w \in Pullers, tickets' = [t \in Tickets |-> Applied(w, t)],
         source' = source
  PROVE  /\ tickets' \in [Tickets -> 0..Len(source)]
         /\ \A t \in Tickets : tickets'[t] # 0 => source[tickets'[t]] = t
         /\ \A t \in Tickets : tickets[t] # 0 => tickets'[t] # 0
<1>. SUFFICES ASSUME NEW t \in Tickets
              PROVE  /\ tickets'[t] \in 0..Len(source)
                     /\ tickets'[t] # 0 => source[tickets'[t]] = t
                     /\ tickets[t] # 0 => tickets'[t] # 0
  OBVIOUS
<1>1. /\ tickets[t] \in 0..Len(source) /\ Len(source) \in Nat
      /\ tickets[t] # 0 => source[tickets[t]] = t
  BY DEF TicketInv, TicketTypeOK
<1>2. tickets'[t] = Applied(w, t)
  OBVIOUS
<1>3. CASE t \in Remotes(w) /\ (t \in job[w].found \/ t \in Known)
  BY <1>1, <1>2, <1>3, LastOfTicket DEF Applied
<1>4. CASE ~(t \in Remotes(w) /\ (t \in job[w].found \/ t \in Known))
  BY <1>1, <1>2, <1>4 DEF Applied
<1>. QED  BY <1>3, <1>4

\* A pass that is alone takes no ticket back, and its batch is filed.
LEMMA FilesAlone ==
  ASSUME TicketInv, NEW w \in Pullers, tickets' = [t \in Tickets |-> Applied(w, t)],
         job[w].pc = "file", ~raced, ~pushes
  PROVE  /\ \A t \in Tickets : tickets'[t] >= tickets[t]
         /\ Reached(job[w].upto, source, tickets')
         /\ \A n \in Nat : n <= Len(source) /\ Reached(n, source, tickets)
                              => Reached(n, source, tickets')
<1>1. /\ Holds(w) /\ Len(source) \in Nat /\ source \in Seq(Tickets)
      /\ Reached(job[w].from, source, tickets)
      /\ \A t \in Tickets : /\ tickets[t] <= job[w].now /\ tickets[t] \in 0..Len(source)
                            /\ tickets[t] # 0 => source[tickets[t]] = t
  BY DEF TicketInv, TicketTypeOK, Follows
<1>2. job[w].from \in Nat /\ job[w].upto \in Nat /\ job[w].now \in Nat
  BY <1>1 DEF Holds
<1>3. \A i \in Changes(w) : /\ i \in Nat /\ job[w].from < i /\ i <= job[w].upto
                            /\ \A k \in (i + 1)..job[w].now : source[k] # source[i]
  BY <1>2 DEF Changes, LastChange
<1>4. ASSUME NEW t \in Tickets PROVE tickets'[t] >= tickets[t]
  <2>1. tickets'[t] = Applied(w, t)
    OBVIOUS
  <2>2. CASE t \in Remotes(w) /\ (t \in job[w].found \/ t \in Known)
    <3>. DEFINE i == ChangeOf(w, t)
    <3>1. tickets'[t] = i /\ i \in Changes(w) /\ source[i] = t
      BY <2>1, <2>2, LastOfTicket DEF Applied
    <3>. HIDE DEF i
    <3>2. i \in Nat /\ \A k \in (i + 1)..job[w].now : source[k] # t
      BY <1>3, <3>1
    <3>3. ASSUME tickets[t] > i PROVE FALSE
      <4>1. tickets[t] \in (i + 1)..job[w].now /\ source[tickets[t]] = t
        BY <1>1, <1>2, <3>2, <3>3
      <4>. QED  BY <3>2, <4>1
    <3>. QED  BY <1>1, <3>1, <3>2, <3>3
  <2>3. CASE ~(t \in Remotes(w) /\ (t \in job[w].found \/ t \in Known))
    BY <1>1, <2>1, <2>3 DEF Applied
  <2>. QED  BY <2>2, <2>3
<1>5. ASSUME NEW i \in 1..Len(source), source[i] \in Known,
             \A j \in (i + 1)..Len(source) : source[j] # source[i]
      PROVE  /\ i \in Changes(w) => tickets'[source[i]] = i
             /\ tickets[source[i]] = i => tickets'[source[i]] = i
  <2>. DEFINE t == source[i]
  <2>1. t \in Tickets /\ tickets'[t] = Applied(w, t)
    BY <1>1, <1>5, ElementOfSeq
  <2>2. i \in Changes(w) => tickets'[t] = i
    <3>1. SUFFICES ASSUME i \in Changes(w) PROVE tickets'[t] = i
      OBVIOUS
    <3>2. t \in Remotes(w)
      BY <3>1 DEF Remotes
    <3>3. ChangeOf(w, t) = i
      BY <3>1, <3>2, LastOfTicket
    <3>. QED  BY <1>5, <2>1, <3>2, <3>3 DEF Applied
  <2>3. tickets[t] = i => tickets'[t] = i
    <3>1. SUFFICES ASSUME tickets[t] = i PROVE tickets'[t] = i
      OBVIOUS
    <3>2. CASE t \in Remotes(w)
      <4>1. ChangeOf(w, t) \in 1..Len(source) /\ source[ChangeOf(w, t)] = t
        BY <3>2, LastOfTicket
      <4>2. tickets'[t] = ChangeOf(w, t)
        BY <1>5, <2>1, <3>2 DEF Applied
      <4>3. tickets'[t] >= i
        BY <1>4, <2>1, <3>1
      <4>4. ~(ChangeOf(w, t) > i)
        BY <1>1, <1>5, <4>1
      <4>. QED  BY <4>1, <4>2, <4>3, <4>4
    <3>3. CASE t \notin Remotes(w)
      BY <2>1, <3>1, <3>3 DEF Applied
    <3>. QED  BY <3>2, <3>3
  <2>. QED  BY <2>2, <2>3
<1>6. Reached(job[w].upto, source, tickets')
  <2>1. SUFFICES ASSUME NEW i \in 1..job[w].upto, source[i] \in Known,
                        \A j \in (i + 1)..Len(source) : source[j] # source[i]
                 PROVE  tickets'[source[i]] = i
    BY DEF Reached
  <2>2. i \in 1..Len(source)
    BY <1>1, <1>2 DEF Holds
  <2>3. CASE i <= job[w].from
    <3>1. i \in 1..job[w].from
      BY <1>2, <2>3
    <3>2. tickets[source[i]] = i
      BY <1>1, <2>1, <3>1 DEF Reached
    <3>. QED  BY <1>5, <2>1, <2>2, <3>2
  <2>4. CASE i > job[w].from
    <3>1. i \in (job[w].from + 1)..job[w].upto
      BY <1>2, <2>4
    <3>2. LastChange(i, job[w].now)
      BY <1>1, <1>2, <2>1 DEF LastChange, Holds
    <3>3. i \in Changes(w)
      BY <3>1, <3>2 DEF Changes
    <3>. QED  BY <1>5, <2>1, <2>2, <3>3
  <2>. QED  BY <1>2, <2>3, <2>4
<1>7. ASSUME NEW n \in Nat, n <= Len(source), Reached(n, source, tickets)
      PROVE  Reached(n, source, tickets')
  <2>1. \A i \in 1..n : i \in 1..Len(source)
    BY <1>1, <1>7
  <2>. QED  BY <1>5, <1>7, <2>1 DEF Reached
<1>. QED  BY <1>4, <1>6, <1>7

LEMMA CommitTicketsInv ==
  ASSUME TicketInv, NEW w \in Pullers, CommitTickets(w)
  PROVE  /\ TicketInv'
         /\ \A t \in Tickets : /\ tickets[t] # 0 => tickets'[t] # 0
                               /\ ~raced' /\ ~pushes => tickets'[t] >= tickets[t]
<1>1. /\ job[w].pc = "file" /\ raced' = raced
      /\ pushes' = pushes /\ source' = source /\ connector' = connector /\ secrets' = secrets
      /\ UNCHANGED <<pushes, source, connector, secrets>>
  BY DEF CommitTickets, Ends
<1>2. /\ Holds(w) /\ Len(source) \in Nat /\ raced \in BOOLEAN
      /\ \A t \in Tickets : tickets[t] \in 0..Len(source)
  BY DEF TicketInv, TicketTypeOK
<1>3. CASE UNCHANGED tickets /\ Ends(w)
  BY <1>1, <1>2, <1>3, PassEndsInv
<1>4. CASE tickets' = [t \in Tickets |-> Applied(w, t)]
  <2>1. /\ DOMAIN job' = Pullers /\ \A v \in Pullers \ {w} : job'[v] = job[v]
        /\ \/ job'[w] = NoJob
           \/ job'[w] = [job[w] EXCEPT !.pc = "save"] /\ job[w].row.secret # 0
    BY <1>4 DEF CommitTickets, Ends, TicketInv
  <2>2. /\ tickets' \in [Tickets -> 0..Len(source)]
        /\ \A t \in Tickets : tickets'[t] # 0 => source[tickets'[t]] = t
        /\ \A t \in Tickets : tickets[t] # 0 => tickets'[t] # 0
    BY <1>1, <1>4, Files
  <2>3. ~raced /\ ~pushes =>
           /\ \A t \in Tickets : tickets'[t] >= tickets[t]
           /\ Reached(job[w].upto, source, tickets')
           /\ \A n \in Nat : n <= Len(source) /\ Reached(n, source, tickets)
                                => Reached(n, source, tickets')
    BY <1>1, <1>4, FilesAlone
  <2>4. TicketTypeOK'
    BY <1>1, <2>2 DEF TicketInv, TicketTypeOK
  <2>5. \A v \in Pullers : Holds(v)'
    <3>1. \A v \in Pullers \ {w} : Holds(v)'
      BY <1>1, <2>1 DEF TicketInv, Holds
    <3>2. ASSUME job'[w] = NoJob PROVE Holds(w)'
      BY <1>1, <1>2, <3>2, NoJobType DEF Holds
    <3>3. ASSUME job'[w] = [job[w] EXCEPT !.pc = "save"], job[w].row.secret # 0 PROVE Holds(w)'
      <4>1. job'[w] \in [pc : Moments, row : Connector, from : Nat, upto : Nat, now : Nat,
                         found : SUBSET Tickets]
            /\ job'[w].row = job[w].row /\ job'[w].from = job[w].from
            /\ job'[w].upto = job[w].upto /\ job'[w].now = job[w].now
        BY <1>2, <3>3 DEF Holds, Moments
      <4>. QED  BY <1>1, <1>2, <3>3, <4>1 DEF Holds
    <3>. QED  BY <2>1, <3>1, <3>2, <3>3
  <2>6. ~raced => \A v \in Pullers \ {w} : job'[v].pc = "idle"
    BY <1>1, <2>1 DEF TicketInv
  <2>7. ~raced /\ ~pushes => \A v \in Pullers : Follows(v)'
    <3>1. ~raced => \A v \in Pullers \ {w} : Follows(v)'
      BY <2>6 DEF Follows
    <3>2. CASE job'[w] = NoJob
      BY <3>1, <3>2, NoJobType DEF Follows
    <3>3. CASE job'[w] = [job[w] EXCEPT !.pc = "save"]
      <4>1. job'[w].pc = "save" /\ job'[w].upto = job[w].upto
        BY <1>2, <3>3 DEF Holds
      <4>. QED  BY <1>1, <2>3, <3>1, <4>1 DEF Follows
    <3>. QED  BY <2>1, <3>2, <3>3
  <2>8. ~raced => Reached(connector.cursor, source, tickets')
    <3>1. connector.cursor \in Nat /\ connector.cursor <= Len(source)
      BY DEF TicketInv, TicketTypeOK, Connector
    <3>2. CASE pushes
      BY <3>2 DEF TicketInv, Reached
    <3>. QED  BY <2>3, <3>1, <3>2 DEF TicketInv
  <2>9. TicketInv'
    BY <1>1, <2>1, <2>4, <2>5, <2>6, <2>7, <2>8 DEF TicketInv
  <2>. QED  BY <1>1, <2>2, <2>3, <2>9
<1>5. \A t \in Tickets : UNCHANGED tickets => tickets'[t] >= tickets[t]
  BY <1>2
<1>. QED  BY <1>3, <1>4, <1>5 DEF CommitTickets

\* The connector changes and nothing of the tickets.
LEMMA ConnectorChanges ==
  ASSUME TicketInv, connector' \in Connector, connector'.cursor <= Len(source),
         pushes => connector'.cursor = 0, secrets' \in 0..MaxSecrets,
         ~raced => Reached(connector'.cursor, source, tickets),
         UNCHANGED <<pushes, source, tickets, job, raced>>
  PROVE  TicketInv'
<1>1. /\ pushes' = pushes /\ source' = source /\ tickets' = tickets /\ job' = job
      /\ raced' = raced
  OBVIOUS
<1>2. TicketTypeOK'
  BY <1>1 DEF TicketInv, TicketTypeOK
<1>3. \A w \in Pullers : Holds(w)' /\ (Follows(w) => Follows(w)')
  BY <1>1 DEF TicketInv, Holds, Follows
<1>. QED  BY <1>1, <1>2, <1>3 DEF TicketInv

LEMMA SaveConnectorInv == ASSUME TicketInv, NEW w \in Pullers, SaveConnector(w) PROVE TicketInv'
<1>. DEFINE saved == [job[w].row EXCEPT !.cursor = job[w].upto]
<1>1. /\ job[w].pc = "save" /\ connector' = saved /\ raced' = raced
      /\ pushes' = pushes /\ source' = source /\ tickets' = tickets /\ secrets' = secrets
      /\ DOMAIN job' = Pullers /\ \A v \in Pullers \ {w} : job'[v] = job[v]
      /\ job'[w] = NoJob
  BY DEF SaveConnector, Ends, TicketInv
<1>2. Holds(w) /\ Len(source) \in Nat
  BY DEF TicketInv, TicketTypeOK
<1>3. saved \in Connector /\ saved.cursor = job[w].upto
  BY <1>2 DEF Holds, Connector
<1>. HIDE DEF saved
<1>4. TicketTypeOK'
  BY <1>1, <1>3 DEF TicketInv, TicketTypeOK
<1>5. \A v \in Pullers : Holds(v)'
  <2>1. \A v \in Pullers \ {w} : Holds(v)'
    BY <1>1 DEF TicketInv, Holds
  <2>2. Holds(w)'
    BY <1>1, <1>2, NoJobType DEF Holds
  <2>. QED  BY <2>1, <2>2
<1>6. saved.cursor <= Len(source) /\ (pushes => saved.cursor = 0)
  BY <1>1, <1>2, <1>3 DEF Holds
<1>7. ~raced => \A v \in Pullers : job'[v].pc = "idle"
  BY <1>1, NoJobType DEF TicketInv
<1>8. ~raced => Reached(saved.cursor, source, tickets)
  <2>1. CASE pushes
    BY <1>6, <2>1 DEF Reached
  <2>2. CASE ~pushes
    BY <1>1, <1>3, <2>2 DEF TicketInv, Follows
  <2>. QED  BY <2>1, <2>2
<1>9. ~raced => \A v \in Pullers : Follows(v)'
  BY <1>7 DEF Follows
<1>. QED  BY <1>1, <1>4, <1>5, <1>6, <1>7, <1>8, <1>9 DEF TicketInv

\* The administrator's requests.
LEMMA SettingsInv ==
  ASSUME TicketInv, ConnectSource \/ DisconnectSource \/ Switch
  PROVE  TicketInv'
<1>1. /\ connector \in Connector /\ secrets \in 0..MaxSecrets /\ Len(source) \in Nat
      /\ connector.cursor <= Len(source) /\ (pushes => connector.cursor = 0)
      /\ ~raced => Reached(connector.cursor, source, tickets)
  BY DEF TicketInv, TicketTypeOK
<1>2. Reached(0, source, tickets)
  BY DEF Reached
<1>3. CASE ConnectSource
  <2>1. secrets + 1 \in 0..MaxSecrets /\ secrets + 1 \in Nat
    BY <1>1, <1>3, TicketConstants DEF ConnectSource
  <2>2. connector' \in Connector /\ connector'.cursor = 0
    BY <1>1, <1>3, <2>1 DEF ConnectSource, Connector
  <2>. QED  BY <1>1, <1>2, <1>3, <2>1, <2>2, ConnectorChanges DEF ConnectSource
<1>4. CASE DisconnectSource
  <2>1. connector' \in Connector /\ connector'.cursor = 0
    BY <1>1, <1>4 DEF DisconnectSource, Connector
  <2>. QED  BY <1>1, <1>2, <1>4, <2>1, ConnectorChanges DEF DisconnectSource
<1>5. CASE Switch
  <2>1. connector' \in Connector /\ connector'.cursor = connector.cursor
    BY <1>1, <1>5 DEF Switch, Connector
  <2>. QED  BY <1>1, <1>5, <2>1, ConnectorChanges DEF Switch
<1>. QED  BY <1>3, <1>4, <1>5

LEMMA ChangeInv == ASSUME TicketInv, NEW t \in Tickets, Change(t) PROVE TicketInv'
<1>1. /\ source' = Append(source, t) /\ source \in Seq(Tickets)
      /\ pushes' = pushes /\ connector' = connector /\ secrets' = secrets
      /\ tickets' = tickets /\ job' = job /\ raced' = raced
  BY DEF Change, TicketInv, TicketTypeOK
<1>2. /\ Len(source) \in Nat /\ Len(source') = Len(source) + 1 /\ source' \in Seq(Tickets)
      /\ \A i \in 1..Len(source) : source'[i] = source[i]
  BY <1>1, LenProperties, AppendProperties
<1>3. TicketTypeOK'
  BY <1>1, <1>2 DEF TicketInv, TicketTypeOK
<1>4. ASSUME NEW w \in Pullers PROVE Holds(w)'
  <2>1. Holds(w)
    BY DEF TicketInv
  <2>2. job[w].now \in Nat /\ job[w].row.cursor \in Nat
    BY <2>1 DEF Holds, Connector
  <2>3. job[w].now <= Len(source') /\ job[w].row.cursor <= Len(source')
    BY <1>2, <2>1, <2>2 DEF Holds
  <2>. QED  BY <1>1, <2>1, <2>3 DEF Holds
<1>5. \A n \in Nat : n <= Len(source) /\ Reached(n, source, tickets)
                        => Reached(n, source', tickets')
  BY <1>1, ReachedStays
<1>6. ASSUME NEW w \in Pullers, Follows(w) PROVE Follows(w)'
  <2>1. Holds(w)
    BY DEF TicketInv
  <2>2. job[w].row.cursor \in Nat /\ job[w].from \in Nat /\ job[w].upto \in Nat
    BY <2>1 DEF Holds, Connector
  <2>3. /\ job[w].row.cursor <= Len(source) /\ job[w].from <= Len(source)
        /\ job[w].upto <= Len(source)
    BY <1>2, <2>1, <2>2 DEF Holds
  <2>. QED  BY <1>1, <1>5, <1>6, <2>2, <2>3 DEF Follows
<1>7. connector.cursor \in Nat /\ connector.cursor <= Len(source)
  BY DEF TicketInv, TicketTypeOK, Connector
<1>. QED  BY <1>1, <1>2, <1>3, <1>4, <1>5, <1>6, <1>7 DEF TicketInv

\* What no step may do to the tickets.
LosesNothing == /\ CursorIsFiled'
                /\ \A t \in Tickets : /\ tickets[t] # 0 => tickets'[t] # 0
                                      /\ ~raced' /\ ~pushes => tickets'[t] >= tickets[t]

LEMMA TicketSteps ==
  TicketInv /\ [TicketNext]_ticketVars => TicketInv' /\ [LosesNothing]_ticketVars
<1>. SUFFICES ASSUME TicketInv, [TicketNext]_ticketVars
              PROVE  TicketInv' /\ LosesNothing
  OBVIOUS
<1>1. ASSUME TicketInv' PROVE CursorIsFiled'
  BY <1>1 DEF TicketInv, Reached, CursorIsFiled, LastChange
<1>2. ASSUME TicketInv', UNCHANGED tickets PROVE LosesNothing
  <2>1. \A t \in Tickets : tickets[t] >= tickets[t]
    BY DEF TicketInv, TicketTypeOK
  <2>. QED  BY <1>1, <1>2, <2>1 DEF LosesNothing
<1>3. CASE UNCHANGED ticketVars
  <2>1. TicketInv'
    BY <1>3 DEF ticketVars, TicketInv, TicketTypeOK, Holds, Follows
  <2>. QED  BY <1>2, <1>3, <2>1 DEF ticketVars
<1>4. ASSUME NEW w \in Pullers, StartPass(w) \/ Push(w) PROVE TicketInv' /\ LosesNothing
  BY <1>2, <1>4, StartPassInv, PushInv DEF StartPass, Push
<1>5. ASSUME NEW w \in Pullers, Pull(w) \/ LookUp(w) \/ SaveConnector(w)
      PROVE  TicketInv' /\ LosesNothing
  BY <1>2, <1>5, PullInv, LookUpInv, SaveConnectorInv DEF Pull, LookUp, SaveConnector
<1>6. ASSUME NEW w \in Pullers, CommitTickets(w) PROVE TicketInv' /\ LosesNothing
  BY <1>1, <1>6, CommitTicketsInv DEF LosesNothing
<1>7. ASSUME NEW w \in Pullers, PassDies(w) PROVE TicketInv' /\ LosesNothing
  BY <1>2, <1>7, PassEndsInv DEF PassDies
<1>8. ASSUME NEW t \in Tickets, Change(t) PROVE TicketInv' /\ LosesNothing
  BY <1>2, <1>8, ChangeInv DEF Change
<1>9. CASE ConnectSource \/ DisconnectSource \/ Switch
  BY <1>2, <1>9, SettingsInv DEF ConnectSource, DisconnectSource, Switch
<1>. QED  BY <1>3, <1>4, <1>5, <1>6, <1>7, <1>8, <1>9 DEF TicketNext, PassStep

\* What a pass holds agrees with what is filed, at every step of it.
THEOREM TicketInvariant == TicketSpec => []TicketInv
<1>1. TicketInv /\ [TicketNext]_ticketVars => TicketInv'
  BY TicketSteps
<1>. QED  BY <1>1, TicketStarts, PTL DEF TicketSpec

\* Every variable of a connector keeps its type, and a row has a change of its ticket.
THEOREM TicketTypes == TicketSpec => []TicketTypeOK
<1>1. TicketInv => TicketTypeOK
  BY DEF TicketInv
<1>. QED  BY <1>1, TicketInvariant, PTL

\* What the cursor has passed is filed as the source has it now, and no step takes
\* a ticket away or, while passes are alone, back, whatever dies between the batch
\* and the cursor and however often a secret is replaced (connectors/sync.py).
THEOREM NothingIsLost == TicketSpec => PullsLoseNothing
<1>1. TicketInv /\ [TicketNext]_ticketVars
        => [/\ CursorIsFiled'
            /\ \A t \in Tickets : /\ tickets[t] # 0 => tickets'[t] # 0
                                  /\ ~raced' /\ ~pushes => tickets'[t] >= tickets[t]]_ticketVars
  BY TicketSteps DEF LosesNothing
<1>. QED  BY <1>1, TicketInvariant, PTL DEF TicketSpec, PullsLoseNothing

-----------------------------------------------------------------------------
(* Mail.  A pass may overlap with anything and still has, for what its     *)
(* cursor passes, a copy of each message; that the copies are also one per *)
(* message and up to date is an invariant of workers that take turns.      *)

IsListed(m) == \E i \in 1..Len(listed) : listed[i] = m

Syncing == {"fetch", "look", "write"}
Sending == {"send", "file", "keep"}

Task == [pc : {"idle", "patch"} \cup Syncing \cup Sending, id : Nat, upto : Nat, cursor : Nat,
         of : Messages \cup {NoMail}, rows : SUBSET Copy, known : SUBSET Messages]

\* Of the first n entries of a log every message has a row.
Has(n, log, rows) == \A i \in 1..n : \E c \in rows : c.of = log[i]

\* And its row is as the last of them says, unless the person changed it here.
Shows(n, log, rows) ==
    \A c \in rows : c.of \in Received /\ ~c.mine => \A j \in 1..n : log[j] = c.of => j <= c.seen

\* A row is of a message that was listed, and a pass gives its rows the id.
Proper(c) == IsListed(c.of) /\ (c.by = "pass" => c.keyed)

Ours(p) == Connected /\ mailbox.id = task[p].id

Tasked(p) ==
    /\ task[p] \in Task
    /\ task[p].id <= connects
    /\ task[p].cursor <= Len(listed) /\ task[p].upto <= Len(listed)
    /\ \A c \in task[p].rows : Proper(c)
    /\ task[p].pc = "patch" => task[p].rows # {} /\ \A c, d \in task[p].rows : c = d
    /\ task[p].pc \in Sending => task[p].of \in Sent
    /\ task[p].pc \in {"file", "keep"} => IsListed(task[p].of)

\* The app's own record of a send is written by the sender, and nobody has it yet.
Apart(p) ==
    task[p].pc \in Sending =>
       /\ \A c \in copies : ~(c.of = task[p].of /\ c.by = "send")
       /\ \A q \in Persons : \A c \in task[q].rows : ~(c.of = task[p].of /\ c.by = "send")
       /\ \A q \in Persons : task[q].pc \in Sending /\ task[q].of = task[p].of => q = p

\* What a pass goes by, as long as its mailbox is the one it began with.
Kept(p) ==
    Ours(p) /\ ~mailbox.revived =>
       /\ task[p].pc \in Syncing => Has(task[p].cursor, listed, copies)
       /\ task[p].pc = "write" => \A c \in task[p].rows : \E d \in copies : d.of = c.of

\* The same, of a worker that is alone.
Undisturbed(p) ==
    /\ Ours(p) /\ ~mailbox.revived /\ task[p].pc \in Syncing =>
          Shows(task[p].cursor, listed, copies)
    /\ Ours(p) /\ task[p].pc = "write" => task[p].rows = {c \in copies : c.of \in Batch(p)}
    /\ Ours(p) /\ task[p].pc = "patch" => task[p].rows \subseteq copies
    /\ task[p].pc \in Sending => \A c \in copies : c.of # task[p].of

InTurn ==
    /\ \A p, q \in Persons : task[p].pc # "idle" /\ task[q].pc # "idle" => p = q
    /\ \A c, d \in copies : c.of = d.of => c = d
    /\ \A c \in copies : c.mine => c.flags = "ours"
    /\ Connected /\ ~mailbox.revived => Shows(mailbox.cursor, listed, copies)
    /\ \A p \in Persons : Undisturbed(p)

MailInv ==
    /\ MailTypeOK /\ DOMAIN task = Persons
    /\ Connected => mailbox.id <= connects /\ mailbox.cursor <= Len(listed)
    /\ ~Connected => copies = {}
    /\ \A c \in copies : Proper(c)
    /\ Connected /\ ~mailbox.revived => Has(mailbox.cursor, listed, copies)
    /\ \A p \in Persons : Tasked(p) /\ Apart(p) /\ Kept(p)
    /\ ~overlapped => InTurn

\* The library's induction theorems are about operators; this is the one about
\* sets of numbers, from finite sets being well founded.
LEMMA LargestNumber ==
  ASSUME NEW n \in Nat, NEW B \in SUBSET (1..n), B # {}
  PROVE  \E k \in B : \A m \in B : m <= k
<1>. DEFINE Rest(k) == k..n
            T == {Rest(k) : k \in B}
<1>1. T \subseteq FiniteSubsetsOf(Nat)
  <2>1. \A k \in 1..n : IsFiniteSet(k..n) /\ k..n \in SUBSET Nat
    BY FS_Interval
  <2>. QED  BY <2>1 DEF FiniteSubsetsOf
<1>2. IsWellFoundedOn(StrictSubsetOrdering(Nat), FiniteSubsetsOf(Nat))
  BY FS_StrictSubsetOrderingWellFounded
<1>3. \E x \in T : \A y \in T : <<y, x>> \notin StrictSubsetOrdering(Nat)
  <2>1. T # {}
    OBVIOUS
  <2>. HIDE DEF T
  <2>. QED  BY <1>1, <1>2, <2>1, WFMin
<1>4. PICK k \in B : \A y \in T : <<y, Rest(k)>> \notin StrictSubsetOrdering(Nat)
  BY <1>3
<1>5. ASSUME NEW m \in B, k < m PROVE FALSE
  <2>1. /\ Rest(m) \in T
        /\ Rest(m) \subseteq Rest(k) /\ k \in Rest(k) /\ k \notin Rest(m)
    BY <1>5
  <2>2. <<Rest(m), Rest(k)>> \in StrictSubsetOrdering(Nat)
    BY <1>5, <2>1 DEF StrictSubsetOrdering
  <2>. QED  BY <1>4, <2>1, <2>2
<1>. QED  BY <1>5

\* A message that was listed was listed last at some entry.
LEMMA LastEntryIsLast ==
  ASSUME NEW n \in Nat, NEW i \in 1..n
  PROVE  /\ LastEntry(listed[i], n) \in 1..n
         /\ listed[LastEntry(listed[i], n)] = listed[i]
         /\ \A j \in 1..n : listed[j] = listed[i] => j <= LastEntry(listed[i], n)
<1>. DEFINE B == {j \in 1..n : listed[j] = listed[i]}
<1>1. \E k \in B : \A m \in B : m <= k
  <2>1. B \in SUBSET (1..n) /\ B # {}
    OBVIOUS
  <2>. HIDE DEF B
  <2>. QED  BY <2>1, LargestNumber
<1>2. PICK k \in 1..n : listed[k] = listed[i] /\ \A m \in 1..n : listed[m] = listed[i] => m <= k
  BY <1>1
<1>3. listed[k] = listed[i] /\ \A j \in (k + 1)..n : listed[j] # listed[i]
  BY <1>2
<1>4. /\ LastEntry(listed[i], n) \in 1..n
      /\ listed[LastEntry(listed[i], n)] = listed[i]
      /\ \A j \in (LastEntry(listed[i], n) + 1)..n : listed[j] # listed[i]
  BY <1>3 DEF LastEntry
<1>5. ASSUME NEW j \in 1..n, listed[j] = listed[i] PROVE j <= LastEntry(listed[i], n)
  BY <1>4, <1>5
<1>. QED  BY <1>4, <1>5

LEMMA NoTaskType ==
  /\ NoTask \in Task
  /\ NoTask.pc = "idle" /\ NoTask.id = 0 /\ NoTask.upto = 0 /\ NoTask.cursor = 0
  /\ NoTask.of = NoMail /\ NoTask.rows = {} /\ NoTask.known = {}
BY DEF NoTask, Task

LEMMA MailStarts == MailInit => MailInv
<1>. SUFFICES ASSUME MailInit PROVE MailInv
  OBVIOUS
<1>1. /\ listed = <<>> /\ Len(listed) = 0 /\ listed \in Seq(Messages)
      /\ mailbox \in Mailbox /\ mailbox.id = 1 /\ mailbox.cursor = 0
      /\ connects = 1 /\ copies = {} /\ filed = {}
      /\ DOMAIN task = Persons /\ \A p \in Persons : task[p] = NoTask
  BY DEF MailInit, Mailbox
<1>2. MailTypeOK
  <2>1. named \in BOOLEAN /\ overlapped \in BOOLEAN
    BY DEF MailInit
  <2>2. connects \in 1..MaxConnects
    BY <1>1, MailConstants
  <2>. QED  BY <1>1, <2>1, <2>2 DEF MailTypeOK
<1>3. Has(0, listed, copies) /\ Shows(0, listed, copies)
  BY DEF Has, Shows
<1>4. ASSUME NEW p \in Persons PROVE Tasked(p) /\ Apart(p) /\ Kept(p) /\ Undisturbed(p)
  <2>1. task[p] = NoTask
    BY <1>1
  <2>2. Tasked(p)
    BY <1>1, <2>1, NoTaskType DEF Tasked, Sending
  <2>. QED  BY <2>1, <2>2, NoTaskType DEF Apart, Kept, Undisturbed, Sending, Syncing
<1>5. InTurn
  BY <1>1, <1>3, <1>4, NoTaskType DEF InTurn
<1>. QED  BY <1>1, <1>2, <1>3, <1>4, <1>5 DEF MailInv

\* What every worker holds, in the form the steps below use it.
LEMMA Hold ==
  ASSUME MailInv, NEW p \in Persons
  PROVE  /\ task[p] \in Task /\ task[p].id \in Nat /\ task[p].cursor \in Nat
         /\ task[p].upto \in Nat /\ task[p].rows \subseteq Copy
         /\ Len(listed) \in Nat /\ listed \in Seq(Messages) /\ connects \in Nat
         /\ \A i \in 1..Len(listed) : listed[i] \in Messages
         /\ overlapped \in BOOLEAN
BY ElementOfSeq, LenProperties DEF MailInv, MailTypeOK, Tasked, Task

\* One worker goes on; the copies, the list and the connection stay.
LEMMA TaskGoesOn ==
  ASSUME MailInv, NEW p \in Persons, DOMAIN task' = Persons,
         \A q \in Persons \ {p} : task'[q] = task[q],
         UNCHANGED <<named, listed, mailbox, connects, copies>>, filed' \subseteq Filed,
         Tasked(p)', Kept(p)', overlapped' \in BOOLEAN, overlapped => overlapped',
         \A c \in task'[p].rows : c \in copies \/ c \in task[p].rows,
         task'[p].pc \in Sending =>
            \/ task[p].pc \in Sending /\ task'[p].of = task[p].of
            \/ ~IsListed(task'[p].of) /\ \A q \in Persons : task[q].of # task'[p].of,
         ~overlapped' => /\ task'[p].pc = "idle" \/ \A q \in Persons \ {p} : task[q].pc = "idle"
                         /\ Undisturbed(p)'
  PROVE  MailInv'
<1>1. /\ named' = named /\ listed' = listed /\ mailbox' = mailbox /\ connects' = connects
      /\ copies' = copies
  OBVIOUS
<1>2. MailTypeOK' /\ (Connected' <=> Connected)
  BY <1>1 DEF MailInv, MailTypeOK, Connected
<1>3. \A q \in Persons \ {p} : task'[q] = task[q]
  OBVIOUS
<1>4. \A m : IsListed(m)' <=> IsListed(m)
  BY <1>1 DEF IsListed
<1>5. \A c : Proper(c)' <=> Proper(c)
  BY <1>1 DEF Proper, IsListed
<1>6. ASSUME NEW q \in Persons PROVE Tasked(q)' /\ Kept(q)'
  <2>1. CASE q # p
    <3>1. task'[q] = task[q] /\ Tasked(q) /\ Kept(q)
      BY <1>3, <2>1 DEF MailInv
    <3>2. Tasked(q)'
      BY <1>1, <1>4, <1>5, <3>1 DEF Tasked
    <3>3. Kept(q)'
      BY <1>1, <1>2, <3>1 DEF Kept, Ours
    <3>. QED  BY <3>2, <3>3
  <2>. QED  BY <2>1
<1>7. ASSUME NEW q \in Persons, task'[q].pc \in Sending PROVE Apart(q)'
  <2>1. \A r \in Persons : Tasked(r) /\ Apart(r)
    BY DEF MailInv
  <2>2. \A c \in copies : IsListed(c.of)
    BY DEF MailInv, Proper
  <2>3. \A r \in Persons : \A c \in task'[r].rows :
           c \in copies \/ \E s \in Persons : c \in task[s].rows
    BY <1>3
  <2>4. \A r \in Persons : \A c \in task[r].rows : IsListed(c.of)
    BY <2>1 DEF Tasked, Proper
  <2>5. CASE task[q].pc \in Sending /\ task'[q].of = task[q].of
    <3>1. /\ \A c \in copies : ~(c.of = task[q].of /\ c.by = "send")
          /\ \A r \in Persons : \A c \in task[r].rows : ~(c.of = task[q].of /\ c.by = "send")
          /\ \A r \in Persons : task[r].pc \in Sending /\ task[r].of = task[q].of => r = q
      BY <2>1, <2>5 DEF Apart
    <3>2. \A r \in Persons : task'[r].pc \in Sending /\ task'[r].of = task[q].of => r = q
      BY <1>3, <2>5, <3>1
    <3>. QED  BY <1>1, <2>3, <2>5, <3>1, <3>2 DEF Apart
  <2>6. CASE q = p /\ ~IsListed(task'[q].of) /\ \A r \in Persons : task[r].of # task'[q].of
    <3>1. \A r \in Persons : task'[r].pc \in Sending /\ task'[r].of = task'[q].of => r = q
      BY <1>3, <2>6
    <3>. QED  BY <1>1, <2>2, <2>3, <2>4, <2>6, <3>1 DEF Apart
  <2>. QED  BY <1>3, <1>7, <2>5, <2>6
<1>8. ASSUME ~overlapped' PROVE InTurn'
  <2>1. InTurn
    BY <1>8 DEF MailInv
  <2>2. \A q, r \in Persons : task'[q].pc # "idle" /\ task'[r].pc # "idle" => q = r
    BY <1>3, <1>8, <2>1 DEF InTurn
  <2>3. ASSUME NEW q \in Persons, q # p PROVE Undisturbed(q)'
    <3>1. task'[q] = task[q] /\ Undisturbed(q)
      BY <1>3, <2>1, <2>3 DEF InTurn
    <3>2. Batch(q)' = Batch(q)
      BY <1>1, <3>1 DEF Batch
    <3>. QED  BY <1>1, <1>2, <3>1, <3>2 DEF Undisturbed, Ours
  <2>. QED  BY <1>1, <1>2, <1>8, <2>1, <2>2, <2>3 DEF InTurn
<1>9. \A q \in Persons : Apart(q)'
  BY <1>7 DEF Apart
<1>. QED  BY <1>1, <1>2, <1>5, <1>6, <1>8, <1>9 DEF MailInv

\* The steps of a worker that leave the copies alone.
LEMMA RestInv ==
  ASSUME MailInv, NEW p \in Persons, Rests(p),
         UNCHANGED <<named, listed, mailbox, connects, copies, filed>>
  PROVE  MailInv'
<1>1. /\ task'[p] = NoTask /\ DOMAIN task' = Persons
      /\ \A q \in Persons \ {p} : task'[q] = task[q]
      /\ overlapped' = overlapped /\ filed' = filed
      /\ UNCHANGED <<named, listed, mailbox, connects, copies>>
      /\ listed' = listed /\ connects' = connects
  BY DEF Rests, MailInv
<1>2. Tasked(p)' /\ Kept(p)' /\ Undisturbed(p)'
  <2>1. Len(listed) \in Nat /\ connects \in Nat
    BY Hold
  <2>. QED  BY <1>1, <2>1, NoTaskType DEF Tasked, Kept, Undisturbed, Sending, Syncing
<1>3. filed' \subseteq Filed /\ overlapped \in BOOLEAN
  BY <1>1 DEF MailInv, MailTypeOK
<1>4. task'[p].rows = {} /\ task'[p].pc = "idle" /\ task'[p].pc \notin Sending
  BY <1>1, NoTaskType DEF Sending
<1>. QED  BY <1>1, <1>2, <1>3, <1>4, TaskGoesOn

LEMMA StartSyncInv == ASSUME MailInv, NEW p \in Persons, StartSync(p) PROVE MailInv'
<1>. DEFINE new == [NoTask EXCEPT !.pc = "fetch", !.id = mailbox.id, !.cursor = mailbox.cursor]
<1>1. /\ task[p].pc = "idle" /\ Connected /\ task'[p] = new /\ DOMAIN task' = Persons
      /\ \A q \in Persons \ {p} : task'[q] = task[q]
      /\ overlapped' = (overlapped \/ \E q \in Persons \ {p} : task[q].pc # "idle")
      /\ filed' = filed /\ UNCHANGED <<named, listed, mailbox, connects, copies>>
      /\ listed' = listed /\ connects' = connects /\ mailbox' = mailbox /\ copies' = copies
  BY DEF StartSync, Starts, MailInv
<1>2. /\ mailbox.id \in Nat /\ mailbox.cursor \in Nat
      /\ mailbox.id <= connects /\ mailbox.cursor <= Len(listed)
      /\ ~mailbox.revived => Has(mailbox.cursor, listed, copies)
      /\ ~overlapped /\ ~mailbox.revived => Shows(mailbox.cursor, listed, copies)
  BY <1>1 DEF MailInv, MailTypeOK, Connected, Mailbox, InTurn
<1>3. /\ new \in Task /\ new.pc = "fetch" /\ new.id = mailbox.id /\ new.cursor = mailbox.cursor
      /\ new.upto = 0 /\ new.rows = {} /\ new.of = NoMail
  <2>1. "fetch" \in Syncing
    BY DEF Syncing
  <2>. QED  BY <1>2, <2>1, NoTaskType DEF Task
<1>. HIDE DEF new
<1>4. Tasked(p)'
  <2>1. Len(listed) \in Nat
    BY Hold
  <2>. QED  BY <1>1, <1>2, <1>3, <2>1 DEF Tasked, Sending
<1>5. Kept(p)' /\ (~overlapped' => Undisturbed(p)')
  BY <1>1, <1>2, <1>3 DEF Kept, Undisturbed, Sending
<1>6. filed' \subseteq Filed /\ overlapped' \in BOOLEAN /\ (overlapped => overlapped')
  BY <1>1 DEF MailInv, MailTypeOK
<1>7. ~overlapped' => \A q \in Persons \ {p} : task[q].pc = "idle"
  BY <1>1
<1>8. task'[p].rows = {} /\ task'[p].pc \notin Sending
  BY <1>1, <1>3 DEF Sending
<1>. QED  BY <1>1, <1>4, <1>5, <1>6, <1>7, <1>8, TaskGoesOn

LEMMA FetchInv == ASSUME MailInv, NEW p \in Persons, Fetch(p) PROVE MailInv'
<1>1. /\ task[p].pc = "fetch" /\ DOMAIN task' = Persons
      /\ task'[p] = [task[p] EXCEPT !.upto = Len(listed), !.pc = "look"]
      /\ \A q \in Persons \ {p} : task'[q] = task[q]
      /\ overlapped' = overlapped /\ filed' = filed
      /\ UNCHANGED <<named, listed, mailbox, connects, copies>>
      /\ listed' = listed /\ connects' = connects /\ mailbox' = mailbox /\ copies' = copies
  BY DEF Fetch, MailInv
<1>2. Tasked(p) /\ Kept(p) /\ task[p] \in Task /\ Len(listed) \in Nat
  BY Hold DEF MailInv
<1>3. /\ task'[p] \in Task /\ task'[p].pc = "look" /\ task'[p].id = task[p].id
      /\ task'[p].cursor = task[p].cursor /\ task'[p].upto = Len(listed)
      /\ task'[p].rows = task[p].rows /\ task'[p].of = task[p].of
  <2>1. "look" \in Syncing
    BY DEF Syncing
  <2>. QED  BY <1>1, <1>2, <2>1 DEF Task
<1>4. Tasked(p)'
  BY <1>1, <1>2, <1>3 DEF Tasked, Sending, Proper, IsListed
<1>5. Kept(p)'
  BY <1>1, <1>2, <1>3 DEF Kept, Ours, Connected, Syncing
<1>6. ~overlapped => Undisturbed(p)' /\ \A q \in Persons \ {p} : task[q].pc = "idle"
  BY <1>1, <1>3 DEF MailInv, InTurn, Undisturbed, Ours, Connected, Syncing, Sending
<1>7. filed' \subseteq Filed /\ overlapped \in BOOLEAN
  BY <1>1 DEF MailInv, MailTypeOK
<1>8. task'[p].pc \notin Sending
  BY <1>3 DEF Sending
<1>. QED  BY <1>1, <1>3, <1>4, <1>5, <1>6, <1>7, <1>8, TaskGoesOn

\* The messages of a pass are among those listed.
LEMMA BatchIsListed ==
  ASSUME MailInv, NEW p \in Persons
  PROVE  /\ Batch(p) \subseteq Messages /\ \A m \in Batch(p) : IsListed(m)
         /\ \A m \in Batch(p) : \E i \in 1..task[p].upto : listed[i] = m
         /\ \A i \in 1..task[p].upto : i <= task[p].cursor \/ listed[i] \in Batch(p)
<1>1. /\ task[p].cursor \in Nat /\ task[p].upto \in Nat /\ Len(listed) \in Nat
      /\ task[p].upto <= Len(listed) /\ \A i \in 1..Len(listed) : listed[i] \in Messages
  BY Hold DEF MailInv, Tasked
<1>2. \A i \in (task[p].cursor + 1)..task[p].upto : i \in 1..Len(listed) /\ i \in 1..task[p].upto
  BY <1>1
<1>3. \A i \in 1..task[p].upto : i <= task[p].cursor \/ i \in (task[p].cursor + 1)..task[p].upto
  BY <1>1
<1>. QED  BY <1>1, <1>2, <1>3 DEF Batch, IsListed

LEMMA LookInv == ASSUME MailInv, NEW p \in Persons, Look(p) PROVE MailInv'
<1>1. PICK rows, known :
         /\ rows = (IF Ours(p) THEN {c \in copies : c.of \in Batch(p)} ELSE {})
         /\ known \subseteq Batch(p)
         /\ task' = [task EXCEPT ![p].pc = "write", ![p].rows = rows, ![p].known = known]
  BY DEF Look, Ours
<1>2. /\ task[p].pc = "look" /\ DOMAIN task' = Persons
      /\ task'[p] = [task[p] EXCEPT !.pc = "write", !.rows = rows, !.known = known]
      /\ \A q \in Persons \ {p} : task'[q] = task[q]
      /\ overlapped' = overlapped /\ filed' = filed
      /\ UNCHANGED <<named, listed, mailbox, connects, copies>>
      /\ listed' = listed /\ connects' = connects /\ mailbox' = mailbox /\ copies' = copies
  BY <1>1 DEF Look, MailInv
<1>3. /\ Tasked(p) /\ Kept(p) /\ task[p] \in Task /\ Len(listed) \in Nat /\ copies \subseteq Copy
      /\ \A c \in copies : Proper(c)
  BY Hold DEF MailInv, MailTypeOK
<1>4. rows \subseteq copies /\ rows \subseteq Copy /\ known \subseteq Messages
  BY <1>1, <1>3, BatchIsListed
<1>5. /\ task'[p] \in Task /\ task'[p].pc = "write" /\ task'[p].id = task[p].id
      /\ task'[p].cursor = task[p].cursor /\ task'[p].upto = task[p].upto
      /\ task'[p].rows = rows /\ task'[p].of = task[p].of
  <2>1. "write" \in Syncing
    BY DEF Syncing
  <2>. QED  BY <1>2, <1>3, <1>4, <2>1 DEF Task
<1>6. Tasked(p)'
  BY <1>2, <1>3, <1>4, <1>5 DEF Tasked, Sending, Proper, IsListed
<1>7. Kept(p)'
  BY <1>2, <1>3, <1>4, <1>5 DEF Kept, Ours, Connected, Syncing
<1>8. ~overlapped => Undisturbed(p)' /\ \A q \in Persons \ {p} : task[q].pc = "idle"
  <2>1. Batch(p)' = Batch(p) /\ (Ours(p)' <=> Ours(p))
    BY <1>2, <1>5 DEF Batch, Ours, Connected
  <2>2. Ours(p) => task'[p].rows = {c \in copies' : c.of \in Batch(p)'}
    <3>1. {c \in copies' : c.of \in Batch(p)'} = {c \in copies : c.of \in Batch(p)}
      BY <1>2, <2>1
    <3>2. Ours(p) => rows = {c \in copies : c.of \in Batch(p)}
      BY <1>1
    <3>. QED  BY <1>5, <3>1, <3>2
  <2>3. ~overlapped => Undisturbed(p) /\ \A q \in Persons \ {p} : task[q].pc = "idle"
    BY <1>2 DEF MailInv, InTurn
  <2>4. Undisturbed(p) => Undisturbed(p)'
    BY <1>2, <1>5, <2>1, <2>2 DEF Undisturbed, Syncing, Sending
  <2>. QED  BY <2>3, <2>4
<1>9. filed' \subseteq Filed /\ overlapped \in BOOLEAN
  BY <1>2 DEF MailInv, MailTypeOK
<1>10. task'[p].pc \notin Sending
  BY <1>5 DEF Sending
<1>. QED  BY <1>2, <1>4, <1>5, <1>6, <1>7, <1>8, <1>9, <1>10, TaskGoesOn

LEMMA StartSendInv ==
  ASSUME MailInv, NEW p \in Persons, NEW m \in Sent, StartSend(p, m) PROVE MailInv'
<1>. DEFINE new == [NoTask EXCEPT !.pc = "send", !.id = mailbox.id, !.of = m]
<1>1. /\ task[p].pc = "idle" /\ Connected /\ task'[p] = new /\ DOMAIN task' = Persons
      /\ \A q \in Persons \ {p} : task'[q] = task[q]
      /\ overlapped' = (overlapped \/ \E q \in Persons \ {p} : task[q].pc # "idle")
      /\ filed' = filed /\ UNCHANGED <<named, listed, mailbox, connects, copies>>
      /\ listed' = listed /\ connects' = connects /\ mailbox' = mailbox /\ copies' = copies
      /\ \A q \in Persons : task[q].of # m
  BY DEF StartSend, Starts, MailInv
<1>2. mailbox.id \in Nat /\ mailbox.id <= connects
  BY <1>1 DEF MailInv, MailTypeOK, Connected, Mailbox
<1>3. /\ new \in Task /\ new.pc = "send" /\ new.id = mailbox.id /\ new.cursor = 0
      /\ new.upto = 0 /\ new.rows = {} /\ new.of = m
  <2>1. "send" \in Sending /\ m \in Messages
    BY DEF Sending, Messages
  <2>. QED  BY <1>2, <2>1, NoTaskType DEF Task
<1>. HIDE DEF new
<1>4. Tasked(p)'
  <2>1. Len(listed) \in Nat
    BY Hold
  <2>. QED  BY <1>1, <1>2, <1>3, <2>1 DEF Tasked, Sending
<1>5. ~IsListed(m) /\ \A c \in copies : c.of # m
  <2>1. ToSet(listed) = {listed[i] : i \in 1..Len(listed)}
    BY Hold, LenProperties DEF ToSet
  <2>2. ~IsListed(m)
    BY <2>1 DEF StartSend, IsListed
  <2>. QED  BY <2>2 DEF MailInv, Proper
<1>6. Kept(p)' /\ (~overlapped' => Undisturbed(p)')
  BY <1>1, <1>3, <1>5 DEF Kept, Undisturbed, Sending, Syncing
<1>7. filed' \subseteq Filed /\ overlapped' \in BOOLEAN /\ (overlapped => overlapped')
  BY <1>1 DEF MailInv, MailTypeOK
<1>8. ~overlapped' => \A q \in Persons \ {p} : task[q].pc = "idle"
  BY <1>1
<1>9. task'[p].rows = {} /\ task'[p].of = m
  BY <1>1, <1>3
<1>. QED  BY <1>1, <1>4, <1>5, <1>6, <1>7, <1>8, <1>9, TaskGoesOn

LEMMA LoadCopyInv ==
  ASSUME MailInv, NEW p \in Persons, NEW c \in copies, LoadCopy(p, c) PROVE MailInv'
<1>. DEFINE new == [NoTask EXCEPT !.pc = "patch", !.id = mailbox.id, !.rows = {c}]
<1>1. /\ task[p].pc = "idle" /\ Connected /\ task'[p] = new /\ DOMAIN task' = Persons
      /\ \A q \in Persons \ {p} : task'[q] = task[q]
      /\ overlapped' = (overlapped \/ \E q \in Persons \ {p} : task[q].pc # "idle")
      /\ filed' = filed /\ UNCHANGED <<named, listed, mailbox, connects, copies>>
      /\ listed' = listed /\ connects' = connects /\ mailbox' = mailbox /\ copies' = copies
  BY DEF LoadCopy, Starts, MailInv
<1>2. mailbox.id \in Nat /\ mailbox.id <= connects /\ c \in Copy /\ Proper(c)
  BY <1>1 DEF MailInv, MailTypeOK, Connected, Mailbox
<1>3. /\ new \in Task /\ new.pc = "patch" /\ new.id = mailbox.id /\ new.cursor = 0
      /\ new.upto = 0 /\ new.rows = {c} /\ new.of = NoMail
  BY <1>2, NoTaskType DEF Task
<1>. HIDE DEF new
<1>4. Tasked(p)'
  <2>1. Len(listed) \in Nat
    BY Hold
  <2>. QED  BY <1>1, <1>2, <1>3, <2>1 DEF Tasked, Sending, Proper, IsListed
<1>5. Kept(p)' /\ (~overlapped' => Undisturbed(p)')
  BY <1>1, <1>3 DEF Kept, Undisturbed, Sending, Syncing
<1>6. filed' \subseteq Filed /\ overlapped' \in BOOLEAN /\ (overlapped => overlapped')
  BY <1>1 DEF MailInv, MailTypeOK
<1>7. ~overlapped' => \A q \in Persons \ {p} : task[q].pc = "idle"
  BY <1>1
<1>8. task'[p].rows = {c} /\ task'[p].pc \notin Sending
  BY <1>1, <1>3 DEF Sending
<1>. QED  BY <1>1, <1>4, <1>5, <1>6, <1>7, <1>8, TaskGoesOn

LEMMA FileSentInv == ASSUME MailInv, NEW p \in Persons, FileSent(p) PROVE MailInv'
<1>. DEFINE e == [of |-> task[p].of, keyed |-> named]
<1>1. CASE UNCHANGED filed /\ Rests(p)
  BY <1>1, RestInv DEF FileSent
<1>2. CASE filed' = filed \cup {e} /\ StepsTo(p, "keep")
  <2>1. /\ task[p].pc = "file" /\ DOMAIN task' = Persons
        /\ task'[p] = [task[p] EXCEPT !.pc = "keep"]
        /\ \A q \in Persons \ {p} : task'[q] = task[q]
        /\ overlapped' = overlapped /\ UNCHANGED <<named, listed, mailbox, connects, copies>>
        /\ listed' = listed /\ connects' = connects /\ copies' = copies
    BY <1>2 DEF FileSent, StepsTo, MailInv
  <2>2. Tasked(p) /\ task[p] \in Task
    BY Hold DEF MailInv
  <2>3. /\ task'[p] \in Task /\ task'[p].pc = "keep" /\ task'[p].id = task[p].id
        /\ task'[p].cursor = task[p].cursor /\ task'[p].upto = task[p].upto
        /\ task'[p].rows = task[p].rows /\ task'[p].of = task[p].of
    <3>1. "keep" \in Sending
      BY DEF Sending
    <3>. QED  BY <2>1, <2>2, <3>1 DEF Task
  <2>4. Tasked(p)'
    BY <2>1, <2>2, <2>3 DEF Tasked, Sending, Proper, IsListed
  <2>5. Kept(p)'
    BY <2>3 DEF Kept, Syncing
  <2>6. ~overlapped => Undisturbed(p)' /\ \A q \in Persons \ {p} : task[q].pc = "idle"
    BY <2>1, <2>3 DEF MailInv, InTurn, Undisturbed, Syncing, Sending
  <2>7. filed' \subseteq Filed /\ overlapped \in BOOLEAN
    <3>1. named \in BOOLEAN /\ filed \subseteq Filed /\ overlapped \in BOOLEAN
      BY DEF MailInv, MailTypeOK
    <3>2. task[p].of \in Messages
      BY <2>1, <2>2 DEF Tasked, Sending, Messages
    <3>3. e \in Filed
      BY <3>1, <3>2 DEF Filed
    <3>. QED  BY <1>2, <3>1, <3>3
  <2>8. task[p].pc \in Sending
    BY <2>1 DEF Sending
  <2>. QED  BY <2>1, <2>3, <2>4, <2>5, <2>6, <2>7, <2>8, TaskGoesOn
<1>. QED  BY <1>1, <1>2 DEF FileSent

\* What a worker does to the copies and the connection as it comes to an end.
LEMMA TaskEnds ==
  ASSUME MailInv, NEW p \in Persons, task[p].pc # "idle", Rests(p),
         UNCHANGED <<named, listed, connects>>, MailTypeOK',
         Connected' => mailbox'.id <= connects /\ mailbox'.cursor <= Len(listed),
         Connected' /\ ~mailbox'.revived =>
            /\ Connected /\ ~mailbox.revived /\ mailbox'.id = mailbox.id
            /\ Has(mailbox'.cursor, listed, copies'),
         ~Connected' => copies' = {},
         \A c \in copies' : Proper(c),
         \A d \in copies : \E c \in copies' : c.of = d.of,
         \A c \in copies' : c.by = "send" =>
            \/ \E d \in copies \cup task[p].rows : Same(c, d)
            \/ task[p].pc \in Sending /\ c.of = task[p].of,
         ~overlapped => /\ \A c, d \in copies' : c.of = d.of => c = d
                        /\ \A c \in copies' : c.mine => c.flags = "ours"
                        /\ Connected' /\ ~mailbox'.revived =>
                              Shows(mailbox'.cursor, listed, copies')
  PROVE  MailInv'
<1>1. /\ named' = named /\ listed' = listed /\ connects' = connects /\ overlapped' = overlapped
      /\ DOMAIN task' = Persons /\ task'[p] = NoTask
      /\ \A q \in Persons \ {p} : task'[q] = task[q]
  BY DEF Rests, MailInv
<1>2. \A c : Proper(c)' <=> Proper(c)
  BY <1>1 DEF Proper, IsListed
<1>3. \A q \in Persons : Tasked(q)'
  <2>1. Len(listed) \in Nat /\ connects \in Nat
    BY Hold
  <2>2. Tasked(p)'
    BY <1>1, <2>1, NoTaskType DEF Tasked, Sending
  <2>3. ASSUME NEW q \in Persons \ {p} PROVE Tasked(q)'
    BY <1>1, <1>2 DEF MailInv, Tasked, IsListed
  <2>. QED  BY <2>2, <2>3
<1>4. ASSUME NEW q \in Persons, task'[q].pc \in Sending PROVE Apart(q)'
  <2>1. q # p /\ task'[q] = task[q] /\ task[q].pc \in Sending /\ Apart(q)
    BY <1>1, <1>4, NoTaskType DEF MailInv, Sending
  <2>2. /\ \A c \in copies : ~(c.of = task[q].of /\ c.by = "send")
        /\ \A r \in Persons : \A c \in task[r].rows : ~(c.of = task[q].of /\ c.by = "send")
        /\ \A r \in Persons : task[r].pc \in Sending /\ task[r].of = task[q].of => r = q
    BY <2>1 DEF Apart
  <2>3. \A c \in copies' : ~(c.of = task[q].of /\ c.by = "send")
    BY <2>1, <2>2 DEF Same
  <2>4. \A r \in Persons : \A c \in task'[r].rows : ~(c.of = task[q].of /\ c.by = "send")
    BY <1>1, <2>2, NoTaskType
  <2>5. \A r \in Persons : task'[r].pc \in Sending /\ task'[r].of = task[q].of => r = q
    BY <1>1, <2>2, NoTaskType DEF Sending
  <2>. QED  BY <2>1, <2>3, <2>4, <2>5 DEF Apart
<1>5. ASSUME NEW q \in Persons, Ours(q)', ~mailbox'.revived PROVE Kept(q)'
  <2>1. CASE q = p
    BY <1>1, <2>1, NoTaskType DEF Kept, Syncing
  <2>2. CASE q # p
    <3>1. task'[q] = task[q] /\ Ours(q) /\ ~mailbox.revived /\ Kept(q) /\ Connected'
      BY <1>1, <1>5, <2>2 DEF Ours, MailInv
    <3>2. Has(task[q].cursor, listed, copies) => Has(task[q].cursor, listed, copies')
      BY DEF Has
    <3>3. (\A c \in task[q].rows : \E d \in copies : d.of = c.of)
             => \A c \in task[q].rows : \E d \in copies' : d.of = c.of
      OBVIOUS
    <3>. QED  BY <1>1, <3>1, <3>2, <3>3 DEF Kept
  <2>. QED  BY <2>1, <2>2
<1>6. ASSUME ~overlapped PROVE InTurn'
  <2>1. \A q \in Persons : task'[q].pc = "idle"
    BY <1>1, <1>6, NoTaskType DEF MailInv, InTurn
  <2>2. \A q \in Persons : Undisturbed(q)'
    BY <2>1 DEF Undisturbed, Syncing, Sending
  <2>. QED  BY <1>1, <1>6, <2>1, <2>2 DEF InTurn
<1>7. \A q \in Persons : Apart(q)' /\ Kept(q)'
  BY <1>4, <1>5 DEF Apart, Kept
<1>8. Connected' /\ ~mailbox'.revived => Has(mailbox'.cursor, listed', copies')
  BY <1>1
<1>. QED  BY <1>1, <1>2, <1>3, <1>6, <1>7, <1>8 DEF MailInv

LEMMA KeepSentInv == ASSUME MailInv, NEW p \in Persons, KeepSent(p) PROVE MailInv'
<1>1. /\ task[p].pc = "keep" /\ Rests(p) /\ UNCHANGED <<named, listed, mailbox, connects, filed>>
      /\ mailbox' = mailbox /\ listed' = listed /\ named' = named /\ connects' = connects
      /\ filed' = filed /\ (Connected' <=> Connected) /\ overlapped' = overlapped
  BY DEF KeepSent, Rests, Connected
<1>2. CASE copies' = copies
  BY <1>1, <1>2, RestInv
<1>3. CASE Connected /\ copies' = copies \cup {NewCopy(p)}
  <2>. DEFINE new == NewCopy(p)
  <2>1. /\ Tasked(p) /\ Apart(p) /\ copies \subseteq Copy /\ MailTypeOK
        /\ \A c \in copies : Proper(c)
    BY DEF MailInv, MailTypeOK
  <2>2. /\ task[p].of \in Sent /\ task[p].of \in Messages /\ IsListed(task[p].of)
        /\ \A c \in copies : ~(c.of = task[p].of /\ c.by = "send")
    BY <1>1, <2>1 DEF Tasked, Apart, Sending, Messages
  <2>3. /\ new \in Copy /\ new.of = task[p].of /\ new.by = "send" /\ new.mine = FALSE
    <3>1. named \in BOOLEAN
      BY <2>1 DEF MailTypeOK
    <3>. QED  BY <2>2, <3>1 DEF NewCopy, Copy
  <2>4. copies' = copies \cup {new}
    BY <1>3
  <2>. HIDE DEF new
  <2>5. copies' \subseteq Copy /\ \A c, d \in copies' : Same(c, d) => c = d
    BY <2>1, <2>2, <2>3, <2>4 DEF MailTypeOK, Same
  <2>6. MailTypeOK'
    BY <1>1, <2>1, <2>5 DEF MailTypeOK
  <2>7. \A c \in copies' : Proper(c)
    BY <2>1, <2>2, <2>3, <2>4 DEF Proper
  <2>8. Connected /\ ~mailbox.revived => Has(mailbox.cursor, listed, copies')
    BY <2>4 DEF MailInv, Has
  <2>9. \A c \in copies' : c.by = "send" =>
            \/ \E d \in copies \cup task[p].rows : Same(c, d)
            \/ task[p].pc \in Sending /\ c.of = task[p].of
    BY <1>1, <2>3, <2>4 DEF Same, Sending
  <2>10. ASSUME ~overlapped
         PROVE  /\ \A c, d \in copies' : c.of = d.of => c = d
                /\ \A c \in copies' : c.mine => c.flags = "ours"
                /\ Connected /\ ~mailbox.revived => Shows(mailbox.cursor, listed, copies')
    <3>1. InTurn
      BY <2>10 DEF MailInv
    <3>2. \A c \in copies : c.of # task[p].of
      BY <1>1, <3>1 DEF InTurn, Undisturbed, Sending
    <3>3. task[p].of \notin Received
      BY <2>2, MailConstants
    <3>4. \A c, d \in copies' : c.of = d.of => c = d
      BY <2>3, <2>4, <3>1, <3>2 DEF InTurn
    <3>5. \A c \in copies' : c.mine => c.flags = "ours"
      BY <2>3, <2>4, <3>1 DEF InTurn
    <3>6. Connected /\ ~mailbox.revived => Shows(mailbox.cursor, listed, copies')
      BY <2>3, <2>4, <3>1, <3>3 DEF InTurn, Shows
    <3>. QED  BY <3>4, <3>5, <3>6
  <2>11. Connected' => mailbox'.id <= connects /\ mailbox'.cursor <= Len(listed)
    BY <1>1 DEF MailInv
  <2>12. \A d \in copies : \E c \in copies' : c.of = d.of
    BY <2>4
  <2>. QED  BY <1>1, <1>3, <2>6, <2>7, <2>8, <2>9, <2>10, <2>11, <2>12, TaskEnds
<1>. QED  BY <1>2, <1>3 DEF KeepSent

LEMMA SavePatchInv == ASSUME MailInv, NEW p \in Persons, SavePatch(p) PROVE MailInv'
<1>. DEFINE c == CHOOSE c \in task[p].rows : TRUE
            rest == {d \in copies : ~Same(c, d)}
<1>1. /\ task[p].pc = "patch" /\ Rests(p) /\ UNCHANGED <<named, listed, mailbox, connects, filed>>
      /\ mailbox' = mailbox /\ listed' = listed /\ named' = named /\ connects' = connects
      /\ filed' = filed /\ (Connected' <=> Connected) /\ overlapped' = overlapped
  BY DEF SavePatch, Rests, Connected
<1>2. CASE copies' = copies
  BY <1>1, <1>2, RestInv
<1>3. CASE /\ Ours(p) /\ copies' = rest \cup {Patched(c)}
           /\ ~(c.keyed /\ \E d \in rest : d.of = c.of /\ d.keyed)
  <2>. DEFINE new == Patched(c)
  <2>1. /\ Tasked(p) /\ copies \subseteq Copy /\ MailTypeOK /\ task[p].rows \subseteq Copy
        /\ \A d \in copies : Proper(d)
    BY Hold DEF MailInv, MailTypeOK
  <2>2. c \in task[p].rows /\ c \in Copy /\ Proper(c)
    BY <1>1, <2>1 DEF Tasked
  <2>3. /\ new \in Copy /\ new.of = c.of /\ new.by = c.by /\ new.keyed = c.keyed
        /\ new.mine = TRUE /\ new.flags = "ours"
    BY <2>2 DEF Patched, Copy
  <2>4. copies' = rest \cup {new} /\ rest \subseteq copies
    BY <1>3
  <2>5. \A d \in copies : d \in rest \/ d.of = c.of
    BY DEF Same
  <2>6. \A d \in rest : ~(d.of = c.of /\ d.by = c.by)
    BY DEF Same
  <2>. HIDE DEF new, c, rest
  <2>7. copies' \subseteq Copy /\ \A d, e \in copies' : Same(d, e) => d = e
    BY <2>1, <2>3, <2>4, <2>6 DEF MailTypeOK, Same
  <2>8. MailTypeOK'
    BY <1>1, <2>1, <2>7 DEF MailTypeOK
  <2>9. \A d \in copies' : Proper(d)
    BY <2>1, <2>2, <2>3, <2>4 DEF Proper
  <2>10. \A d \in copies : \E e \in copies' : e.of = d.of
    BY <2>3, <2>4, <2>5
  <2>11. Connected /\ ~mailbox.revived => Has(mailbox.cursor, listed, copies')
    <3>1. Connected /\ ~mailbox.revived => Has(mailbox.cursor, listed, copies)
      BY DEF MailInv
    <3>. QED  BY <2>10, <3>1 DEF Has
  <2>12. \A d \in copies' : d.by = "send" => \E e \in copies \cup task[p].rows : Same(d, e)
    BY <2>2, <2>3, <2>4 DEF Same
  <2>13. ASSUME ~overlapped
         PROVE  /\ \A d, e \in copies' : d.of = e.of => d = e
                /\ \A d \in copies' : d.mine => d.flags = "ours"
                /\ Connected /\ ~mailbox.revived => Shows(mailbox.cursor, listed, copies')
    <3>1. InTurn
      BY <2>13 DEF MailInv
    <3>2. c \in copies
      BY <1>1, <1>3, <2>2, <3>1 DEF InTurn, Undisturbed
    <3>3. \A d \in rest : d.of # c.of
      BY <2>4, <2>6, <3>1, <3>2 DEF InTurn
    <3>4. \A d, e \in copies' : d.of = e.of => d = e
      BY <2>3, <2>4, <3>1, <3>3 DEF InTurn
    <3>5. \A d \in copies' : d.mine => d.flags = "ours"
      BY <2>3, <2>4, <3>1 DEF InTurn
    <3>6. Connected /\ ~mailbox.revived => Shows(mailbox.cursor, listed, copies')
      BY <2>3, <2>4, <3>1 DEF InTurn, Shows
    <3>. QED  BY <3>4, <3>5, <3>6
  <2>14. Connected' => mailbox'.id <= connects /\ mailbox'.cursor <= Len(listed)
    BY <1>1 DEF MailInv
  <2>15. Connected /\ task[p].pc # "idle"
    BY <1>1, <1>3 DEF Ours
  <2>. QED  BY <1>1, <2>8, <2>9, <2>10, <2>11, <2>12, <2>13, <2>14, <2>15, TaskEnds
<1>. QED  BY <1>2, <1>3 DEF SavePatch, Ours

\* The row a pass creates for a message it did not find.
NewRow(m, upto) == [of |-> m, by |-> "pass", keyed |-> TRUE, mine |-> FALSE,
                    flags |-> "theirs", seen |-> LastEntry(m, upto)]

LEMMA NewRowIs ==
  ASSUME MailInv, NEW p \in Persons, NEW m \in Batch(p)
  PROVE  /\ NewRow(m, task[p].upto) \in Copy /\ NewRow(m, task[p].upto).of = m
         /\ NewRow(m, task[p].upto).by = "pass" /\ NewRow(m, task[p].upto).keyed = TRUE
         /\ NewRow(m, task[p].upto).mine = FALSE
         /\ NewRow(m, task[p].upto).seen = LastEntry(m, task[p].upto)
         /\ LastEntry(m, task[p].upto) \in Nat
         /\ \A j \in 1..task[p].upto : listed[j] = m => j <= LastEntry(m, task[p].upto)
<1>1. task[p].upto \in Nat /\ m \in Messages
  BY Hold, BatchIsListed
<1>2. PICK i \in 1..task[p].upto : listed[i] = m
  BY BatchIsListed
<1>3. /\ LastEntry(m, task[p].upto) \in Nat
      /\ \A j \in 1..task[p].upto : listed[j] = m => j <= LastEntry(m, task[p].upto)
  <2>. DEFINE n == task[p].upto
  <2>1. n \in Nat /\ i \in 1..n
    BY <1>1
  <2>. HIDE DEF n
  <2>2. /\ LastEntry(listed[i], n) \in 1..n
        /\ \A j \in 1..n : listed[j] = listed[i] => j <= LastEntry(listed[i], n)
    BY <2>1, LastEntryIsLast
  <2>. QED  BY <1>2, <2>1, <2>2 DEF n
<1>. QED  BY <1>1, <1>3 DEF NewRow, Copy

LEMMA FoundIs ==
  ASSUME NEW p \in Persons
  PROVE  /\ \A c \in Found(p) : c \in task[p].rows /\ c.of \in Batch(p)
         /\ \A m \in Batch(p) : RowOf(p, m) # {} => \E c \in task[p].rows : c.of = m
         /\ \A m \in Batch(p) : (\E c \in task[p].rows : c.of = m) => RowOf(p, m) # {}
BY DEF Found, RowOf

\* What a pass makes of a row that was there.
LEMMA AfterIs ==
  ASSUME MailInv, NEW p \in Persons, NEW d \in copies
  PROVE  /\ After(p, d) \in Copy /\ Same(After(p, d), d) /\ (d.keyed => After(p, d).keyed)
         /\ ~(\E c \in Found(p) : Same(c, d)) => After(p, d) = d
         /\ \A c \in Found(p) :
               Same(c, d) /\ (\A b \in Found(p) : Same(b, d) => b = c) =>
                  /\ After(p, d).mine = d.mine
                  /\ c.mine /\ c.flags = "ours" => After(p, d).flags = d.flags
                  /\ ~c.mine => After(p, d).seen = LastEntry(d.of, task[p].upto)
<1>1. d \in Copy /\ d.of \in Messages /\ d.keyed \in BOOLEAN
  BY DEF MailInv, MailTypeOK, Copy
<1>2. CASE ~\E c \in Found(p) : Same(c, d)
  BY <1>1, <1>2 DEF After, Same
<1>3. CASE \E c \in Found(p) : Same(c, d)
  <2>1. PICK c : c = (CHOOSE b \in Found(p) : Same(b, d))
    OBVIOUS
  <2>2. c \in Found(p) /\ Same(c, d)
    BY <1>3, <2>1
  <2>3. /\ c \in Copy /\ c.of = d.of
        /\ LastEntry(c.of, task[p].upto) \in Nat
    BY <2>2, FoundIs, NewRowIs, Hold DEF Same
  <2>4. /\ Refreshed(c, task[p].upto).mine = c.mine
        /\ c.mine => Refreshed(c, task[p].upto).flags = c.flags
        /\ ~c.mine => Refreshed(c, task[p].upto).seen = LastEntry(c.of, task[p].upto)
        /\ Refreshed(c, task[p].upto) \in Copy
    BY <2>3 DEF Refreshed, Copy
  <2>5. PICK r \in Copy : r = Refreshed(c, task[p].upto)
    BY <2>4
  <2>6. After(p, d) = IF r.mine /\ r.flags = "ours" THEN [d EXCEPT !.keyed = TRUE]
                      ELSE [d EXCEPT !.keyed = TRUE, !.flags = r.flags, !.seen = r.seen]
    BY <1>3, <2>1, <2>5 DEF After
  <2>7. r.flags \in {"theirs", "ours"} /\ r.seen \in Nat
    BY <2>5 DEF Copy
  <2>8. /\ After(p, d) \in Copy /\ After(p, d).of = d.of /\ After(p, d).by = d.by
        /\ After(p, d).keyed = TRUE /\ After(p, d).mine = d.mine
        /\ r.mine /\ r.flags = "ours" => After(p, d).flags = d.flags
        /\ ~r.mine => After(p, d).seen = r.seen
    BY <1>1, <2>6, <2>7 DEF Copy
  <2>9. ASSUME NEW b \in Found(p), \A e \in Found(p) : Same(e, d) => e = b PROVE b = c
    BY <2>2, <2>9
  <2>10. /\ c.mine /\ c.flags = "ours" => After(p, d).flags = d.flags
         /\ ~c.mine => After(p, d).seen = LastEntry(d.of, task[p].upto)
    BY <2>3, <2>4, <2>5, <2>8
  <2>. QED  BY <1>3, <2>8, <2>9, <2>10 DEF Same
<1>. QED  BY <1>2, <1>3

\* What the rows are once a transaction went through.
Committed(p, rows) ==
    rows = {After(p, d) : d \in copies} \cup {NewRow(m, task[p].upto) : m \in Unseen(p)}

LEMMA CommittedRows ==
  ASSUME MailInv, NEW p \in Persons, NEW rows, Committed(p, rows), ~Trips(p),
         task[p].pc = "write"
  PROVE  /\ rows \subseteq Copy /\ \A c, d \in rows : Same(c, d) => c = d
         /\ \A c \in rows : Proper(c)
         /\ \A d \in copies : \E c \in rows : c.of = d.of
         /\ \A c \in rows : c.by = "send" => \E d \in copies : Same(c, d)
         /\ Ours(p) /\ ~mailbox.revived => Has(task[p].upto, listed, rows)
<1>1. /\ \A c, d \in copies : Same(c, d) => c = d
      /\ \A c \in copies : Proper(c)
  BY DEF MailInv, MailTypeOK
<1>2. \A m \in Unseen(p) : /\ m \in Batch(p) /\ RowOf(p, m) = {}
                           /\ \A d \in copies : ~(d.of = m /\ d.keyed)
  BY DEF Unseen, Trips
<1>3. \A c \in rows : \/ \E d \in copies : c = After(p, d)
                      \/ \E m \in Unseen(p) : c = NewRow(m, task[p].upto)
  BY DEF Committed
<1>4. /\ \A d \in copies : After(p, d) \in rows /\ After(p, d) \in Copy /\ Same(After(p, d), d)
                           /\ (d.keyed => After(p, d).keyed)
      /\ \A m \in Unseen(p) : /\ NewRow(m, task[p].upto) \in rows
                              /\ NewRow(m, task[p].upto) \in Copy
                              /\ NewRow(m, task[p].upto).of = m
                              /\ NewRow(m, task[p].upto).by = "pass"
                              /\ NewRow(m, task[p].upto).keyed = TRUE
  BY <1>2, AfterIs, NewRowIs DEF Committed
<1>5. rows \subseteq Copy
  BY <1>3, <1>4
<1>6. ASSUME NEW x \in rows, NEW y \in rows, Same(x, y) PROVE x = y
  <2>1. CASE \E d, e \in copies : x = After(p, d) /\ y = After(p, e)
    BY <1>1, <1>4, <1>6, <2>1 DEF Same
  <2>2. ASSUME NEW d \in copies, NEW m \in Unseen(p), d.of = m, d.by = "pass" PROVE FALSE
    BY <1>1, <1>2, <2>2 DEF Proper
  <2>3. CASE \E d \in copies, m \in Unseen(p) : x = After(p, d) /\ y = NewRow(m, task[p].upto)
    BY <1>4, <1>6, <2>2, <2>3 DEF Same
  <2>4. CASE \E d \in copies, m \in Unseen(p) : y = After(p, d) /\ x = NewRow(m, task[p].upto)
    BY <1>4, <1>6, <2>2, <2>4 DEF Same
  <2>5. CASE \E l, m \in Unseen(p) : x = NewRow(l, task[p].upto) /\ y = NewRow(m, task[p].upto)
    BY <1>4, <1>6, <2>5 DEF Same
  <2>. QED  BY <1>3, <2>1, <2>3, <2>4, <2>5
<1>7. ASSUME NEW c \in rows PROVE Proper(c)
  <2>1. CASE \E d \in copies : c = After(p, d)
    BY <1>1, <1>4, <2>1 DEF Proper, Same
  <2>2. CASE \E m \in Unseen(p) : c = NewRow(m, task[p].upto)
    BY <1>2, <1>4, <2>2, BatchIsListed DEF Proper
  <2>. QED  BY <1>3, <2>1, <2>2
<1>8. \A d \in copies : \E c \in rows : c.of = d.of
  BY <1>4 DEF Same
<1>9. \A c \in rows : c.by = "send" => \E d \in copies : Same(c, d)
  BY <1>3, <1>4
<1>10. ASSUME Ours(p), ~mailbox.revived, NEW i \in 1..task[p].upto
       PROVE  \E c \in rows : c.of = listed[i]
  <2>1. Kept(p) /\ task[p].cursor \in Nat /\ task[p].upto \in Nat
    BY Hold DEF MailInv
  <2>2. /\ Has(task[p].cursor, listed, copies)
        /\ \A c \in task[p].rows : \E d \in copies : d.of = c.of
    BY <1>10, <2>1 DEF Kept, Syncing
  <2>3. CASE i <= task[p].cursor
    <3>1. \E d \in copies : d.of = listed[i]
      BY <2>1, <2>2, <2>3 DEF Has
    <3>. QED  BY <1>8, <3>1
  <2>4. CASE listed[i] \in Batch(p)
    <3>1. CASE RowOf(p, listed[i]) = {}
      BY <1>4, <2>4, <3>1 DEF Unseen
    <3>2. CASE RowOf(p, listed[i]) # {}
      <4>1. PICK c \in task[p].rows : c.of = listed[i]
        BY <2>4, <3>2, FoundIs
      <4>. QED  BY <1>8, <2>2, <4>1
    <3>. QED  BY <3>1, <3>2
  <2>. QED  BY <2>3, <2>4, BatchIsListed
<1>. QED  BY <1>5, <1>6, <1>7, <1>8, <1>9, <1>10 DEF Has

\* And what they are if the pass was alone.
LEMMA CommittedAlone ==
  ASSUME MailInv, NEW p \in Persons, NEW rows, Committed(p, rows), ~Trips(p),
         task[p].pc = "write", ~overlapped
  PROVE  /\ \A c, d \in rows : c.of = d.of => c = d
         /\ \A c \in rows : c.mine => c.flags = "ours"
         /\ Ours(p) /\ ~mailbox.revived => Shows(task[p].upto, listed, rows)
<1>1. /\ InTurn /\ (Ours(p) \/ ~Connected)
      /\ \A c, d \in copies : c.of = d.of => c = d
      /\ \A c \in copies : c.mine => c.flags = "ours"
  BY DEF MailInv, InTurn, Trips, Ours
<1>2. \A m \in Unseen(p) : m \in Batch(p) /\ RowOf(p, m) = {}
  BY DEF Unseen
<1>3. \A c \in rows : \/ \E d \in copies : c = After(p, d)
                      \/ \E m \in Unseen(p) : c = NewRow(m, task[p].upto)
  BY DEF Committed
<1>4. /\ \A d \in copies : After(p, d).of = d.of
      /\ \A m \in Unseen(p) : /\ NewRow(m, task[p].upto).of = m
                              /\ NewRow(m, task[p].upto).mine = FALSE
                              /\ NewRow(m, task[p].upto).seen = LastEntry(m, task[p].upto)
                              /\ \A j \in 1..task[p].upto :
                                    listed[j] = m => j <= LastEntry(m, task[p].upto)
  BY <1>2, AfterIs, NewRowIs DEF Same
<1>5. ASSUME NEW d \in copies, d.of \in Batch(p)
      PROVE  /\ d \in task[p].rows /\ d \in Found(p) /\ d.of \notin Unseen(p)
             /\ \A b \in Found(p) : Same(b, d) => b = d
  <2>1. Ours(p) /\ task[p].rows = {c \in copies : c.of \in Batch(p)}
    BY <1>1, <1>5 DEF MailInv, InTurn, Undisturbed
  <2>2. d \in task[p].rows /\ \A c \in task[p].rows : c.of = d.of => c = d
    BY <1>1, <1>5, <2>1
  <2>3. d \in RowOf(p, d.of)
    BY <2>2 DEF RowOf
  <2>4. \A b \in Found(p) : Same(b, d) => b = d
    BY <2>2, FoundIs DEF Same
  <2>. QED  BY <1>5, <2>2, <2>3, <2>4 DEF Found, Unseen
<1>6. ASSUME NEW x \in rows, NEW y \in rows, x.of = y.of PROVE x = y
  <2>1. CASE \E d, e \in copies : x = After(p, d) /\ y = After(p, e)
    BY <1>1, <1>4, <1>6, <2>1
  <2>2. CASE \E d \in copies, m \in Unseen(p) : x = After(p, d) /\ y = NewRow(m, task[p].upto)
    BY <1>2, <1>4, <1>5, <1>6, <2>2
  <2>3. CASE \E d \in copies, m \in Unseen(p) : y = After(p, d) /\ x = NewRow(m, task[p].upto)
    BY <1>2, <1>4, <1>5, <1>6, <2>3
  <2>4. CASE \E l, m \in Unseen(p) : x = NewRow(l, task[p].upto) /\ y = NewRow(m, task[p].upto)
    BY <1>4, <1>6, <2>4
  <2>. QED  BY <1>3, <2>1, <2>2, <2>3, <2>4
\* A row that was there is kept as the person left it, or has the last word.
<1>7. ASSUME NEW d \in copies
      PROVE  /\ After(p, d).mine = d.mine
             /\ d.mine => After(p, d).flags = "ours"
             /\ ~d.mine => IF d.of \in Batch(p)
                           THEN After(p, d).seen = LastEntry(d.of, task[p].upto)
                           ELSE After(p, d).seen = d.seen
  <2>1. CASE d.of \in Batch(p)
    <3>1. d \in Found(p) /\ Same(d, d) /\ \A b \in Found(p) : Same(b, d) => b = d
      BY <1>5, <2>1 DEF Same
    <3>2. /\ After(p, d).mine = d.mine
          /\ d.mine /\ d.flags = "ours" => After(p, d).flags = d.flags
          /\ ~d.mine => After(p, d).seen = LastEntry(d.of, task[p].upto)
      BY <3>1, AfterIs
    <3>. QED  BY <1>1, <2>1, <3>2
  <2>2. CASE d.of \notin Batch(p)
    <3>1. ~\E c \in Found(p) : Same(c, d)
      BY <2>2, FoundIs DEF Same
    <3>2. After(p, d) = d
      BY <3>1, AfterIs
    <3>. QED  BY <1>1, <2>2, <3>2
  <2>. QED  BY <2>1, <2>2
<1>8. \A c \in rows : c.mine => c.flags = "ours"
  BY <1>3, <1>4, <1>7
<1>9. ASSUME Ours(p), ~mailbox.revived, NEW c \in rows, c.of \in Received, ~c.mine,
             NEW j \in 1..task[p].upto, listed[j] = c.of
      PROVE  j <= c.seen
  <2>1. CASE \E m \in Unseen(p) : c = NewRow(m, task[p].upto)
    BY <1>4, <1>9, <2>1
  <2>2. ASSUME NEW d \in copies, c = After(p, d) PROVE j <= c.seen
    <3>1. c.of = d.of /\ ~d.mine
      BY <1>4, <1>7, <1>9, <2>2
    <3>2. CASE d.of \in Batch(p)
      <4>1. \A i \in 1..task[p].upto : listed[i] = d.of => i <= LastEntry(d.of, task[p].upto)
        BY <3>2, NewRowIs
      <4>. QED  BY <1>7, <1>9, <2>2, <3>1, <3>2, <4>1
    <3>3. CASE d.of \notin Batch(p)
      <4>1. j <= task[p].cursor /\ j \in 1..task[p].cursor
        BY <1>9, <3>1, <3>3, BatchIsListed, Hold
      <4>2. Shows(task[p].cursor, listed, copies)
        BY <1>1, <1>9 DEF MailInv, InTurn, Undisturbed, Syncing
      <4>. QED  BY <1>7, <1>9, <2>2, <3>1, <3>3, <4>1, <4>2 DEF Shows
    <3>. QED  BY <3>2, <3>3
  <2>. QED  BY <1>3, <2>1, <2>2
<1>. QED  BY <1>6, <1>8, <1>9 DEF Shows

LEMMA CommitSyncInv == ASSUME MailInv, NEW p \in Persons, CommitSync(p) PROVE MailInv'
<1>1. /\ task[p].pc = "write" /\ Rests(p) /\ UNCHANGED <<named, listed, connects>>
      /\ listed' = listed /\ named' = named /\ connects' = connects /\ overlapped' = overlapped
  BY DEF CommitSync, Rests
<1>2. CASE UNCHANGED <<mailbox, copies, filed>>
  BY <1>1, <1>2, RestInv
<1>3. CASE /\ ~Trips(p)
           /\ Committed(p, copies')
           /\ filed' = filed \cup {[of |-> m, keyed |-> TRUE] : m \in NewlyFiled(p)}
           /\ mailbox' = [id |-> task[p].id, cursor |-> task[p].upto,
                          revived |-> ~Connected \/ mailbox.revived]
  <2>1. /\ Tasked(p) /\ task[p].id \in Nat /\ task[p].upto \in Nat /\ MailTypeOK
        /\ task[p].upto <= Len(listed) /\ task[p].id <= connects
    BY Hold DEF MailInv, Tasked
  <2>2. /\ mailbox' \in Mailbox /\ Connected' /\ mailbox'.id = task[p].id
        /\ mailbox'.cursor = task[p].upto /\ mailbox'.revived = (~Connected \/ mailbox.revived)
    <3>1. mailbox' \in Mailbox
      <4>1. (~Connected \/ mailbox.revived) \in BOOLEAN
        BY <2>1 DEF MailTypeOK, Mailbox, Connected
      <4>. QED  BY <1>3, <2>1, <4>1 DEF Mailbox
    <3>. QED  BY <1>3, <3>1, NoMailbox DEF Connected
  <2>3. /\ copies' \subseteq Copy /\ \A c, d \in copies' : Same(c, d) => c = d
        /\ \A c \in copies' : Proper(c)
        /\ \A d \in copies : \E c \in copies' : c.of = d.of
        /\ \A c \in copies' : c.by = "send" => \E d \in copies : Same(c, d)
        /\ Ours(p) /\ ~mailbox.revived => Has(task[p].upto, listed, copies')
    BY <1>1, <1>3, CommittedRows
  <2>4. ~overlapped =>
            /\ \A c, d \in copies' : c.of = d.of => c = d
            /\ \A c \in copies' : c.mine => c.flags = "ours"
            /\ Ours(p) /\ ~mailbox.revived => Shows(task[p].upto, listed, copies')
    BY <1>1, <1>3, CommittedAlone
  <2>5. filed' \subseteq Filed
    <3>1. NewlyFiled(p) \subseteq Messages
      BY BatchIsListed DEF NewlyFiled
    <3>2. \A m \in NewlyFiled(p) : [of |-> m, keyed |-> TRUE] \in Filed
      BY <3>1 DEF Filed
    <3>3. filed \subseteq Filed
      BY <2>1 DEF MailTypeOK
    <3>. QED  BY <1>3, <3>2, <3>3
  <2>6. MailTypeOK'
    BY <1>1, <2>1, <2>2, <2>3, <2>5 DEF MailTypeOK
  <2>7. ~mailbox'.revived => Ours(p) /\ Connected /\ ~mailbox.revived /\ mailbox'.id = mailbox.id
    BY <1>3, <2>2 DEF Trips, Ours
  <2>8. \A c \in copies' : c.by = "send" =>
            \/ \E d \in copies \cup task[p].rows : Same(c, d)
            \/ task[p].pc \in Sending /\ c.of = task[p].of
    BY <2>3
  <2>. QED  BY <1>1, <2>1, <2>2, <2>3, <2>4, <2>6, <2>7, <2>8, TaskEnds
<1>. QED  BY <1>2, <1>3 DEF CommitSync, Committed, NewRow

\* The person disconnects, or connects.
LEMMA DisconnectInv == ASSUME MailInv, Disconnect PROVE MailInv'
<1>1. /\ mailbox' = NoMail /\ copies' = {} /\ filed' = {} /\ ~Connected'
      /\ named' = named /\ listed' = listed /\ connects' = connects /\ task' = task
      /\ overlapped' = overlapped
  BY DEF Disconnect, Connected
<1>2. MailTypeOK'
  BY <1>1 DEF MailInv, MailTypeOK
<1>3. \A p \in Persons : Tasked(p)' /\ Apart(p)' /\ Kept(p)'
  BY <1>1 DEF MailInv, Tasked, Proper, IsListed, Apart, Kept, Ours
<1>4. ~overlapped => InTurn'
  <2>1. \A p \in Persons : Undisturbed(p)'
    BY <1>1 DEF Undisturbed, Ours
  <2>. QED  BY <1>1, <2>1 DEF MailInv, InTurn
<1>. QED  BY <1>1, <1>2, <1>3, <1>4 DEF MailInv

LEMMA ConnectInv == ASSUME MailInv, Connect PROVE MailInv'
<1>1. /\ connects' = connects + 1 /\ connects < MaxConnects
      /\ named' = named /\ listed' = listed /\ copies' = copies /\ filed' = filed
      /\ task' = task /\ overlapped' = overlapped
  BY DEF Connect
<1>2. Len(listed) \in Nat /\ connects \in 1..MaxConnects /\ MaxConnects \in Nat
  BY MailConstants, LenProperties DEF MailInv, MailTypeOK
<1>3. /\ mailbox' \in Mailbox /\ Connected' /\ mailbox'.cursor = 0
      /\ mailbox'.id <= connects'
      /\ IF Connected THEN mailbox'.id = mailbox.id /\ mailbox'.revived = mailbox.revived
         ELSE mailbox'.id = connects + 1
  <2>1. CASE Connected
    <3>1. mailbox \in Mailbox /\ mailbox.id <= connects /\ mailbox.id \in Nat
      BY <2>1 DEF MailInv, MailTypeOK, Connected, Mailbox
    <3>2. mailbox' = [mailbox EXCEPT !.cursor = 0]
      BY <2>1 DEF Connect
    <3>3. /\ mailbox' \in Mailbox /\ mailbox'.cursor = 0 /\ mailbox'.id = mailbox.id
          /\ mailbox'.revived = mailbox.revived
      BY <3>1, <3>2 DEF Mailbox
    <3>4. Connected'
      BY <3>3, NoMailbox DEF Connected
    <3>5. mailbox'.id <= connects'
      BY <1>1, <1>2, <3>1, <3>3
    <3>. QED  BY <2>1, <3>3, <3>4, <3>5
  <2>2. CASE ~Connected
    <3>1. mailbox' = [id |-> connects + 1, cursor |-> 0, revived |-> FALSE]
      BY <2>2 DEF Connect
    <3>2. mailbox' \in Mailbox
      BY <1>2, <3>1 DEF Mailbox
    <3>3. Connected'
      BY <3>2, NoMailbox DEF Connected
    <3>4. mailbox'.id = connects + 1 /\ mailbox'.cursor = 0
      BY <3>1
    <3>5. mailbox'.id <= connects'
      BY <1>1, <1>2, <3>4
    <3>. QED  BY <2>2, <3>2, <3>3, <3>4, <3>5
  <2>. QED  BY <2>1, <2>2
<1>4. MailTypeOK'
  <2>1. connects' \in 1..MaxConnects
    BY <1>1, <1>2
  <2>. QED  BY <1>1, <1>3, <2>1 DEF MailInv, MailTypeOK
<1>5. \A c : Proper(c)' <=> Proper(c)
  BY <1>1 DEF Proper, IsListed
<1>6. ASSUME NEW p \in Persons
      PROVE  /\ Tasked(p)' /\ Apart(p)' /\ Batch(p)' = Batch(p)
             /\ Ours(p)' => Ours(p) /\ Connected /\ mailbox'.revived = mailbox.revived
  <2>1. Tasked(p) /\ Apart(p) /\ task[p].id \in Nat /\ task[p].id <= connects
    BY Hold DEF MailInv, Tasked
  <2>2. Tasked(p)'
    BY <1>1, <1>2, <1>5, <2>1 DEF Tasked, IsListed
  <2>3. Apart(p)'
    BY <1>1, <2>1 DEF Apart
  <2>4. Batch(p)' = Batch(p)
    BY <1>1 DEF Batch
  <2>5. Ours(p)' => Connected
    BY <1>1, <1>2, <1>3, <2>1 DEF Ours
  <2>6. Ours(p)' => Ours(p) /\ mailbox'.revived = mailbox.revived
    BY <1>1, <1>3, <2>5 DEF Ours
  <2>. QED  BY <2>2, <2>3, <2>4, <2>5, <2>6
<1>7. \A p \in Persons : Kept(p)'
  BY <1>1, <1>6 DEF MailInv, Kept
<1>8. Has(mailbox'.cursor, listed', copies') /\ Shows(mailbox'.cursor, listed', copies')
  BY <1>3 DEF Has, Shows
<1>9. ASSUME ~overlapped PROVE InTurn'
  <2>1. InTurn
    BY <1>9 DEF MailInv
  <2>2. ASSUME NEW p \in Persons PROVE Undisturbed(p)'
    <3>1. Undisturbed(p)
      BY <2>1 DEF InTurn
    <3>. QED  BY <1>1, <1>6, <3>1 DEF Undisturbed
  <2>. QED  BY <1>1, <1>8, <2>1, <2>2 DEF InTurn
<1>10. \A c \in copies' : Proper(c)'
  BY <1>1, <1>5 DEF MailInv
<1>11. Connected' => mailbox'.id <= connects' /\ mailbox'.cursor <= Len(listed')
  BY <1>1, <1>2, <1>3
<1>12. DOMAIN task' = Persons
  BY <1>1 DEF MailInv
<1>. QED  BY <1>1, <1>3, <1>4, <1>6, <1>7, <1>8, <1>9, <1>10, <1>11, <1>12 DEF MailInv

\* The provider lists one more: something came in, or a worker's mail went out.
LEMMA ListGoesOn ==
  ASSUME MailInv, NEW m \in Messages, listed' = Append(listed, m),
         UNCHANGED <<named, mailbox, connects, copies, filed, overlapped>>,
         DOMAIN task' = Persons,
         \A p \in Persons :
            \/ task'[p] = task[p]
            \/ /\ task[p].pc \in Sending /\ task'[p].pc \in Sending /\ task[p].of = m
               /\ task'[p] \in Task /\ task'[p].id = task[p].id /\ task'[p].upto = task[p].upto
               /\ task'[p].cursor = task[p].cursor /\ task'[p].of = task[p].of
               /\ task'[p].rows = task[p].rows
  PROVE  MailInv'
<1>1. /\ named' = named /\ mailbox' = mailbox /\ connects' = connects /\ copies' = copies
      /\ filed' = filed /\ overlapped' = overlapped /\ (Connected' <=> Connected)
  BY DEF Connected
<1>2. /\ Len(listed) \in Nat /\ listed' \in Seq(Messages) /\ Len(listed') = Len(listed) + 1
      /\ \A i \in 1..Len(listed) : listed'[i] = listed[i]
      /\ listed'[Len(listed')] = m
  <2>1. listed \in Seq(Messages)
    BY DEF MailInv, MailTypeOK
  <2>. QED  BY <2>1, LenProperties, AppendProperties
<1>3. \A n : (IsListed(n) => IsListed(n)') /\ IsListed(m)'
  BY <1>2 DEF IsListed
<1>4. \A c : Proper(c) => Proper(c)'
  BY <1>3 DEF Proper
<1>5. \A n \in Nat : n <= Len(listed) =>
         /\ Has(n, listed', copies) <=> Has(n, listed, copies)
         /\ Shows(n, listed', copies) <=> Shows(n, listed, copies)
  <2>1. \A n \in Nat : n <= Len(listed) => \A i \in 1..n : listed'[i] = listed[i]
    BY <1>2
  <2>. QED  BY <2>1 DEF Has, Shows
<1>6. MailTypeOK'
  BY <1>1, <1>2 DEF MailInv, MailTypeOK
<1>7. ASSUME NEW p \in Persons
      PROVE  /\ task'[p] \in Task /\ task'[p].id = task[p].id /\ task'[p].upto = task[p].upto
             /\ task'[p].cursor = task[p].cursor /\ task'[p].of = task[p].of
             /\ task'[p].rows = task[p].rows
             /\ \/ task'[p].pc = task[p].pc
                \/ task[p].pc \in Sending /\ task'[p].pc \in Sending /\ task[p].of = m
             /\ task[p].pc \in Sending <=> task'[p].pc \in Sending
             /\ task'[p].pc \notin Sending => task'[p].pc = task[p].pc
  BY Hold
<1>8. ASSUME NEW p \in Persons PROVE Tasked(p)'
  <2>1. Tasked(p) /\ task[p].cursor \in Nat /\ task[p].upto \in Nat
    BY Hold DEF MailInv
  <2>2. task'[p].pc \in {"file", "keep"} => IsListed(task[p].of)'
    <3>1. CASE task'[p].pc = task[p].pc
      BY <1>3, <1>7, <2>1, <3>1 DEF Tasked
    <3>2. CASE task[p].of = m
      BY <1>3, <1>7, <3>2
    <3>. QED  BY <1>7, <3>1, <3>2
  <2>3. task'[p].pc = "patch" => task[p].pc = "patch"
    BY <1>7 DEF Sending
  <2>4. \A c \in task'[p].rows : Proper(c)'
    BY <1>4, <1>7, <2>1 DEF Tasked
  <2>5. task'[p].cursor <= Len(listed') /\ task'[p].upto <= Len(listed')
    BY <1>2, <1>7, <2>1 DEF Tasked
  <2>. QED  BY <1>1, <1>7, <2>1, <2>2, <2>3, <2>4, <2>5 DEF Tasked
<1>9. \A p \in Persons : Apart(p)'
  BY <1>1, <1>7 DEF MailInv, Apart
<1>10. ASSUME NEW p \in Persons
       PROVE  /\ Ours(p)' <=> Ours(p)
              /\ task'[p].pc \in Syncing <=> task[p].pc \in Syncing
              /\ task'[p].pc = "write" <=> task[p].pc = "write"
              /\ task'[p].pc = "patch" <=> task[p].pc = "patch"
              /\ task'[p].pc = "idle" <=> task[p].pc = "idle"
              /\ task[p].cursor \in Nat /\ task[p].cursor <= Len(listed)
              /\ Batch(p)' = Batch(p)
  <2>1. task[p].cursor \in Nat /\ task[p].upto \in Nat /\ task[p].cursor <= Len(listed)
        /\ task[p].upto <= Len(listed)
    BY Hold DEF MailInv, Tasked
  <2>2. Batch(p)' = Batch(p)
    <3>. DEFINE S == (task[p].cursor + 1)..task[p].upto
    <3>1. \A i \in S : listed'[i] = listed[i]
      BY <1>2, <2>1
    <3>2. Batch(p) = {listed[i] : i \in S} /\ Batch(p)' = {listed'[i] : i \in S}
      BY <1>7 DEF Batch
    <3>. HIDE DEF S
    <3>3. {listed'[i] : i \in S} = {listed[i] : i \in S}
      BY <3>1
    <3>. QED  BY <3>2, <3>3
  <2>. QED  BY <1>1, <1>7, <2>1, <2>2 DEF Ours, Syncing, Sending
<1>11. \A p \in Persons : Kept(p)'
  BY <1>1, <1>5, <1>7, <1>10 DEF MailInv, Kept
<1>12. Connected => mailbox.cursor \in Nat /\ mailbox.cursor <= Len(listed)
  BY DEF MailInv, MailTypeOK, Connected, Mailbox
<1>13. ASSUME ~overlapped PROVE InTurn'
  <2>1. InTurn
    BY <1>13 DEF MailInv
  <2>2. ASSUME NEW p \in Persons PROVE Undisturbed(p)'
    <3>1. Undisturbed(p)
      BY <2>1 DEF InTurn
    <3>2. {c \in copies : c.of \in Batch(p)}' = {c \in copies : c.of \in Batch(p)}
      BY <1>1, <1>10
    <3>. QED  BY <1>1, <1>5, <1>7, <1>10, <3>1, <3>2 DEF Undisturbed
  <2>3. \A p, q \in Persons : task'[p].pc # "idle" /\ task'[q].pc # "idle" => p = q
    BY <1>10, <2>1 DEF InTurn
  <2>. QED  BY <1>1, <1>5, <1>12, <2>1, <2>2, <2>3 DEF InTurn
<1>14. \A c \in copies' : Proper(c)'
  BY <1>1, <1>4 DEF MailInv
<1>15. Connected' => mailbox'.id <= connects' /\ mailbox'.cursor <= Len(listed')
  BY <1>1, <1>2, <1>12 DEF MailInv
<1>16. Connected' /\ ~mailbox'.revived => Has(mailbox'.cursor, listed', copies')
  BY <1>1, <1>5, <1>12 DEF MailInv
<1>17. ~Connected' => copies' = {}
  BY <1>1 DEF MailInv
<1>. QED  BY <1>1, <1>6, <1>8, <1>9, <1>11, <1>13, <1>14, <1>15, <1>16, <1>17 DEF MailInv

LEMMA ProviderSendsInv == ASSUME MailInv, NEW p \in Persons, ProviderSends(p) PROVE MailInv'
<1>1. PICK pc \in {"file", "keep"} : StepsTo(p, pc)
  BY DEF ProviderSends
<1>2. /\ task[p].pc = "send" /\ listed' = Append(listed, task[p].of) /\ DOMAIN task' = Persons
      /\ task'[p] = [task[p] EXCEPT !.pc = pc]
      /\ \A q \in Persons \ {p} : task'[q] = task[q]
      /\ UNCHANGED <<named, mailbox, connects, copies, filed, overlapped>>
  BY <1>1 DEF ProviderSends, StepsTo, MailInv
<1>3. task[p] \in Task /\ task[p].of \in Messages
  BY <1>2, Hold DEF MailInv, Tasked, Sending, Messages
<1>4. /\ task'[p] \in Task /\ task'[p].pc = pc /\ task'[p].id = task[p].id
      /\ task'[p].upto = task[p].upto /\ task'[p].cursor = task[p].cursor
      /\ task'[p].of = task[p].of /\ task'[p].rows = task[p].rows
  <2>1. pc \in Sending
    BY DEF Sending
  <2>. QED  BY <1>2, <1>3, <2>1 DEF Task
<1>5. task[p].pc \in Sending /\ task'[p].pc \in Sending
  BY <1>2, <1>4 DEF Sending
<1>6. PICK m \in Messages : m = task[p].of
  BY <1>3
<1>7. ASSUME NEW q \in Persons, task'[q] # task[q]
      PROVE  /\ task[q].pc \in Sending /\ task'[q].pc \in Sending /\ task[q].of = m
             /\ task'[q] \in Task /\ task'[q].id = task[q].id /\ task'[q].upto = task[q].upto
             /\ task'[q].cursor = task[q].cursor /\ task'[q].of = task[q].of
             /\ task'[q].rows = task[q].rows
  <2>1. q = p
    BY <1>2, <1>7
  <2>. QED  BY <1>4, <1>5, <1>6, <2>1
<1>8. listed' = Append(listed, m)
  BY <1>2, <1>6
<1>. QED  BY <1>2, <1>7, <1>8, ListGoesOn

LEMMA ArriveInv == ASSUME MailInv, Arrive PROVE MailInv'
<1>1. PICK m \in Received : listed' = Append(listed, m)
  BY DEF Arrive
<1>2. m \in Messages /\ task' = task /\ DOMAIN task' = Persons
  BY DEF Messages, Arrive, MailInv
<1>. QED  BY <1>1, <1>2, ListGoesOn DEF Arrive

LEMMA MailSteps == MailInv /\ [MailNext]_mailVars => MailInv'
<1>. SUFFICES ASSUME MailInv, [MailNext]_mailVars PROVE MailInv'
  OBVIOUS
<1>1. CASE UNCHANGED mailVars
  BY <1>1 DEF mailVars, MailInv, MailTypeOK, Connected, Proper, IsListed, Tasked, Apart, Kept,
              Ours, InTurn, Undisturbed, Batch
<1>2. ASSUME NEW p \in Persons, StartSync(p) \/ SyncStep(p) \/ RequestStep(p) PROVE MailInv'
  BY <1>2, StartSyncInv, FetchInv, LookInv, CommitSyncInv, ProviderSendsInv, FileSentInv,
     KeepSentInv, SavePatchInv DEF SyncStep, RequestStep
<1>3. ASSUME NEW p \in Persons, Fails(p) PROVE MailInv'
  BY <1>3, RestInv DEF Fails, SyncFails, SendDies
<1>4. ASSUME NEW p \in Persons, NEW m \in Sent, StartSend(p, m) PROVE MailInv'
  BY <1>4, StartSendInv
<1>5. ASSUME NEW p \in Persons, NEW c \in copies, LoadCopy(p, c) PROVE MailInv'
  BY <1>5, LoadCopyInv
<1>6. CASE Disconnect \/ Connect \/ Arrive
  BY <1>6, DisconnectInv, ConnectInv, ArriveInv
<1>. QED  BY <1>1, <1>2, <1>3, <1>4, <1>5, <1>6 DEF MailNext

\* What a pass or a request holds agrees with the copies, at every step of it.
THEOREM MailInvariant == MailSpec => []MailInv
BY MailStarts, MailSteps, PTL DEF MailSpec

\* Every variable of a mailbox keeps its type, and a message has one row of each origin.
THEOREM MailTypes == MailSpec => []MailTypeOK
<1>1. MailInv => MailTypeOK
  BY DEF MailInv
<1>. QED  BY <1>1, MailInvariant, PTL

\* What the cursor has passed the person has, whatever failed, overlapped or was
\* connected again in between; and while nothing overlapped each message once, as
\* the person left it or with the provider's last word (mail/sync.py).
THEOREM WhatWasListedIsThere == MailSpec => []MailboxIsTrue
<1>1. MailInv => CursorCovers
  <2>. SUFFICES ASSUME MailInv, Connected, ~mailbox.revived, NEW i \in 1..mailbox.cursor
                PROVE  \E c \in copies :
                          /\ c.of = listed[i]
                          /\ ~overlapped /\ c.of \in Received =>
                                IF c.mine THEN c.flags = "ours"
                                ELSE c.seen >= LastEntry(c.of, mailbox.cursor)
    BY DEF CursorCovers
  <2>1. /\ mailbox.cursor \in Nat /\ mailbox.cursor <= Len(listed)
        /\ Has(mailbox.cursor, listed, copies) /\ copies \subseteq Copy
    BY DEF MailInv, MailTypeOK, Connected, Mailbox
  <2>2. PICK c \in copies : c.of = listed[i]
    BY <2>1 DEF Has
  <2>3. ASSUME ~overlapped, c.of \in Received, ~c.mine
        PROVE  c.seen >= LastEntry(c.of, mailbox.cursor)
    <3>1. Shows(mailbox.cursor, listed, copies)
      BY <2>3 DEF MailInv, InTurn
    <3>. DEFINE n == mailbox.cursor
    <3>2. n \in Nat /\ i \in 1..n
      BY <2>1
    <3>. HIDE DEF n
    <3>3. LastEntry(listed[i], n) \in 1..n /\ listed[LastEntry(listed[i], n)] = listed[i]
      BY <3>2, LastEntryIsLast
    <3>4. LastEntry(c.of, n) <= c.seen
      BY <2>2, <2>3, <3>1, <3>3 DEF Shows, n
    <3>5. c.seen \in Nat
      BY <2>1 DEF Copy
    <3>. QED  BY <2>2, <3>2, <3>3, <3>4, <3>5 DEF n
  <2>4. ~overlapped /\ c.mine => c.flags = "ours"
    BY DEF MailInv, InTurn
  <2>. QED  BY <2>2, <2>3, <2>4
<1>2. MailInv => SentShownOnce
  BY DEF MailInv, InTurn, SentShownOnce
<1>3. MailInv => MailboxIsTrue
  BY <1>1, <1>2 DEF MailboxIsTrue
<1>. QED  BY <1>3, MailInvariant, PTL
-----------------------------------------------------------------------------
(* Side by side.  A behaviour of MCSyncs is one of each pull.              *)

LEMMA SyncsAreBoth == Spec => MailSpec /\ TicketSpec
<1>1. Init => MailInit /\ TicketInit
  BY DEF Init
<1>2. [Next]_vars => [MailNext]_mailVars /\ [TicketNext]_ticketVars
  BY DEF Next, MailDoes, TicketsDo, vars
<1>. QED  BY <1>1, <1>2, PTL DEF Spec, MailSpec, TicketSpec

\* Both pulls are well typed, however many people, passes and changes there are.
THEOREM SyncTypes == Spec => []TypeOK
<1>1. MailTypeOK /\ TicketTypeOK => TypeOK
  BY DEF TypeOK
<1>. QED  BY <1>1, SyncsAreBoth, MailTypes, TicketTypes, PTL
=============================================================================
