----------------------------- MODULE DeskProofs -----------------------------
(***************************************************************************)
(* Proofs about what administrators and their workers do side by side:     *)
(* Campaigns, SecondFactor, Onboarding and Automation, each by itself and  *)
(* for every size.  The modules share no state; each has an inductive      *)
(* invariant of its own, and its theorems come at the end of its part.     *)
(* The last part is about all of them side by side, as MCDesk has them.    *)
(***************************************************************************)
EXTENDS MCDesk, ModelCallsProofs, FiniteSetTheorems, SequenceTheorems,
        WellFoundedInduction, TLAPS

-----------------------------------------------------------------------------
(* Campaigns.  Under the row lock the campaign is a draft, and a draft has *)
(* reached nobody; so a claim is the only one ever made, and its worker    *)
(* the only one to mail.                                                   *)

Locks(w) == at[w] \in {"locked", "claiming"}
Sends(w) == at[w] \in {"delivering", "mailed"}

\* Under the lock nothing changes, and what a claim has read is still so.
UnderLock(w) == /\ Locks(w) => status = "draft"
                /\ at[w] = "claiming" => /\ job[w].copy = text
                                         /\ job[w].todo = recipients
                                         /\ job[w].reached = {}
                /\ at[w] = "locked" => job[w].hidden = recipients \ Sees[job[w].user]

\* Whoever mails has claimed the campaign, and mails whom it has not reached.
Mails(w) == Sends(w) => /\ status = "sending"
                        /\ job[w].todo \subseteq recipients
                        /\ \A c \in job[w].todo : mailed[c] = 0 \/ c \in job[w].reached
                        /\ at[w] = "delivering" => job[w].reached = {}
                        /\ \A c \in job[w].reached : mailed[c] = 1

OneEach == \A v, w \in Colleagues : /\ Locks(v) /\ Locks(w) => v = w
                                    /\ Sends(v) /\ Sends(w) => v = w

DraftReachedNobody == status = "draft" => \A c \in Contacts : mailed[c] = 0

CampaignInv == /\ CampaignTypeOK
               /\ \A w \in Colleagues : UnderLock(w) /\ Mails(w)
               /\ OneEach
               /\ DraftReachedNobody
               /\ MailedOnce
               /\ SentAsShown

CampaignJobs == [user : Users \cup {NoUser}, patch : Patches, copy : [Fields -> Texts],
                 hidden : SUBSET Contacts, todo : SUBSET Contacts, reached : SUBSET Contacts]

-----------------------------------------------------------------------------
LEMMA NoJobType == NoJob \in CampaignJobs /\ NoText \in [Fields -> Texts]
BY CampaignConstants DEF NoJob, CampaignJobs, NoPatch, NoText, Patches

LEMMA CampaignStarts == CampaignInit => CampaignInv
BY NoJobType DEF CampaignInit, CampaignInv, CampaignTypeOK, UnderLock, Mails, Locks, Sends,
                 OneEach, DraftReachedNobody, MailedOnce, SentAsShown, Statuses, Places, Content,
                 CampaignJobs

\* A request that ends leaves the campaign as the others know it.
LEMMA FinishKeeps ==
  ASSUME CampaignInv, NEW w \in Colleagues, Finish(w),
         UNCHANGED <<campaign, mailed, emails, sentOut>>
  PROVE  CampaignInv'
<1>1. /\ at' = [at EXCEPT ![w] = "idle"]
      /\ job' = [job EXCEPT ![w] = NoJob]
      /\ status' = status /\ text' = text /\ recipients' = recipients
      /\ mailed' = mailed /\ sentOut' = sentOut /\ emails' = emails
  BY DEF Finish, StepTo, campaign
<1>2. CampaignTypeOK'
  BY <1>1, NoJobType DEF CampaignInv, CampaignTypeOK, Places, CampaignJobs
<1>3. ASSUME NEW v \in Colleagues PROVE UnderLock(v)' /\ Mails(v)'
  BY <1>1 DEF CampaignInv, CampaignTypeOK, UnderLock, Mails, Locks, Sends
<1>4. OneEach'
  BY <1>1 DEF CampaignInv, CampaignTypeOK, OneEach, Locks, Sends
<1>5. DraftReachedNobody' /\ MailedOnce' /\ SentAsShown'
  BY <1>1 DEF CampaignInv, DraftReachedNobody, MailedOnce, SentAsShown
<1>. QED  BY <1>2, <1>3, <1>4, <1>5 DEF CampaignInv

LEMMA OpenKeeps ==
  ASSUME CampaignInv, NEW w \in Colleagues, NEW u \in Users, NEW patch \in Patches,
         Open(w, u, patch)
  PROVE  CampaignInv'
<1>. DEFINE mine == [NoJob EXCEPT !.user = u, !.patch = patch, !.copy = text]
<1>1. /\ at[w] = "idle"
      /\ at' = [at EXCEPT ![w] = "editing"]
      /\ job' = [job EXCEPT ![w] = mine]
      /\ status' = status /\ text' = text /\ recipients' = recipients
      /\ mailed' = mailed /\ sentOut' = sentOut /\ emails' = emails
  BY DEF Open, StepTo, campaign
<1>2. mine \in CampaignJobs
  BY NoJobType DEF CampaignInv, CampaignTypeOK, CampaignJobs, NoJob
<1>. HIDE DEF mine
<1>3. CampaignTypeOK'
  BY <1>1, <1>2 DEF CampaignInv, CampaignTypeOK, Places, CampaignJobs
<1>4. ASSUME NEW v \in Colleagues PROVE UnderLock(v)' /\ Mails(v)'
  BY <1>1 DEF CampaignInv, CampaignTypeOK, UnderLock, Mails, Locks, Sends
<1>5. OneEach'
  BY <1>1 DEF CampaignInv, CampaignTypeOK, OneEach, Locks, Sends
<1>6. DraftReachedNobody' /\ MailedOnce' /\ SentAsShown'
  BY <1>1 DEF CampaignInv, DraftReachedNobody, MailedOnce, SentAsShown
<1>. QED  BY <1>3, <1>4, <1>5, <1>6 DEF CampaignInv

LEMMA LockForEditKeeps ==
  ASSUME CampaignInv, NEW w \in Colleagues, LockForEdit(w)
  PROVE  CampaignInv'
<1>1. CASE Finish(w)
  <2>1. UNCHANGED <<campaign, mailed, emails, sentOut>>
    BY DEF LockForEdit
  <2>. QED  BY <1>1, <2>1, FinishKeeps
<1>2. CASE ~Finish(w)
  <2>. DEFINE unseen == recipients \ Sees[job[w].user]
  <2>1. /\ at[w] = "editing" /\ RowFree(w) /\ status = "draft"
        /\ at' = [at EXCEPT ![w] = "locked"]
        /\ job' = [job EXCEPT ![w].hidden = unseen]
        /\ status' = status /\ text' = text /\ recipients' = recipients
        /\ mailed' = mailed /\ sentOut' = sentOut /\ emails' = emails
    BY <1>2 DEF LockForEdit, StepTo, campaign
  <2>2. unseen \in SUBSET Contacts
    BY DEF CampaignInv, CampaignTypeOK
  <2>. HIDE DEF unseen
  <2>3. /\ job' \in [Colleagues -> CampaignJobs]
        /\ job'[w].hidden = unseen /\ job'[w].user = job[w].user
        /\ \A v \in Colleagues \ {w} : job'[v] = job[v]
    BY <2>1, <2>2 DEF CampaignInv, CampaignTypeOK, CampaignJobs
  <2>8. at'[w] = "locked" /\ job'[w].hidden = recipients' \ Sees[job'[w].user]
    BY <2>1, <2>3 DEF CampaignInv, CampaignTypeOK, unseen
  <2>4. CampaignTypeOK'
    BY <2>1, <2>3 DEF CampaignInv, CampaignTypeOK, Places, CampaignJobs
  <2>5. ASSUME NEW v \in Colleagues PROVE UnderLock(v)' /\ Mails(v)'
    BY <2>1, <2>3, <2>8 DEF CampaignInv, CampaignTypeOK, UnderLock, Mails, Locks, Sends
  <2>6. OneEach'
    BY <2>1 DEF CampaignInv, CampaignTypeOK, OneEach, Locks, Sends, RowFree
  <2>7. DraftReachedNobody' /\ MailedOnce' /\ SentAsShown'
    BY <2>1 DEF CampaignInv, DraftReachedNobody, MailedOnce, SentAsShown
  <2>. QED  BY <2>4, <2>5, <2>6, <2>7 DEF CampaignInv
<1>. QED  BY <1>1, <1>2

LEMMA CommitEditKeeps ==
  ASSUME CampaignInv, NEW w \in Colleagues, CommitEdit(w)
  PROVE  CampaignInv'
<1>1. /\ at[w] = "locked"
      /\ at' = [at EXCEPT ![w] = "idle"]
      /\ job' = [job EXCEPT ![w] = NoJob]
      /\ text' = Saved(w)
      /\ recipients' = IF job[w].patch.picks THEN job[w].patch.chosen \cup job[w].hidden
                       ELSE recipients
      /\ status' = status /\ mailed' = mailed /\ sentOut' = sentOut /\ emails' = emails
  BY DEF CommitEdit, Finish, StepTo
<1>2. status = "draft" /\ \A v \in Colleagues \ {w} : ~Locks(v) /\ ~Sends(v)
  BY <1>1 DEF CampaignInv, UnderLock, Mails, Locks, OneEach
<1>3. text' \in [Fields -> Texts] /\ recipients' \in SUBSET Contacts
  BY <1>1 DEF CampaignInv, CampaignTypeOK, Saved, Patches
<1>4. CampaignTypeOK'
  BY <1>1, <1>3, NoJobType DEF CampaignInv, CampaignTypeOK, Places, CampaignJobs
<1>5. ASSUME NEW v \in Colleagues PROVE ~Locks(v)' /\ ~Sends(v)'
  BY <1>1, <1>2 DEF CampaignInv, CampaignTypeOK, Locks, Sends
<1>6. ASSUME NEW v \in Colleagues PROVE UnderLock(v)' /\ Mails(v)'
  BY <1>5 DEF UnderLock, Mails, Locks
<1>7. OneEach'
  BY <1>5 DEF OneEach
<1>8. DraftReachedNobody' /\ MailedOnce' /\ SentAsShown'
  BY <1>1, <1>2 DEF CampaignInv, DraftReachedNobody, MailedOnce, SentAsShown
<1>. QED  BY <1>4, <1>6, <1>7, <1>8 DEF CampaignInv

LEMMA DeleteKeeps ==
  ASSUME CampaignInv, NEW w \in Colleagues, Delete(w)
  PROVE  CampaignInv'
<1>1. /\ at[w] = "idle" /\ RowFree(w) /\ status \in {"draft", "sent"}
      /\ status' = "deleted"
      /\ text' = text /\ recipients' = recipients /\ mailed' = mailed /\ sentOut' = sentOut
      /\ emails' = emails /\ at' = at /\ job' = job
  BY DEF Delete
<1>2. ASSUME NEW v \in Colleagues PROVE ~Locks(v) /\ ~Sends(v)
  BY <1>1 DEF CampaignInv, RowFree, Locks, Sends, Mails
<1>3. CampaignTypeOK'
  BY <1>1 DEF CampaignInv, CampaignTypeOK, Statuses
<1>4. ASSUME NEW v \in Colleagues PROVE UnderLock(v)' /\ Mails(v)'
  BY <1>1, <1>2 DEF UnderLock, Mails, Locks, Sends
<1>5. OneEach' /\ DraftReachedNobody' /\ MailedOnce' /\ SentAsShown'
  BY <1>1 DEF CampaignInv, OneEach, Locks, Sends, DraftReachedNobody, MailedOnce, SentAsShown
<1>. QED  BY <1>3, <1>4, <1>5 DEF CampaignInv

-----------------------------------------------------------------------------
(* The send.                                                               *)

LEMMA ClaimKeeps ==
  ASSUME CampaignInv, NEW w \in Colleagues, Claim(w)
  PROVE  CampaignInv'
<1>. DEFINE mine == [NoJob EXCEPT !.copy = text, !.todo = recipients]
<1>1. /\ at[w] = "idle" /\ RowFree(w) /\ status = "draft"
      /\ at' = [at EXCEPT ![w] = "claiming"]
      /\ job' = [job EXCEPT ![w] = mine]
      /\ status' = status /\ text' = text /\ recipients' = recipients
      /\ mailed' = mailed /\ sentOut' = sentOut /\ emails' = emails
  BY DEF Claim, Refused, StepTo, campaign
<1>2. mine \in CampaignJobs /\ mine.copy = text /\ mine.todo = recipients /\ mine.reached = {}
  BY NoJobType DEF CampaignInv, CampaignTypeOK, CampaignJobs, NoJob
<1>. HIDE DEF mine
<1>3. CampaignTypeOK'
  BY <1>1, <1>2 DEF CampaignInv, CampaignTypeOK, Places, CampaignJobs
<1>4. ASSUME NEW v \in Colleagues PROVE UnderLock(v)' /\ Mails(v)'
  BY <1>1, <1>2 DEF CampaignInv, CampaignTypeOK, UnderLock, Mails, Locks, Sends
<1>5. OneEach'
  BY <1>1 DEF CampaignInv, CampaignTypeOK, OneEach, Locks, Sends, RowFree
<1>6. DraftReachedNobody' /\ MailedOnce' /\ SentAsShown'
  BY <1>1 DEF CampaignInv, DraftReachedNobody, MailedOnce, SentAsShown
<1>. QED  BY <1>3, <1>4, <1>5, <1>6 DEF CampaignInv

LEMMA CommitClaimKeeps ==
  ASSUME CampaignInv, NEW w \in Colleagues, CommitClaim(w)
  PROVE  CampaignInv'
<1>. DEFINE out == [text |-> job[w].copy, to |-> job[w].todo]
<1>1. /\ at[w] = "claiming"
      /\ at' = [at EXCEPT ![w] = "delivering"]
      /\ status' = "sending"
      /\ sentOut' = out
      /\ text' = text /\ recipients' = recipients
      /\ mailed' = mailed /\ emails' = emails /\ job' = job
  BY DEF CommitClaim, StepTo
<1>2. /\ status = "draft" /\ job[w].copy = text /\ job[w].todo = recipients
      /\ job[w].reached = {}
      /\ \A v \in Colleagues \ {w} : ~Locks(v) /\ ~Sends(v)
  BY <1>1 DEF CampaignInv, UnderLock, Mails, Locks, OneEach
<1>3. out \in Content /\ out.text = text /\ out.to = recipients
  BY <1>2 DEF CampaignInv, CampaignTypeOK, Content
<1>. HIDE DEF out
<1>4. \A c \in Contacts : mailed[c] = 0
  BY <1>2 DEF CampaignInv, DraftReachedNobody
<1>5. CampaignTypeOK'
  BY <1>1, <1>3 DEF CampaignInv, CampaignTypeOK, Statuses, Places
<1>6. ASSUME NEW v \in Colleagues PROVE /\ ~Locks(v)'
                                        /\ Sends(v)' => v = w
  BY <1>1, <1>2 DEF CampaignInv, CampaignTypeOK, Locks, Sends
<1>7. ASSUME NEW v \in Colleagues PROVE UnderLock(v)'
  BY <1>6 DEF UnderLock, Locks
<1>8. ASSUME NEW v \in Colleagues PROVE Mails(v)'
  <2>1. \A c \in job[w].todo : mailed[c] = 0
    BY <1>2, <1>4 DEF CampaignInv, CampaignTypeOK
  <2>. QED  BY <1>1, <1>2, <1>6, <2>1 DEF Mails
<1>9. OneEach'
  BY <1>6 DEF OneEach
<1>10. DraftReachedNobody' /\ MailedOnce' /\ SentAsShown'
  BY <1>1, <1>3, <1>4 DEF CampaignInv, DraftReachedNobody, MailedOnce, SentAsShown
<1>. QED  BY <1>5, <1>7, <1>8, <1>9, <1>10 DEF CampaignInv

\* A worker that mails is the only one, under no lock of anybody's edit.
LEMMA SendsAlone ==
  ASSUME CampaignInv, NEW w \in Colleagues, Sends(w)
  PROVE  /\ status = "sending"
         /\ \A v \in Colleagues : ~Locks(v)
         /\ \A v \in Colleagues \ {w} : ~Sends(v)
BY DEF CampaignInv, UnderLock, Mails, Locks, OneEach

LEMMA MailKeeps ==
  ASSUME CampaignInv, NEW w \in Colleagues, NEW c \in Contacts, Mail(w, c)
  PROVE  CampaignInv'
<1>1. /\ at[w] = "delivering" /\ c \in job[w].todo
      /\ status' = status /\ text' = text /\ recipients' = recipients
      /\ sentOut' = sentOut /\ emails' = emails
  BY DEF Mail, campaign
<1>2. /\ status = "sending"
      /\ \A v \in Colleagues : ~Locks(v)
      /\ \A v \in Colleagues \ {w} : ~Sends(v)
  BY <1>1, SendsAlone DEF Sends
<1>3. /\ job[w].todo \subseteq recipients /\ job[w].reached = {}
      /\ \A d \in job[w].todo : mailed[d] = 0
  BY <1>1 DEF CampaignInv, Mails, Sends
<1>4. CASE mailed' = [mailed EXCEPT ![c] = @ + 1] /\ StepTo(w, "mailed")
           /\ job' = [job EXCEPT ![w].reached = {c}]
  <2>1. at' = [at EXCEPT ![w] = "mailed"] /\ mailed' \in [Contacts -> Nat]
    BY <1>4 DEF StepTo, CampaignInv, CampaignTypeOK
  <2>2. /\ job' \in [Colleagues -> CampaignJobs]
        /\ job'[w].todo = job[w].todo /\ job'[w].reached = {c}
    BY <1>4 DEF CampaignInv, CampaignTypeOK, CampaignJobs
  <2>3. /\ mailed'[c] = 1
        /\ \A d \in Contacts \ {c} : mailed'[d] = mailed[d]
    BY <1>1, <1>3, <1>4 DEF CampaignInv, CampaignTypeOK
  <2>4. CampaignTypeOK'
    BY <1>1, <2>1, <2>2 DEF CampaignInv, CampaignTypeOK, Places, CampaignJobs
  <2>5. ASSUME NEW v \in Colleagues PROVE ~Locks(v)' /\ (Sends(v)' => v = w)
    BY <1>2, <2>1 DEF CampaignInv, CampaignTypeOK, Locks, Sends
  <2>6. ASSUME NEW v \in Colleagues PROVE UnderLock(v)'
    BY <2>5 DEF UnderLock, Locks
  <2>7. Mails(w)'
    <3>1. \A d \in job'[w].todo : mailed'[d] = 0 \/ d \in job'[w].reached
      BY <1>3, <2>2, <2>3 DEF CampaignInv, CampaignTypeOK
    <3>2. at'[w] = "mailed"
      BY <2>1 DEF CampaignInv, CampaignTypeOK
    <3>. QED  BY <1>1, <1>2, <1>3, <2>2, <2>3, <3>1, <3>2 DEF Mails
  <2>8. ASSUME NEW v \in Colleagues PROVE Mails(v)'
    BY <2>5, <2>7 DEF Mails
  <2>9. OneEach'
    BY <2>5 DEF OneEach
  <2>10. DraftReachedNobody' /\ MailedOnce'
    BY <1>1, <1>2, <2>3 DEF CampaignInv, DraftReachedNobody, MailedOnce
  <2>11. SentAsShown'
    BY <1>1, <1>3, <2>3 DEF CampaignInv, SentAsShown
  <2>. QED  BY <2>4, <2>6, <2>8, <2>9, <2>10, <2>11 DEF CampaignInv
<1>5. CASE job' = [job EXCEPT ![w].todo = @ \ {c}] /\ UNCHANGED <<mailed, at>>
  <2>1. /\ job' \in [Colleagues -> CampaignJobs]
        /\ job'[w].todo \subseteq job[w].todo /\ job'[w].reached = job[w].reached
    BY <1>5 DEF CampaignInv, CampaignTypeOK, CampaignJobs
  <2>2. CampaignTypeOK'
    BY <1>1, <1>5, <2>1 DEF CampaignInv, CampaignTypeOK, CampaignJobs
  <2>3. ASSUME NEW v \in Colleagues PROVE ~Locks(v)' /\ (Sends(v)' => v = w)
    BY <1>2, <1>5 DEF Locks, Sends
  <2>4. ASSUME NEW v \in Colleagues PROVE UnderLock(v)'
    BY <2>3 DEF UnderLock, Locks
  <2>5. Mails(w)'
    BY <1>1, <1>2, <1>3, <1>5, <2>1 DEF Mails
  <2>6. ASSUME NEW v \in Colleagues PROVE Mails(v)'
    BY <2>3, <2>5 DEF Mails
  <2>7. OneEach'
    BY <2>3 DEF OneEach
  <2>8. DraftReachedNobody' /\ MailedOnce' /\ SentAsShown'
    BY <1>1, <1>5 DEF CampaignInv, DraftReachedNobody, MailedOnce, SentAsShown
  <2>. QED  BY <2>2, <2>4, <2>6, <2>7, <2>8 DEF CampaignInv
<1>. QED  BY <1>4, <1>5 DEF Mail

LEMMA RecordKeeps ==
  ASSUME CampaignInv, NEW w \in Colleagues, Record(w)
  PROVE  CampaignInv'
<1>1. /\ at[w] = "mailed"
      /\ at' = [at EXCEPT ![w] = "delivering"]
      /\ job' = [job EXCEPT ![w].todo = @ \ job[w].reached, ![w].reached = {}]
      /\ status' = status /\ text' = text /\ recipients' = recipients
      /\ mailed' = mailed /\ sentOut' = sentOut
  BY DEF Record, StepTo, campaign
<1>2. /\ status = "sending"
      /\ \A v \in Colleagues : ~Locks(v)
      /\ \A v \in Colleagues \ {w} : ~Sends(v)
  BY <1>1, SendsAlone DEF Sends
<1>3. /\ job[w].todo \subseteq recipients
      /\ \A d \in job[w].todo : mailed[d] = 0 \/ d \in job[w].reached
      /\ \A d \in job[w].reached : mailed[d] = 1
  BY <1>1 DEF CampaignInv, Mails, Sends
<1>4. /\ job' \in [Colleagues -> CampaignJobs]
      /\ job'[w].todo = job[w].todo \ job[w].reached /\ job'[w].reached = {}
  BY <1>1 DEF CampaignInv, CampaignTypeOK, CampaignJobs
<1>5. /\ emails' \subseteq Contacts
      /\ emails' \subseteq emails \cup job[w].reached
  BY DEF Record, CampaignInv, CampaignTypeOK
<1>6. CampaignTypeOK'
  BY <1>1, <1>4, <1>5 DEF CampaignInv, CampaignTypeOK, Places, CampaignJobs
<1>7. ASSUME NEW v \in Colleagues PROVE ~Locks(v)' /\ (Sends(v)' => v = w)
  BY <1>1, <1>2 DEF CampaignInv, CampaignTypeOK, Locks, Sends
<1>8. ASSUME NEW v \in Colleagues PROVE UnderLock(v)'
  BY <1>7 DEF UnderLock, Locks
<1>9. Mails(w)'
  BY <1>1, <1>2, <1>3, <1>4 DEF Mails
<1>10. ASSUME NEW v \in Colleagues PROVE Mails(v)'
  BY <1>7, <1>9 DEF Mails
<1>11. OneEach'
  BY <1>7 DEF OneEach
<1>12. DraftReachedNobody' /\ MailedOnce' /\ SentAsShown'
  BY <1>1, <1>3, <1>5 DEF CampaignInv, DraftReachedNobody, MailedOnce, SentAsShown
<1>. QED  BY <1>6, <1>8, <1>10, <1>11, <1>12 DEF CampaignInv

LEMMA CommitSentKeeps ==
  ASSUME CampaignInv, NEW w \in Colleagues, CommitSent(w)
  PROVE  CampaignInv'
<1>1. /\ at[w] = "delivering"
      /\ at' = [at EXCEPT ![w] = "idle"]
      /\ job' = [job EXCEPT ![w] = NoJob]
      /\ status' = "sent" /\ text' = text /\ recipients' = recipients
      /\ mailed' = mailed /\ sentOut' = sentOut /\ emails' = emails
  BY DEF CommitSent, Finish, StepTo
<1>2. /\ status = "sending"
      /\ \A v \in Colleagues : ~Locks(v)
      /\ \A v \in Colleagues \ {w} : ~Sends(v)
  BY <1>1, SendsAlone DEF Sends
<1>3. CampaignTypeOK'
  BY <1>1, NoJobType DEF CampaignInv, CampaignTypeOK, Statuses, Places, CampaignJobs
<1>4. ASSUME NEW v \in Colleagues PROVE ~Locks(v)' /\ ~Sends(v)'
  BY <1>1, <1>2 DEF CampaignInv, CampaignTypeOK, Locks, Sends
<1>5. ASSUME NEW v \in Colleagues PROVE UnderLock(v)' /\ Mails(v)'
  BY <1>4 DEF UnderLock, Mails, Locks
<1>6. OneEach'
  BY <1>4 DEF OneEach
<1>7. DraftReachedNobody' /\ MailedOnce' /\ SentAsShown'
  BY <1>1, <1>2 DEF CampaignInv, DraftReachedNobody, MailedOnce, SentAsShown
<1>. QED  BY <1>3, <1>5, <1>6, <1>7 DEF CampaignInv

LEMMA CampaignDiesKeeps ==
  ASSUME CampaignInv, NEW w \in Colleagues, CampaignDies(w)
  PROVE  CampaignInv'
<1>1. Finish(w) /\ UNCHANGED <<campaign, mailed, emails, sentOut>>
  BY DEF CampaignDies
<1>. QED  BY <1>1, FinishKeeps

-----------------------------------------------------------------------------
LEMMA CampaignSteps == CampaignInv /\ [CampaignNext]_campaignVars => CampaignInv'
<1>. SUFFICES ASSUME CampaignInv, [CampaignNext]_campaignVars PROVE CampaignInv'
  OBVIOUS
<1>1. CASE UNCHANGED campaignVars
  BY <1>1 DEF campaignVars, campaign, CampaignInv, CampaignTypeOK, UnderLock, Mails, Locks, Sends,
              OneEach, DraftReachedNobody, MailedOnce, SentAsShown
<1>2. CASE CampaignNext
  BY <1>2, OpenKeeps, LockForEditKeeps, CommitEditKeeps, DeleteKeeps, ClaimKeeps,
     CommitClaimKeeps, MailKeeps, RecordKeeps, CommitSentKeeps, CampaignDiesKeeps DEF CampaignNext
<1>. QED  BY <1>1, <1>2

\* CampaignInv holds in every state of every run, however many workers there are.
THEOREM CampaignInvariant == CampaignSpec => []CampaignInv
BY CampaignStarts, CampaignSteps, PTL DEF CampaignSpec

\* Every variable keeps its type.
THEOREM CampaignTypes == CampaignSpec => []CampaignTypeOK
<1>. CampaignInv => CampaignTypeOK  BY DEF CampaignInv
<1>. QED  BY CampaignInvariant, PTL

\* Nobody gets the campaign twice: the send and the resend a user tries after
\* a crash (CampaignSendView) reach each contact at most once between them, and
\* whoever has a row was reached.
THEOREM ReachedOnce == CampaignSpec => []MailedOnce
<1>. CampaignInv => MailedOnce  BY DEF CampaignInv
<1>. QED  BY CampaignInvariant, PTL

\* A campaign that is going out or has gone out keeps the text and recipients
\* it went out with (the status check of perform_update is under the lock).
THEOREM WhatWentOutStays == CampaignSpec => []SentAsShown
<1>. CampaignInv => SentAsShown  BY DEF CampaignInv
<1>. QED  BY CampaignInvariant, PTL

LEMMA OnlyTheOwnerLeaves ==
  ASSUME CampaignInv, CampaignNext, NEW w \in Colleagues, at[w] = "locked", at'[w] = "idle"
  PROVE  recipients \ Sees[job[w].user] \subseteq recipients'
<1>1. PICK v \in Colleagues :
         \/ \E u \in Users, patch \in Patches : Open(v, u, patch)
         \/ LockForEdit(v) \/ CommitEdit(v) \/ Delete(v)
         \/ Claim(v) \/ CommitClaim(v)
         \/ \E c \in Contacts : Mail(v, c)
         \/ Record(v) \/ CommitSent(v) \/ CampaignDies(v)
  BY DEF CampaignNext
<1>2. CASE CommitEdit(v)
  <2>1. v = w
    BY <1>2 DEF CommitEdit, Finish, StepTo, CampaignInv, CampaignTypeOK
  <2>2. job[w].hidden = recipients \ Sees[job[w].user]
    BY DEF CampaignInv, UnderLock
  <2>. QED  BY <1>2, <2>1, <2>2 DEF CommitEdit
<1>3. CASE ~CommitEdit(v)
  <2>1. recipients' = recipients
    BY <1>1, <1>3 DEF Open, LockForEdit, Delete, Claim, CommitClaim, Mail, Record, CommitSent,
                      CampaignDies, campaign
  <2>. QED  BY <2>1
<1>. QED  BY <1>2, <1>3

\* An edit drops nobody its editor cannot open, also somebody another editor
\* added a moment ago ("the hidden ones are kept untouched").
THEOREM HiddenOnesStay == CampaignSpec => UnseenAreKept
<1>1. CampaignInv /\ [CampaignNext]_campaignVars
        => [\A w \in Colleagues : at[w] = "locked" /\ at'[w] = "idle"
               => recipients \ Sees[job[w].user] \subseteq recipients']_campaignVars
  BY OnlyTheOwnerLeaves
<1>. QED  BY <1>1, CampaignInvariant, PTL DEF CampaignSpec, UnseenAreKept

-----------------------------------------------------------------------------
(* SecondFactor.  Whoever holds the row has a code in hand that was never  *)
(* used; the row's last step has every used code behind it; and what is    *)
(* not generated yet has not been used.                                    *)

LoginPhases == {"idle", "setup", "confirm", "verify", "disable"}
Logins == [pc : LoginPhases, row : Device \cup {NoDevice}, code : Codes \cup {<<>>}]

Holds(b) == login[b].pc \in {"verify", "disable"}

\* A code the confirmed row would take, and the ones it has taken.
Opens(row, c) == \/ c \in AppCodes /\ c[2] = row.secret /\ c[3] > row.last_counter
                 \/ c \in row.recovery_codes

InHand(b) ==
    /\ Holds(b) => /\ device # NoDevice /\ device.confirmed
                   /\ login[b].row = device
                   /\ login[b].code \in Codes /\ Opens(device, login[b].code)
    /\ login[b].pc = "confirm" => /\ login[b].row # NoDevice /\ ~login[b].row.confirmed
                                  /\ login[b].code \in AppCodes
                                  /\ login[b].code[2] = login[b].row.secret

OneHolder == \A b, d \in Browsers : Holds(b) /\ Holds(d) => b = d

NotYetUsed == /\ \A c \in AppCodes : c[2] > secrets => uses[c] = 0
              /\ ~crossed => \A c \in PrintedCodes : c[2] > batches => uses[c] = 0

Known == /\ device # NoDevice => device.secret <= secrets
         /\ device # NoDevice /\ device.confirmed => batches > 0
         /\ \A b \in Browsers : login[b].row # NoDevice => login[b].row.secret <= secrets

\* What the row would still take nobody has used, unless enrolments crossed.
Unused == ~crossed /\ device # NoDevice =>
              \A c \in AppCodes :
                  c[2] = device.secret /\ (device.confirmed => c[3] > device.last_counter)
                      => uses[c] = 0

FactorInv == /\ FactorTypeOK
             /\ \A b \in Browsers : InHand(b)
             /\ OneHolder
             /\ NotYetUsed
             /\ Known
             /\ Unused
             /\ CodesAreSpentOnce

-----------------------------------------------------------------------------
LEMMA NoLoginType == NoLogin \in Logins
BY DEF NoLogin, Logins, LoginPhases

\* A code is an app's or a printed one.
LEMMA KindsOfCode ==
  /\ \A c \in AppCodes : c[1] = "app" /\ c[2] \in Int /\ c[3] \in 0..MaxSteps + 1
  /\ \A c \in PrintedCodes : c[1] = "printed" /\ c[2] \in Int
  /\ \A n : \A c \in Batch(n) : c[1] = "printed" /\ c[2] = n
  /\ \A n \in 1..MaxSecrets : Batch(n) \subseteq PrintedCodes
BY DEF AppCodes, PrintedCodes, Batch

LEMMA FactorStarts == FactorInit => FactorInv
<1>. SUFFICES ASSUME FactorInit PROVE FactorInv
  OBVIOUS
<1>1. FactorTypeOK
  <2>1. counter \in 0..MaxSteps /\ secrets \in 0..MaxSecrets /\ batches \in 0..MaxSecrets
    BY FactorConstants DEF FactorInit
  <2>2. login \in [Browsers -> Logins]
    BY NoLoginType DEF FactorInit
  <2>3. uses \in [Codes -> Nat] /\ crossed \in BOOLEAN /\ device \in Device \cup {NoDevice}
    BY DEF FactorInit
  <2>. QED  BY <2>1, <2>2, <2>3, Zenon DEF FactorTypeOK, Logins, LoginPhases
<1>2. \A b \in Browsers : login[b].pc = "idle" /\ login[b].row = NoDevice
  BY DEF FactorInit, NoLogin
<1>3. (\A b \in Browsers : InHand(b)) /\ OneHolder
  BY <1>2 DEF InHand, Holds, OneHolder
<1>4. Known /\ Unused
  BY <1>2 DEF Known, Unused, FactorInit
<1>5. NotYetUsed /\ CodesAreSpentOnce
  BY DEF NotYetUsed, CodesAreSpentOnce, FactorInit, Codes
<1>. QED  BY <1>1, <1>3, <1>4, <1>5 DEF FactorInv

\* A request that is over, with nothing else changed.
LEMMA GivesUpKeeps ==
  ASSUME FactorInv, NEW b \in Browsers, GivesUp(b)
  PROVE  FactorInv'
<1>1. /\ login' = [login EXCEPT ![b] = NoLogin]
      /\ counter' = counter /\ secrets' = secrets /\ batches' = batches
      /\ device' = device /\ uses' = uses /\ crossed' = crossed
  BY DEF GivesUp, Over
<1>2. login' \in [Browsers -> Logins]
  BY <1>1, NoLoginType DEF FactorInv, FactorTypeOK, Logins, LoginPhases
<1>3. FactorTypeOK'
  BY <1>1, <1>2 DEF FactorInv, FactorTypeOK, Logins, LoginPhases
<1>4. \A d \in Browsers : login'[d] = login[d] \/ login'[d] = NoLogin
  BY <1>1 DEF FactorInv, FactorTypeOK
<1>5. ASSUME NEW d \in Browsers PROVE InHand(d)'
  BY <1>1, <1>4 DEF FactorInv, InHand, Holds, NoLogin
<1>6. OneHolder'
  BY <1>4 DEF FactorInv, OneHolder, Holds, NoLogin
<1>7. Known'
  BY <1>1, <1>4 DEF FactorInv, Known, NoLogin
<1>8. NotYetUsed' /\ Unused' /\ CodesAreSpentOnce'
  BY <1>1 DEF FactorInv, NotYetUsed, Unused, CodesAreSpentOnce
<1>. QED  BY <1>3, <1>5, <1>6, <1>7, <1>8 DEF FactorInv

LEMMA TickKeeps == FactorInv /\ Tick => FactorInv'
<1>. SUFFICES ASSUME FactorInv, Tick PROVE FactorInv'
  OBVIOUS
<1>1. /\ counter' = counter + 1 /\ counter < MaxSteps
      /\ secrets' = secrets /\ batches' = batches /\ device' = device
      /\ login' = login /\ uses' = uses /\ crossed' = crossed
  BY DEF Tick
<1>2. FactorTypeOK'
  BY <1>1, FactorConstants DEF FactorInv, FactorTypeOK
<1>3. (\A b \in Browsers : InHand(b)') /\ OneHolder' /\ Known'
  BY <1>1 DEF FactorInv, InHand, Holds, OneHolder, Known
<1>4. NotYetUsed' /\ Unused' /\ CodesAreSpentOnce'
  BY <1>1 DEF FactorInv, NotYetUsed, Unused, CodesAreSpentOnce
<1>. QED  BY <1>2, <1>3, <1>4 DEF FactorInv

-----------------------------------------------------------------------------
(* A request takes the row in hand: to begin, to confirm, to present a code *)

LEMMA BecomesKeeps ==
  ASSUME FactorInv, NEW b \in Browsers, NEW place \in LoginPhases, NEW c \in Codes \cup {<<>>},
         Becomes(b, place, c), UNCHANGED <<counter, secrets, batches, device, uses, crossed>>,
         InHand(b)',
         Holds(b)' => \A d \in Browsers : ~Holds(d)
  PROVE  FactorInv'
<1>. DEFINE new == [pc |-> place, row |-> device, code |-> c]
<1>1. /\ login' = [login EXCEPT ![b] = new]
      /\ counter' = counter /\ secrets' = secrets /\ batches' = batches
      /\ device' = device /\ uses' = uses /\ crossed' = crossed
  BY DEF Becomes
<1>2. new \in Logins /\ new.row = device
  BY DEF FactorInv, FactorTypeOK, Logins
<1>. HIDE DEF new
<1>3. login' \in [Browsers -> Logins]
  BY <1>1, <1>2 DEF FactorInv, FactorTypeOK, Logins, LoginPhases
<1>4. FactorTypeOK'
  BY <1>1, <1>3 DEF FactorInv, FactorTypeOK, Logins, LoginPhases
<1>5. login'[b] = new /\ \A d \in Browsers \ {b} : login'[d] = login[d]
  BY <1>1 DEF FactorInv, FactorTypeOK
<1>6. ASSUME NEW d \in Browsers PROVE InHand(d)'
  BY <1>1, <1>5 DEF FactorInv, InHand, Holds
<1>7. OneHolder'
  BY <1>5 DEF FactorInv, OneHolder, Holds
<1>8. Known'
  BY <1>1, <1>2, <1>5 DEF FactorInv, Known
<1>9. NotYetUsed' /\ Unused' /\ CodesAreSpentOnce'
  BY <1>1 DEF FactorInv, NotYetUsed, Unused, CodesAreSpentOnce
<1>. QED  BY <1>4, <1>6, <1>7, <1>8, <1>9 DEF FactorInv

LEMMA SetupKeeps ==
  ASSUME FactorInv, NEW b \in Browsers, Setup(b)
  PROVE  FactorInv'
<1>1. /\ Becomes(b, "setup", <<>>)
      /\ UNCHANGED <<counter, secrets, batches, device, uses, crossed>>
  BY DEF Setup
<1>2. login'[b].pc = "setup"
  BY <1>1 DEF Becomes, FactorInv, FactorTypeOK
<1>3. InHand(b)' /\ ~Holds(b)'
  BY <1>2 DEF InHand, Holds
<1>. QED  BY <1>1, <1>3, BecomesKeeps DEF LoginPhases

LEMMA ConfirmKeeps ==
  ASSUME FactorInv, NEW b \in Browsers, NEW c \in AppCodes, Confirm(b, c)
  PROVE  FactorInv'
<1>1. /\ Becomes(b, "confirm", c)
      /\ UNCHANGED <<counter, secrets, batches, device, uses, crossed>>
      /\ device # NoDevice /\ ~device.confirmed /\ c[2] = device.secret
  BY DEF Confirm, Matches
<1>2. login'[b] = [pc |-> "confirm", row |-> device, code |-> c]
  BY <1>1 DEF Becomes, FactorInv, FactorTypeOK
<1>3. InHand(b)' /\ ~Holds(b)'
  BY <1>1, <1>2 DEF InHand, Holds
<1>. QED  BY <1>1, <1>3, BecomesKeeps DEF LoginPhases, Codes

LEMMA PresentKeeps ==
  ASSUME FactorInv, NEW b \in Browsers, NEW c \in Codes, NEW place \in {"verify", "disable"},
         Present(b, c, place)
  PROVE  FactorInv'
<1>1. /\ Becomes(b, place, c)
      /\ UNCHANGED <<counter, secrets, batches, device, uses, crossed>>
      /\ device # NoDevice /\ device.confirmed /\ DeviceFree
  BY DEF Present
<1>2. Opens(device, c)
  BY DEF Present, Matches, Opens, Codes, AppCodes, PrintedCodes
<1>3. login'[b] = [pc |-> place, row |-> device, code |-> c]
  BY <1>1 DEF Becomes, FactorInv, FactorTypeOK
<1>4. InHand(b)'
  BY <1>1, <1>2, <1>3 DEF InHand, Holds, Opens
<1>5. \A d \in Browsers : ~Holds(d)
  BY <1>1 DEF DeviceFree, Holds
<1>. QED  BY <1>1, <1>4, <1>5, BecomesKeeps DEF LoginPhases

-----------------------------------------------------------------------------
(* The row is written: an enrolment, a confirmation, a code that is spent  *)

\* A request ends: nobody else's row or code in hand changes.
LEMMA OverLeavesOthers ==
  ASSUME FactorTypeOK, NEW b \in Browsers, Over(b)
  PROVE  /\ login' \in [Browsers -> Logins]
         /\ login'[b] = NoLogin
         /\ \A d \in Browsers \ {b} : login'[d] = login[d]
BY NoLoginType DEF FactorTypeOK, Over, Logins, LoginPhases

\* After a write by b that leaves no holder, what the others hold is as it was.
LEMMA NobodyHolds ==
  ASSUME FactorInv, NEW b \in Browsers, Over(b), \A d \in Browsers \ {b} : ~Holds(d)
  PROVE  (\A d \in Browsers : InHand(d)') /\ OneHolder'
<1>1. /\ login'[b] = NoLogin
      /\ \A d \in Browsers \ {b} : login'[d] = login[d]
  BY OverLeavesOthers DEF FactorInv
<1>2. \A d \in Browsers : ~Holds(d)'
  BY <1>1 DEF Holds, NoLogin
<1>3. ASSUME NEW d \in Browsers PROVE InHand(d)'
  <2>1. CASE d = b
    BY <2>1, <1>1 DEF InHand, Holds, NoLogin
  <2>2. CASE d # b
    BY <2>2, <1>1, <1>2 DEF FactorInv, InHand
  <2>. QED  BY <2>1, <2>2
<1>4. OneHolder'
  BY <1>2 DEF OneHolder
<1>. QED  BY <1>3, <1>4

LEMMA SaveSetupKeeps ==
  ASSUME FactorInv, NEW b \in Browsers, SaveSetup(b)
  PROVE  FactorInv'
<1>. DEFINE new == Enrolled(b)
<1>1. /\ login[b].pc = "setup" /\ secrets < MaxSecrets /\ secrets' = secrets + 1
      /\ DeviceFree /\ device' = new /\ Over(b)
      /\ crossed' = (crossed \/ device # login[b].row)
      /\ counter' = counter /\ batches' = batches /\ uses' = uses
  BY DEF SaveSetup, Saves
<1>2. secrets \in Nat /\ secrets + 1 \in 1..MaxSecrets /\ login[b].row \in Device \cup {NoDevice}
  BY <1>1, FactorConstants DEF FactorInv, FactorTypeOK
<1>3. new \in Device /\ new.secret = secrets + 1 /\ ~new.confirmed
  <2>1. (IF login[b].row = NoDevice THEN secrets + 1 ELSE login[b].row.id) \in 1..MaxSecrets
    BY <1>2 DEF Device
  <2>2. -1 \in -1..MaxSteps + 1 /\ {} \in SUBSET PrintedCodes
    BY FactorConstants
  <2>. QED  BY <2>1, <2>2, <1>2 DEF Enrolled, Device
<1>. HIDE DEF new
<1>4. /\ login' \in [Browsers -> Logins]
      /\ login'[b] = NoLogin
      /\ \A d \in Browsers \ {b} : login'[d] = login[d]
  BY <1>1, OverLeavesOthers DEF FactorInv
<1>5. FactorTypeOK'
  <2>1. /\ counter' \in 0..MaxSteps /\ secrets' \in 0..MaxSecrets /\ batches' \in 0..MaxSecrets
        /\ device' \in Device \cup {NoDevice} /\ uses' \in [Codes -> Nat] /\ crossed' \in BOOLEAN
    BY <1>1, <1>2, <1>3 DEF FactorInv, FactorTypeOK
  <2>. QED  BY <2>1, <1>4, Zenon DEF FactorTypeOK, Logins, LoginPhases
<1>6. (\A d \in Browsers : InHand(d)') /\ OneHolder'
  BY <1>1, NobodyHolds DEF DeviceFree, Holds
<1>7. NotYetUsed'
  <2>1. ~crossed' => ~crossed
    BY <1>1 DEF FactorInv, FactorTypeOK
  <2>2. ASSUME NEW c \in AppCodes, c[2] > secrets' PROVE uses'[c] = 0
    <3>1. c[2] > secrets
      BY <1>1, <1>2, <2>2, KindsOfCode
    <3>. QED  BY <1>1, <3>1 DEF FactorInv, NotYetUsed
  <2>. QED  BY <1>1, <2>1, <2>2 DEF FactorInv, NotYetUsed
<1>8. Known'
  <2>1. /\ device' # NoDevice => device'.secret <= secrets'
        /\ ~device'.confirmed
    BY <1>1, <1>2, <1>3
  <2>2. ASSUME NEW d \in Browsers, login'[d].row # NoDevice PROVE login'[d].row.secret <= secrets'
    <3>1. d # b
      BY <1>4, <2>2 DEF NoLogin
    <3>2. login[d].row \in Device /\ login[d].row.secret <= secrets
      BY <1>4, <2>2, <3>1 DEF FactorInv, Known, FactorTypeOK
    <3>3. login[d].row.secret \in Int
      BY <3>2 DEF Device
    <3>. QED  BY <1>1, <1>2, <1>4, <3>1, <3>2, <3>3
  <2>. QED  BY <2>1, <2>2 DEF Known
<1>9. Unused'
  <2>1. SUFFICES ASSUME NEW c \in AppCodes, c[2] = secrets + 1 PROVE uses[c] = 0
    BY <1>1, <1>3 DEF Unused
  <2>2. c[2] > secrets
    BY <2>1, <1>2
  <2>. QED  BY <2>2 DEF FactorInv, NotYetUsed
<1>10. CodesAreSpentOnce'
  <2>1. ~device'.confirmed /\ uses' = uses /\ (~crossed' => ~crossed)
    BY <1>1, <1>3 DEF FactorInv, FactorTypeOK
  <2>. QED  BY <2>1 DEF FactorInv, CodesAreSpentOnce
<1>. QED  BY <1>5, <1>6, <1>7, <1>8, <1>9, <1>10 DEF FactorInv

LEMMA SaveConfirmKeeps ==
  ASSUME FactorInv, NEW b \in Browsers, SaveConfirm(b)
  PROVE  FactorInv'
<1>. DEFINE new == Confirmed(b)
            row == login[b].row
            code == login[b].code
<1>1. /\ login[b].pc = "confirm" /\ batches < MaxSecrets /\ batches' = batches + 1
      /\ DeviceFree /\ device' = new /\ Over(b)
      /\ crossed' = (crossed \/ device # row)
      /\ uses' = [uses EXCEPT ![code] = @ + 1]
      /\ counter' = counter /\ secrets' = secrets
  BY DEF SaveConfirm, Saves
<1>2. /\ row \in Device /\ row # NoDevice /\ ~row.confirmed
      /\ code \in AppCodes /\ code[2] = row.secret /\ row.secret <= secrets
  <2>1. row \in Device \cup {NoDevice}
    BY DEF FactorInv, FactorTypeOK
  <2>. QED  BY <2>1, <1>1 DEF FactorInv, InHand, Known
<1>3. batches \in Nat /\ batches + 1 \in 1..MaxSecrets /\ secrets \in Nat
  BY <1>1, FactorConstants DEF FactorInv, FactorTypeOK
<1>4. /\ new \in Device /\ new.secret = row.secret /\ new.confirmed
      /\ new.last_counter = code[3] /\ new.recovery_codes = Batch(batches + 1)
  <2>1. code[3] \in -1..MaxSteps + 1
    BY <1>2, KindsOfCode, FactorConstants
  <2>2. Batch(batches + 1) \in SUBSET PrintedCodes
    BY <1>3, KindsOfCode
  <2>. QED  BY <2>1, <2>2, <1>2 DEF Confirmed, Device
<1>5. uses' \in [Codes -> Nat] /\ uses'[code] = uses[code] + 1
      /\ \A c \in Codes \ {code} : uses'[c] = uses[c]
  BY <1>1, <1>2 DEF FactorInv, FactorTypeOK, Codes
<1>. HIDE DEF new, row, code
<1>6. /\ login' \in [Browsers -> Logins]
      /\ login'[b] = NoLogin
      /\ \A d \in Browsers \ {b} : login'[d] = login[d]
  BY <1>1, OverLeavesOthers DEF FactorInv
<1>7. FactorTypeOK'
  <2>1. /\ counter' \in 0..MaxSteps /\ secrets' \in 0..MaxSecrets /\ batches' \in 0..MaxSecrets
        /\ device' \in Device \cup {NoDevice} /\ crossed' \in BOOLEAN
    BY <1>1, <1>3, <1>4 DEF FactorInv, FactorTypeOK
  <2>. QED  BY <2>1, <1>5, <1>6, Zenon DEF FactorTypeOK, Logins, LoginPhases
<1>8. (\A d \in Browsers : InHand(d)') /\ OneHolder'
  BY <1>1, NobodyHolds DEF DeviceFree, Holds
<1>9. ~crossed' => ~crossed /\ device = row
  BY <1>1 DEF FactorInv, FactorTypeOK
<1>10. \A c \in PrintedCodes : c \in Codes /\ c # code /\ uses'[c] = uses[c]
  BY <1>2, <1>5, KindsOfCode DEF Codes
<1>11. NotYetUsed'
  <2>1. ASSUME NEW c \in AppCodes, c[2] > secrets' PROVE uses'[c] = 0
    <3>1. c \in Codes /\ c # code
      BY <1>1, <1>2, <1>3, <2>1, KindsOfCode DEF Codes
    <3>. QED  BY <1>1, <1>5, <3>1, <2>1 DEF FactorInv, NotYetUsed
  <2>2. ASSUME ~crossed', NEW c \in PrintedCodes, c[2] > batches' PROVE uses'[c] = 0
    <3>1. c[2] > batches
      BY <1>1, <1>3, <2>2, KindsOfCode
    <3>. QED  BY <1>9, <1>10, <3>1, <2>2 DEF FactorInv, NotYetUsed
  <2>. QED  BY <2>1, <2>2 DEF NotYetUsed
<1>12. Known'
  <2>1. /\ device' # NoDevice => device'.secret <= secrets'
        /\ batches' > 0
    BY <1>1, <1>2, <1>3, <1>4
  <2>2. ASSUME NEW d \in Browsers, login'[d].row # NoDevice PROVE login'[d].row.secret <= secrets'
    <3>1. d # b
      BY <1>6, <2>2 DEF NoLogin
    <3>. QED  BY <1>1, <1>6, <2>2, <3>1 DEF FactorInv, Known
  <2>. QED  BY <2>1, <2>2 DEF Known
<1>13. ~crossed' => uses[code] = 0
  BY <1>2, <1>9 DEF FactorInv, Unused, Device
<1>14. Unused'
  <2>1. SUFFICES ASSUME ~crossed', NEW c \in AppCodes, c[2] = row.secret, c[3] > code[3]
                 PROVE  uses'[c] = 0
    BY <1>1, <1>4 DEF Unused
  <2>2. c # code /\ c \in Codes
    BY <2>1, KindsOfCode DEF Codes
  <2>3. uses[c] = 0
    BY <2>1, <1>2, <1>9 DEF FactorInv, Unused, Device
  <2>. QED  BY <2>2, <2>3, <1>5
<1>15. CodesAreSpentOnce'
  <2>. SUFFICES ASSUME ~crossed'
                PROVE  /\ \A c \in Codes : uses'[c] <= 1
                       /\ device'.recovery_codes = {c \in Batch(batches') : uses'[c] = 0}
    BY DEF CodesAreSpentOnce, Batch
  <2>1. \A c \in Codes : uses[c] <= 1
    BY <1>9 DEF FactorInv, CodesAreSpentOnce
  <2>2. \A c \in Codes : uses'[c] <= 1
    BY <2>1, <1>5, <1>13
  <2>3. \A c \in Batch(batches + 1) : uses'[c] = 0
    <3>1. SUFFICES ASSUME NEW c \in Batch(batches + 1) PROVE uses'[c] = 0
      OBVIOUS
    <3>2. c \in PrintedCodes /\ c[2] > batches
      BY <1>3, KindsOfCode
    <3>. QED  BY <3>2, <1>9, <1>10 DEF FactorInv, NotYetUsed
  <2>. QED  BY <2>2, <2>3, <1>1, <1>4
<1>. QED  BY <1>7, <1>8, <1>11, <1>12, <1>14, <1>15 DEF FactorInv

-----------------------------------------------------------------------------
(* Whoever holds the row spends a code: to sign in, or to turn it off      *)

\* The code is one nobody has used, and it was generated.
LEMMA HeldCode ==
  ASSUME FactorInv, NEW b \in Browsers, Holds(b)
  PROVE  /\ device # NoDevice /\ device \in Device /\ device.confirmed
         /\ login[b].row = device
         /\ login[b].code \in Codes /\ Opens(device, login[b].code)
         /\ ~crossed => uses[login[b].code] = 0
         /\ ~crossed /\ login[b].code \in PrintedCodes => login[b].code[2] = batches
         /\ login[b].code \in AppCodes => login[b].code[2] <= secrets
         /\ \A d \in Browsers \ {b} : ~Holds(d)
<1>. DEFINE code == login[b].code
<1>1. /\ device # NoDevice /\ device.confirmed /\ login[b].row = device
      /\ code \in Codes /\ Opens(device, code)
  BY DEF FactorInv, InHand
<1>2. device \in Device
  BY <1>1 DEF FactorInv, FactorTypeOK
<1>. HIDE DEF code
<1>3. code \in AppCodes => code[2] = device.secret /\ code[3] > device.last_counter
  <2>1. SUFFICES ASSUME code \in AppCodes PROVE code \notin device.recovery_codes
    BY <1>1 DEF Opens
  <2>2. device.recovery_codes \subseteq PrintedCodes
    BY <1>2 DEF Device
  <2>. QED  BY <2>1, <2>2, KindsOfCode
<1>4. code \in PrintedCodes => code \in device.recovery_codes
  BY <1>1, KindsOfCode DEF Opens
<1>5. ~crossed => uses[code] = 0
  <2>1. CASE code \in AppCodes
    BY <2>1, <1>1, <1>3 DEF FactorInv, Unused
  <2>2. CASE code \in PrintedCodes
    BY <2>2, <1>1, <1>4 DEF FactorInv, CodesAreSpentOnce
  <2>. QED  BY <1>1, <2>1, <2>2 DEF Codes
<1>6. ~crossed /\ code \in PrintedCodes => code[2] = batches
  BY <1>1, <1>4, KindsOfCode DEF FactorInv, CodesAreSpentOnce
<1>7. code \in AppCodes => code[2] <= secrets
  BY <1>1, <1>3 DEF FactorInv, Known
<1>8. \A d \in Browsers \ {b} : ~Holds(d)
  BY DEF FactorInv, OneHolder
<1>. QED  BY <1>1, <1>2, <1>5, <1>6, <1>7, <1>8 DEF code

\* What follows from spending it, whatever becomes of the row.
LEMMA SpendingKeeps ==
  ASSUME FactorInv, NEW b \in Browsers, Holds(b), Over(b),
         uses' = [uses EXCEPT ![login[b].code] = @ + 1],
         UNCHANGED <<counter, secrets, batches, crossed>>,
         device' \in Device \cup {NoDevice},
         device' # NoDevice => device'.secret <= secrets /\ batches > 0
  PROVE  /\ FactorTypeOK'
         /\ \A d \in Browsers : InHand(d)'
         /\ OneHolder' /\ NotYetUsed' /\ Known'
         /\ ~crossed => \A c \in Codes : uses'[c] <= 1
<1>. DEFINE code == login[b].code
<1>1. /\ code \in Codes /\ (~crossed => uses[code] = 0)
      /\ ~crossed /\ code \in PrintedCodes => code[2] = batches
      /\ code \in AppCodes => code[2] <= secrets
      /\ \A d \in Browsers \ {b} : ~Holds(d)
  BY HeldCode
<1>2. uses' \in [Codes -> Nat] /\ uses'[code] = uses[code] + 1
      /\ \A c \in Codes \ {code} : uses'[c] = uses[c]
  BY <1>1 DEF FactorInv, FactorTypeOK
<1>. HIDE DEF code
<1>3. /\ login' \in [Browsers -> Logins]
      /\ login'[b] = NoLogin
      /\ \A d \in Browsers \ {b} : login'[d] = login[d]
  BY OverLeavesOthers DEF FactorInv
<1>4. FactorTypeOK'
  <2>1. /\ counter' \in 0..MaxSteps /\ secrets' \in 0..MaxSecrets /\ batches' \in 0..MaxSecrets
        /\ device' \in Device \cup {NoDevice} /\ crossed' \in BOOLEAN
    BY DEF FactorInv, FactorTypeOK
  <2>. QED  BY <2>1, <1>2, <1>3, Zenon DEF FactorTypeOK, Logins, LoginPhases
<1>5. (\A d \in Browsers : InHand(d)') /\ OneHolder'
  BY <1>1, NobodyHolds
<1>6. NotYetUsed'
  <2>1. secrets \in Int /\ batches \in Int
    BY DEF FactorInv, FactorTypeOK
  <2>2. ASSUME NEW c \in AppCodes, c[2] > secrets' PROVE uses'[c] = 0
    <3>1. c # code /\ c \in Codes
      BY <1>1, <2>1, <2>2, KindsOfCode DEF Codes
    <3>. QED  BY <1>2, <3>1, <2>2 DEF FactorInv, NotYetUsed
  <2>3. ASSUME ~crossed', NEW c \in PrintedCodes, c[2] > batches' PROVE uses'[c] = 0
    <3>1. c # code /\ c \in Codes
      BY <1>1, <2>1, <2>3, KindsOfCode DEF Codes
    <3>. QED  BY <1>2, <3>1, <2>3 DEF FactorInv, NotYetUsed
  <2>. QED  BY <2>2, <2>3 DEF NotYetUsed
<1>7. Known'
  <2>1. ASSUME NEW d \in Browsers, login'[d].row # NoDevice PROVE login'[d].row.secret <= secrets'
    <3>1. d # b
      BY <1>3, <2>1 DEF NoLogin
    <3>. QED  BY <1>3, <2>1, <3>1 DEF FactorInv, Known
  <2>. QED  BY <2>1 DEF Known
<1>8. ~crossed => \A c \in Codes : uses'[c] <= 1
  BY <1>1, <1>2 DEF FactorInv, CodesAreSpentOnce
<1>. QED  BY <1>4, <1>5, <1>6, <1>7, <1>8

LEMMA TurnOffKeeps ==
  ASSUME FactorInv, NEW b \in Browsers, TurnOff(b)
  PROVE  FactorInv'
<1>1. /\ Holds(b) /\ Over(b) /\ device' = NoDevice
      /\ uses' = [uses EXCEPT ![login[b].code] = @ + 1]
      /\ UNCHANGED <<counter, secrets, batches, crossed>>
  BY DEF TurnOff, Holds
<1>2. /\ FactorTypeOK' /\ (\A d \in Browsers : InHand(d)')
      /\ OneHolder' /\ NotYetUsed' /\ Known'
      /\ ~crossed => \A c \in Codes : uses'[c] <= 1
  BY <1>1, SpendingKeeps
<1>3. Unused' /\ CodesAreSpentOnce'
  BY <1>1, <1>2 DEF Unused, CodesAreSpentOnce
<1>. QED  BY <1>2, <1>3 DEF FactorInv

LEMMA AcceptCodeKeeps ==
  ASSUME FactorInv, NEW b \in Browsers, AcceptCode(b)
  PROVE  FactorInv'
<1>. DEFINE code == login[b].code
<1>1. /\ Holds(b) /\ Over(b) /\ device' = Spent(b)
      /\ uses' = [uses EXCEPT ![code] = @ + 1]
      /\ UNCHANGED <<counter, secrets, batches, crossed>>
  BY DEF AcceptCode, Holds
<1>2. /\ device # NoDevice /\ device \in Device /\ device.confirmed /\ login[b].row = device
      /\ code \in Codes /\ Opens(device, code) /\ (~crossed => uses[code] = 0)
  BY <1>1, HeldCode
<1>3. uses'[code] = uses[code] + 1 /\ \A c \in Codes \ {code} : uses'[c] = uses[c]
  BY <1>1, <1>2 DEF FactorInv, FactorTypeOK
<1>4. /\ device' \in Device /\ device'.secret = device.secret /\ device'.confirmed
      /\ code \in AppCodes => /\ device'.last_counter = code[3]
                              /\ device'.recovery_codes = device.recovery_codes
      /\ code \in PrintedCodes => /\ device'.last_counter = device.last_counter
                                  /\ device'.recovery_codes = device.recovery_codes \ {code}
  <2>1. CASE code \in AppCodes
    <3>1. code[1] = "app" /\ code[3] \in -1..MaxSteps + 1 /\ code \notin PrintedCodes
      BY <2>1, KindsOfCode, FactorConstants
    <3>2. device' = [device EXCEPT !.last_counter = code[3]]
      BY <1>1, <3>1 DEF Spent
    <3>. QED  BY <3>1, <3>2, <1>2 DEF Device
  <2>2. CASE code \in PrintedCodes
    <3>1. code[1] # "app" /\ code \notin AppCodes
      BY <2>2, KindsOfCode
    <3>2. device' = [device EXCEPT !.recovery_codes = device.recovery_codes \ {code}]
      BY <1>1, <1>2, <3>1 DEF Spent
    <3>. QED  BY <3>1, <3>2, <1>2 DEF Device
  <2>. QED  BY <1>2, <2>1, <2>2 DEF Codes
<1>5. device.secret <= secrets /\ batches > 0
  BY <1>2 DEF FactorInv, Known
<1>. HIDE DEF code
<1>6. /\ FactorTypeOK' /\ (\A d \in Browsers : InHand(d)')
      /\ OneHolder' /\ NotYetUsed' /\ Known'
      /\ ~crossed => \A c \in Codes : uses'[c] <= 1
  BY <1>1, <1>4, <1>5, SpendingKeeps DEF code
<1>7. Unused'
  <2>1. SUFFICES ASSUME ~crossed, NEW c \in AppCodes, c[2] = device.secret,
                        c[3] > device'.last_counter
                 PROVE  uses'[c] = 0
    BY <1>1, <1>4 DEF Unused
  <2>2. c # code /\ c[3] > device.last_counter
    <3>1. c[3] \in Int /\ device.last_counter \in Int
      BY <1>2, KindsOfCode, FactorConstants DEF Device
    <3>2. CASE code \in AppCodes
      <4>1. code \notin device.recovery_codes /\ code[3] \in Int
        BY <3>2, <1>2, KindsOfCode, FactorConstants DEF Device
      <4>2. code[3] > device.last_counter
        BY <4>1, <1>2 DEF Opens
      <4>. QED  BY <2>1, <3>1, <3>2, <4>1, <4>2, <1>4
    <3>3. CASE code \in PrintedCodes
      BY <3>3, <2>1, <1>4, KindsOfCode
    <3>. QED  BY <1>2, <3>2, <3>3 DEF Codes
  <2>3. uses[c] = 0
    BY <2>1, <2>2, <1>2 DEF FactorInv, Unused
  <2>. QED  BY <2>2, <2>3, <1>3 DEF Codes
<1>8. CodesAreSpentOnce'
  <2>. SUFFICES ASSUME ~crossed
                PROVE  device'.recovery_codes = {c \in Batch(batches) : uses'[c] = 0}
    BY <1>1, <1>6 DEF CodesAreSpentOnce, Batch
  <2>1. device.recovery_codes = {c \in Batch(batches) : uses[c] = 0}
    BY <1>2 DEF FactorInv, CodesAreSpentOnce
  <2>2. uses[code] = 0 /\ uses'[code] = 1
    BY <1>2, <1>3
  <2>3. ASSUME NEW c \in Batch(batches) PROVE c # code => uses'[c] = uses[c]
    <3>1. batches \in 1..MaxSecrets
      BY <1>5, FactorConstants DEF FactorInv, FactorTypeOK
    <3>. QED  BY <3>1, <1>3, KindsOfCode, <2>3 DEF Codes
  <2>4. code \in AppCodes => code \notin Batch(batches)
    BY KindsOfCode
  <2>5. CASE code \in AppCodes
    BY <2>1, <2>3, <2>4, <2>5, <1>4
  <2>6. CASE code \in PrintedCodes
    BY <2>1, <2>2, <2>3, <2>6, <1>4
  <2>. QED  BY <1>2, <2>5, <2>6 DEF Codes
<1>. QED  BY <1>6, <1>7, <1>8 DEF FactorInv

-----------------------------------------------------------------------------
LEMMA FactorSteps == FactorInv /\ [FactorNext]_factorVars => FactorInv'
<1>. SUFFICES ASSUME FactorInv, [FactorNext]_factorVars PROVE FactorInv'
  OBVIOUS
<1>1. CASE UNCHANGED factorVars
  BY <1>1 DEF factorVars, FactorInv, FactorTypeOK, InHand, Holds, OneHolder, NotYetUsed, Known,
              Unused, CodesAreSpentOnce
<1>2. CASE Tick
  BY <1>2, TickKeeps
<1>3. ASSUME NEW b \in Browsers,
             \/ Setup(b) \/ SaveSetup(b) \/ SaveConfirm(b)
             \/ \E c \in AppCodes : Confirm(b, c)
             \/ \E c \in Codes, place \in {"verify", "disable"} : Present(b, c, place)
             \/ AcceptCode(b) \/ TurnOff(b) \/ GivesUp(b)
      PROVE  FactorInv'
  BY <1>3, SetupKeeps, SaveSetupKeeps, SaveConfirmKeeps, ConfirmKeeps, PresentKeeps,
     AcceptCodeKeeps, TurnOffKeeps, GivesUpKeeps
<1>. QED  BY <1>1, <1>2, <1>3 DEF FactorNext

\* The invariant holds in every state the module can reach.
THEOREM FactorInvariant == FactorSpec => []FactorInv
BY FactorStarts, FactorSteps, PTL DEF FactorSpec

\* Rows, sign-ins under way and counts keep their shapes.
THEOREM FactorTypes == FactorSpec => []FactorTypeOK
<1>1. FactorInv => FactorTypeOK
  BY DEF FactorInv
<1>. QED  BY <1>1, FactorInvariant, PTL

\* Whoever signs in at once, a code of the app or of the printout is accepted
\* once, and the printed codes left are those nobody has used (mfa.verify).
THEOREM SpentOnce == FactorSpec => []CodesAreSpentOnce
<1>1. FactorInv => CodesAreSpentOnce
  BY DEF FactorInv
<1>. QED  BY <1>1, FactorInvariant, PTL

-----------------------------------------------------------------------------
(* Onboarding.  A row is decided once and for all; what a worker has loaded *)
(* is still the row it means, and a row that is being refreshed is pending, *)
(* since whoever accepts or cancels it waits for its lock.                  *)

\* A table has one open row per tenant, and no later state of it loses a row,
\* moves one to another tenant or opens one again.
OneOpen(list) == \A i, j \in DOMAIN list :
                     list[i].org = list[j].org /\ list[i].status = "pending"
                        /\ list[j].status = "pending" => i = j

Onward(old, new) ==
    /\ DOMAIN old \subseteq DOMAIN new
    /\ \A i \in DOMAIN old : /\ new[i].org = old[i].org
                             /\ old[i].status # "pending" => new[i].status # "pending"

AtRow(list, w) == matter[w].row \in DOMAIN list /\ list[matter[w].row].org = matter[w].org

OnTask(w) ==
    /\ stage[w] # "idle" => matter[w].org \in Orgs
    /\ stage[w] \in {"approving", "rejecting"} => AtRow(requests, w)
    /\ stage[w] \in {"accepting", "refreshing", "cancelling"} => AtRow(invitations, w)
    /\ stage[w] = "refreshing" => invitations[matter[w].row].status = "pending"

OnboardingInv == /\ OnboardingTypeOK
                 /\ OneOpen(requests) /\ OneOpen(invitations)
                 /\ \A w \in Handlers : OnTask(w)

\* What every step leads to.
WentOn == OnboardingInv' /\ Onward(requests, requests') /\ Onward(invitations, invitations')

Matters == [org : Orgs \cup {NoOrg}, row : 0..(MaxRequests + MaxInvitations)]

LEMMA OnboardingStarts == OnboardingInit => OnboardingInv
<1>. SUFFICES ASSUME OnboardingInit PROVE OnboardingInv
  OBVIOUS
<1>1. requests = <<>> /\ invitations = <<>> /\ <<>> \in Seq(Request) /\ <<>> \in Seq(Invitation)
  BY DEF OnboardingInit
<1>2. matter \in [Handlers -> Matters] /\ stage \in [Handlers -> Stages]
  BY OnboardingConstants DEF OnboardingInit, NoMatter, Matters, Stages
<1>3. OnboardingTypeOK
  BY <1>1, <1>2, OnboardingConstants DEF OnboardingInit, OnboardingTypeOK, Matters
<1>4. OneOpen(requests) /\ OneOpen(invitations)
  BY <1>1 DEF OneOpen
<1>5. \A w \in Handlers : OnTask(w)
  BY DEF OnboardingInit, OnTask
<1>. QED  BY <1>3, <1>4, <1>5 DEF OnboardingInv

-----------------------------------------------------------------------------
(* What can happen to a table.                                             *)

\* A row is saved again, decided or as it was.
LEMMA SavingARow ==
  ASSUME NEW S, NEW list \in Seq(S), NEW i \in DOMAIN list, NEW new \in Seq(S),
         Len(new) = Len(list), \A j \in DOMAIN list \ {i} : new[j] = list[j],
         new[i].org = list[i].org,
         new[i].status # "pending" \/ list[i].status = "pending"
  PROVE  /\ DOMAIN new = DOMAIN list /\ Onward(list, new)
         /\ OneOpen(list) => OneOpen(new)
<1>1. DOMAIN new = DOMAIN list
  BY LenProperties
<1>2. Onward(list, new)
  BY <1>1 DEF Onward
<1>3. OneOpen(list) => OneOpen(new)
  BY <1>1 DEF OneOpen
<1>. QED  BY <1>1, <1>2, <1>3

\* A new row for a tenant that has none open.
LEMMA AddingARow ==
  ASSUME NEW S, NEW list \in Seq(S), NEW row \in S, PendingAt(list, row.org) = {}, OneOpen(list)
  PROVE  /\ Append(list, row) \in Seq(S)
         /\ Len(Append(list, row)) = Len(list) + 1
         /\ \A j \in DOMAIN list : Append(list, row)[j] = list[j]
         /\ Onward(list, Append(list, row))
         /\ OneOpen(Append(list, row))
<1>. DEFINE new == Append(list, row)
<1>1. DOMAIN list = 1..Len(list) /\ Len(list) \in Nat
  BY LenProperties
<1>2. /\ new \in Seq(S) /\ Len(new) = Len(list) + 1
      /\ \A j \in 1..Len(list) : new[j] = list[j]
      /\ new[Len(list) + 1] = row
  BY AppendProperties
<1>3. DOMAIN new = 1..Len(list) + 1
  BY <1>2, LenProperties
<1>. HIDE DEF new
<1>4. Onward(list, new)
  BY <1>1, <1>2, <1>3 DEF Onward
<1>5. OneOpen(new)
  BY <1>1, <1>2, <1>3 DEF OneOpen, PendingAt
<1>. QED  BY <1>1, <1>2, <1>4, <1>5 DEF new

LEMMA DecidedRows ==
  ASSUME NEW S, S = Request \/ S = Invitation, NEW list \in Seq(S), NEW i \in DOMAIN list,
         NEW verdict, verdict # "pending", [list[i] EXCEPT !.status = verdict] \in S,
         OneOpen(list), NEW new, new = Decided(list, i, verdict)
  PROVE  /\ new \in Seq(S) /\ Len(new) = Len(list) /\ DOMAIN new = DOMAIN list
         /\ Onward(list, new) /\ OneOpen(new)
         /\ new[i].status = verdict /\ new[i].org = list[i].org
         /\ \A j \in DOMAIN list \ {i} : new[j] = list[j]
<1>1. list[i] \in S
  BY LenProperties, ElementOfSeq
<1>2. PICK row \in S : row = [list[i] EXCEPT !.status = verdict]
  OBVIOUS
<1>3. row.org = list[i].org /\ row.status = verdict
  BY <1>1, <1>2 DEF Request, Invitation
<1>4. /\ new \in Seq(S) /\ Len(new) = Len(list)
      /\ new[i] = row /\ \A j \in DOMAIN list \ {i} : new[j] = list[j]
  <2>1. DOMAIN list = 1..Len(list) /\ new = [list EXCEPT ![i] = row]
    BY <1>2, LenProperties DEF Decided
  <2>. QED  BY <2>1, ExceptSeq
<1>. QED  BY <1>3, <1>4, SavingARow

-----------------------------------------------------------------------------
(* The workers' tasks.                                                     *)

LEMMA SettledIsIdle ==
  ASSUME OnboardingTypeOK, NEW w \in Handlers, Settles(w)
  PROVE  /\ stage' \in [Handlers -> Stages] /\ matter' \in [Handlers -> Matters]
         /\ \A v \in Handlers \ {w} : stage'[v] = stage[v] /\ matter'[v] = matter[v]
         /\ stage'[w] = "idle" /\ OnTask(w)'
<1>1. NoMatter \in Matters
  BY OnboardingConstants DEF NoMatter, Matters
<1>2. /\ stage' \in [Handlers -> Stages] /\ matter' \in [Handlers -> Matters]
      /\ \A v \in Handlers \ {w} : stage'[v] = stage[v] /\ matter'[v] = matter[v]
      /\ stage'[w] = "idle"
  BY <1>1 DEF Settles, OnboardingTypeOK, Matters, Stages
<1>. QED  BY <1>2 DEF OnTask

\* The workers of W went on; everybody else finds the tables as they left them,
\* and the row they refresh still theirs.
LEMMA OthersStayOnTask ==
  ASSUME OnboardingInv, OnboardingTypeOK', NEW W \in SUBSET Handlers,
         OneOpen(requests'), OneOpen(invitations'),
         Onward(requests, requests'), Onward(invitations, invitations'),
         \A v \in Handlers \ W : stage'[v] = stage[v] /\ matter'[v] = matter[v],
         \A v \in Handlers \ W : stage[v] = "refreshing"
                                    => invitations'[matter[v].row].status = "pending",
         \A w \in W : OnTask(w)'
  PROVE  WentOn
<1>1. ASSUME NEW v \in Handlers \ W PROVE OnTask(v)'
  <2>1. OnTask(v) /\ stage'[v] = stage[v] /\ matter'[v] = matter[v]
    BY DEF OnboardingInv
  <2>2. stage[v] \in {"approving", "rejecting"} => AtRow(requests, v)'
    BY <2>1 DEF OnTask, AtRow, Onward
  <2>3. stage[v] \in {"accepting", "refreshing", "cancelling"} => AtRow(invitations, v)'
    BY <2>1 DEF OnTask, AtRow, Onward
  <2>. QED  BY <2>1, <2>2, <2>3 DEF OnTask
<1>. QED  BY <1>1 DEF OnboardingInv, WentOn

\* Nothing changes but what w is about.
LEMMA TakesOn ==
  ASSUME OnboardingInv, NEW w \in Handlers, NEW place \in Stages, NEW o \in Orgs,
         NEW i \in 0..(MaxRequests + MaxInvitations),
         stage' = [stage EXCEPT ![w] = place],
         matter' = [matter EXCEPT ![w] = [org |-> o, row |-> i]],
         UNCHANGED <<rows, home, told>>,
         place \in {"approving", "rejecting"} => i \in DOMAIN requests /\ requests[i].org = o,
         place \in {"accepting", "refreshing", "cancelling"}
            => i \in DOMAIN invitations /\ invitations[i].org = o,
         place = "refreshing" => invitations[i].status = "pending"
  PROVE  WentOn
<1>1. /\ stage' \in [Handlers -> Stages] /\ matter' \in [Handlers -> Matters]
      /\ \A v \in Handlers \ {w} : stage'[v] = stage[v] /\ matter'[v] = matter[v]
      /\ stage'[w] = place /\ matter'[w].org = o /\ matter'[w].row = i
  BY DEF OnboardingInv, OnboardingTypeOK, Matters
<1>2. /\ requests' = requests /\ invitations' = invitations /\ column' = column
      /\ member' = member /\ home' = home /\ told' = told
  BY DEF rows
<1>3. OnboardingTypeOK'
  BY <1>1, <1>2 DEF OnboardingInv, OnboardingTypeOK, Matters
<1>4. OnTask(w)'
  BY <1>1, <1>2 DEF OnTask, AtRow
<1>5. OneOpen(requests') /\ OneOpen(invitations')
  BY <1>2 DEF OnboardingInv
<1>6. Onward(requests, requests') /\ Onward(invitations, invitations')
  BY <1>2 DEF Onward
<1>7. \A v \in Handlers \ {w} : stage[v] = "refreshing"
                                   => invitations'[matter[v].row].status = "pending"
  BY <1>2 DEF OnboardingInv, OnTask
<1>8. {w} \in SUBSET Handlers /\ \A v \in {w} : OnTask(v)'
  BY <1>4 DEF OnTask, AtRow
<1>. QED  BY <1>1, <1>3, <1>5, <1>6, <1>7, <1>8, OthersStayOnTask

\* w is done, having written what it wrote.
LEMMA SettlesWell ==
  ASSUME OnboardingInv, NEW w \in Handlers, Settles(w),
         column' \in Orgs \cup {NoOrg}, member' \subseteq Orgs, home' = home, told' \subseteq Orgs,
         requests' \in Seq(Request), Len(requests') <= MaxRequests,
         invitations' \in Seq(Invitation), Len(invitations') <= MaxInvitations,
         OneOpen(requests'), OneOpen(invitations'),
         Onward(requests, requests'), Onward(invitations, invitations'),
         \A v \in Handlers \ {w} : stage[v] = "refreshing"
                                      => invitations'[matter[v].row].status = "pending"
  PROVE  WentOn
<1>1. OnboardingTypeOK'
  BY SettledIsIdle DEF OnboardingInv, OnboardingTypeOK, Matters
<1>2. {w} \in SUBSET Handlers /\ \A v \in {w} : OnTask(v)'
  BY SettledIsIdle DEF OnTask, AtRow, OnboardingInv
<1>3. \A v \in Handlers \ {w} : stage'[v] = stage[v] /\ matter'[v] = matter[v]
  BY SettledIsIdle DEF OnboardingInv
<1>. QED  BY <1>1, <1>2, <1>3, OthersStayOnTask

-----------------------------------------------------------------------------
(* Signing in.                                                             *)

\* The library's induction theorems are about operators; this is the one about
\* sets of numbers, from finite sets being well founded.
LEMMA SmallestNumber ==
  ASSUME NEW B \in SUBSET Nat, B # {}
  PROVE  \E n \in B : \A m \in B : n <= m
<1>. DEFINE Segment(n) == 0 .. n
            T == {Segment(n) : n \in B}
<1>1. T \subseteq FiniteSubsetsOf(Nat)
  <2>1. \A n \in Nat : IsFiniteSet(0 .. n) /\ 0 .. n \in SUBSET Nat
    BY FS_Interval
  <2>. QED  BY <2>1 DEF FiniteSubsetsOf
<1>2. IsWellFoundedOn(StrictSubsetOrdering(Nat), FiniteSubsetsOf(Nat))
  BY FS_StrictSubsetOrderingWellFounded
<1>3. \E x \in T : \A y \in T : <<y, x>> \notin StrictSubsetOrdering(Nat)
  <2>1. T # {}
    OBVIOUS
  <2>. HIDE DEF T
  <2>. QED  BY <1>1, <1>2, <2>1, WFMin
<1>4. PICK n \in B : \A y \in T : <<y, Segment(n)>> \notin StrictSubsetOrdering(Nat)
  BY <1>3
<1>5. ASSUME NEW m \in B, m < n PROVE FALSE
  <2>1. /\ Segment(m) \in T
        /\ Segment(m) \subseteq Segment(n) /\ n \in Segment(n) /\ n \notin Segment(m)
    BY <1>5
  <2>2. <<Segment(m), Segment(n)>> \in StrictSubsetOrdering(Nat)
    BY <1>5, <2>1 DEF StrictSubsetOrdering
  <2>. QED  BY <1>4, <2>1, <2>2
<1>. QED  BY <1>5

\* The earliest of some rows is one of them.
LEMMA EarliestIsThere ==
  ASSUME NEW B \in SUBSET Nat, B # {}
  PROVE  Min(B) \in B
BY SmallestNumber DEF Min

\* Facts about the rows, in the form the steps below use them.
LEMMA RowsAreTyped ==
  ASSUME OnboardingTypeOK
  PROVE  /\ DOMAIN requests = 1..Len(requests) /\ DOMAIN invitations = 1..Len(invitations)
         /\ Len(requests) \in Nat /\ Len(invitations) \in Nat
         /\ \A i \in DOMAIN requests :
               requests[i] \in Request /\ i \in 0..(MaxRequests + MaxInvitations)
         /\ \A i \in DOMAIN invitations : /\ invitations[i] \in Invitation
                                          /\ i \in 0..(MaxRequests + MaxInvitations)
<1>1. /\ requests \in Seq(Request) /\ Len(requests) <= MaxRequests
      /\ invitations \in Seq(Invitation) /\ Len(invitations) <= MaxInvitations
  BY DEF OnboardingTypeOK
<1>2. /\ DOMAIN requests = 1..Len(requests) /\ DOMAIN invitations = 1..Len(invitations)
      /\ Len(requests) \in Nat /\ Len(invitations) \in Nat
  BY <1>1, LenProperties
<1>. QED  BY <1>1, <1>2, ElementOfSeq, OnboardingConstants

LEMMA SignInKeeps ==
  ASSUME OnboardingInv, NEW w \in Handlers, SignIn(w)
  PROVE  WentOn
<1>. DEFINE open == {i \in DOMAIN invitations : IsOpen(i)}
<1>1. CASE open # {} /\ Takes(w, "accepting", invitations[Min(open)].org, Min(open))
  <2>1. open \in SUBSET Nat
    BY RowsAreTyped DEF OnboardingInv
  <2>2. Min(open) \in DOMAIN invitations
    BY <1>1, <2>1, EarliestIsThere
  <2>3. invitations[Min(open)].org \in Orgs /\ Min(open) \in 0..(MaxRequests + MaxInvitations)
    BY <2>2, RowsAreTyped DEF OnboardingInv, Invitation
  <2>. QED  BY <1>1, <2>2, <2>3, TakesOn DEF Takes, Stages
<1>2. CASE open = {} /\ home # NoOrg /\ Takes(w, "waiting", home, 0)
  <2>1. home \in Orgs /\ 0 \in 0..(MaxRequests + MaxInvitations)
    BY <1>2, OnboardingConstants DEF OnboardingInv, OnboardingTypeOK
  <2>. QED  BY <1>2, <2>1, TakesOn DEF Takes, Stages
<1>. QED  BY <1>1, <1>2 DEF SignIn

\* Whatever was pending is cancelled, and nothing else.
LEMMA MootedRows ==
  ASSUME OnboardingTypeOK
  PROVE  /\ Mooted \in Seq(Request) /\ Len(Mooted) = Len(requests)
         /\ DOMAIN Mooted = DOMAIN requests
         /\ \A i \in DOMAIN requests :
               /\ Mooted[i].org = requests[i].org
               /\ Mooted[i].status # "pending"
               /\ requests[i].status # "pending" => Mooted[i] = requests[i]
<1>1. \A i \in DOMAIN requests :
         requests[i].status = "pending" =>
            /\ [requests[i] EXCEPT !.status = "cancelled"] \in Request
            /\ [requests[i] EXCEPT !.status = "cancelled"].org = requests[i].org
            /\ [requests[i] EXCEPT !.status = "cancelled"].status = "cancelled"
  BY RowsAreTyped DEF Request
<1>2. DOMAIN Mooted = 1..Len(requests) /\ Len(requests) \in Nat
  BY RowsAreTyped DEF Mooted
<1>3. \A i \in DOMAIN requests : /\ Mooted[i] \in Request
                                 /\ Mooted[i].org = requests[i].org
                                 /\ Mooted[i].status # "pending"
                                 /\ requests[i].status # "pending" => Mooted[i] = requests[i]
  BY <1>1, RowsAreTyped DEF Mooted
<1>4. Mooted \in [1..Len(requests) -> Request]
  BY <1>3, RowsAreTyped DEF Mooted
<1>5. Mooted \in Seq(Request) /\ Len(Mooted) = Len(requests)
  BY <1>2, <1>4, SeqDef, LenProperties
<1>. QED  BY <1>2, <1>3, <1>5, RowsAreTyped

LEMMA AcceptKeeps ==
  ASSUME OnboardingInv, NEW w \in Handlers, Accept(w)
  PROVE  WentOn
<1>. DEFINE i == matter[w].row
<1>1. /\ stage[w] = "accepting" /\ ~Held(i)
      /\ member' = member \cup {matter[w].org} /\ column' = matter[w].org
      /\ invitations' = Decided(invitations, i, "accepted")
      /\ requests' = Mooted
      /\ Settles(w) /\ home' = home /\ told' = told
  BY DEF Accept
<1>2. i \in DOMAIN invitations /\ matter[w].org \in Orgs
  BY <1>1 DEF OnboardingInv, OnTask, AtRow
<1>3. invitations \in Seq(Invitation)
  BY DEF OnboardingInv, OnboardingTypeOK
<1>4. [invitations[i] EXCEPT !.status = "accepted"] \in Invitation
  BY <1>2, RowsAreTyped DEF OnboardingInv, Invitation
<1>5. OneOpen(invitations)
  BY DEF OnboardingInv
<1>6. /\ invitations' \in Seq(Invitation) /\ Len(invitations') = Len(invitations)
      /\ Onward(invitations, invitations') /\ OneOpen(invitations')
      /\ \A j \in DOMAIN invitations \ {i} : invitations'[j] = invitations[j]
  BY <1>1, <1>2, <1>3, <1>4, <1>5, DecidedRows
<1>7. /\ requests' \in Seq(Request) /\ Len(requests') = Len(requests)
      /\ Onward(requests, requests') /\ OneOpen(requests')
  BY <1>1, MootedRows DEF OnboardingInv, Onward, OneOpen
<1>8. \A v \in Handlers \ {w} : stage[v] = "refreshing"
                                   => invitations'[matter[v].row].status = "pending"
  BY <1>1, <1>6 DEF OnboardingInv, OnTask, AtRow, Held
<1>9. member' \subseteq Orgs /\ column' \in Orgs \cup {NoOrg} /\ told' \subseteq Orgs
      /\ Len(requests') <= MaxRequests /\ Len(invitations') <= MaxInvitations
  BY <1>1, <1>2, <1>6, <1>7 DEF OnboardingInv, OnboardingTypeOK
<1>. QED  BY <1>1, <1>6, <1>7, <1>8, <1>9, SettlesWell

\* w is done and has written no row.
LEMMA SettlesOnly ==
  ASSUME OnboardingInv, NEW w \in Handlers, Settles(w), UNCHANGED <<rows, home>>,
         told' \subseteq Orgs
  PROVE  WentOn
<1>1. /\ requests' = requests /\ invitations' = invitations /\ column' = column
      /\ member' = member /\ home' = home
  BY DEF rows
<1>2. Onward(requests, requests') /\ Onward(invitations, invitations')
  BY <1>1 DEF Onward
<1>3. /\ column' \in Orgs \cup {NoOrg} /\ member' \subseteq Orgs
      /\ requests' \in Seq(Request) /\ Len(requests') <= MaxRequests
      /\ invitations' \in Seq(Invitation) /\ Len(invitations') <= MaxInvitations
      /\ OneOpen(requests') /\ OneOpen(invitations')
  BY <1>1 DEF OnboardingInv, OnboardingTypeOK
<1>4. \A v \in Handlers \ {w} : stage[v] = "refreshing"
                                   => invitations'[matter[v].row].status = "pending"
  BY <1>1 DEF OnboardingInv, OnTask
<1>. QED  BY <1>1, <1>2, <1>3, <1>4, SettlesWell

LEMMA WaitKeeps ==
  ASSUME OnboardingInv, NEW w \in Handlers, Wait(w)
  PROVE  WentOn
<1>1. told' \subseteq Orgs
  BY DEF Wait, OnboardingInv, OnboardingTypeOK, OnTask
<1>. QED  BY <1>1, SettlesOnly DEF Wait

LEMMA GiveUpKeeps ==
  ASSUME OnboardingInv, NEW w \in Handlers, GiveUp(w)
  PROVE  WentOn
<1>1. told' \subseteq Orgs
  BY DEF GiveUp, OnboardingInv, OnboardingTypeOK
<1>. QED  BY <1>1, SettlesOnly DEF GiveUp

-----------------------------------------------------------------------------
(* Access requests.                                                        *)

LEMMA AskToJoinKeeps ==
  ASSUME OnboardingInv, NEW w \in Handlers, AskToJoin(w)
  PROVE  WentOn
<1>1. home \in Orgs /\ 0 \in 0..(MaxRequests + MaxInvitations)
  BY OnboardingConstants DEF AskToJoin, OnboardingInv, OnboardingTypeOK
<1>. QED  BY <1>1, TakesOn DEF AskToJoin, Takes, Stages

\* The requests went on, and w is done with them.
LEMMA RequestsMoveOn ==
  ASSUME OnboardingInv, NEW w \in Handlers, Settles(w),
         UNCHANGED <<invitations, home, told>>,
         column' \in Orgs \cup {NoOrg}, member' \subseteq Orgs,
         requests' \in Seq(Request), Len(requests') <= MaxRequests,
         OneOpen(requests'), Onward(requests, requests')
  PROVE  WentOn
<1>1. /\ told' \subseteq Orgs /\ OneOpen(invitations')
      /\ invitations' \in Seq(Invitation) /\ Len(invitations') <= MaxInvitations
  BY DEF OnboardingInv, OnboardingTypeOK
<1>2. Onward(invitations, invitations')
  BY DEF Onward
<1>3. \A v \in Handlers \ {w} : stage[v] = "refreshing"
                                   => invitations'[matter[v].row].status = "pending"
  BY DEF OnboardingInv, OnTask
<1>. QED  BY <1>1, <1>2, <1>3, SettlesWell

LEMMA CommitRequestKeeps ==
  ASSUME OnboardingInv, NEW w \in Handlers, CommitRequest(w)
  PROVE  WentOn
<1>. DEFINE o == matter[w].org
            row == [org |-> o, status |-> "pending"]
<1>1. /\ stage[w] = "asking" /\ Settles(w)
      /\ UNCHANGED <<column, member, invitations, home, told>>
  BY DEF CommitRequest
<1>2. row \in Request /\ row.org = o
  BY <1>1 DEF OnboardingInv, OnTask, Request
<1>3. /\ requests' \in Seq(Request) /\ Len(requests') <= MaxRequests
      /\ OneOpen(requests') /\ Onward(requests, requests')
  <2>1. CASE PendingAt(requests, o) # {}
    <3>1. requests' = requests
      BY <2>1 DEF CommitRequest
    <3>. QED  BY <3>1 DEF OnboardingInv, OnboardingTypeOK, Onward
  <2>2. CASE PendingAt(requests, o) = {}
    <3>1. Len(requests) < MaxRequests /\ requests' = Append(requests, row)
      BY <2>2 DEF CommitRequest
    <3>2. requests \in Seq(Request) /\ OneOpen(requests)
      BY DEF OnboardingInv, OnboardingTypeOK
    <3>3. /\ Append(requests, row) \in Seq(Request)
          /\ Len(Append(requests, row)) = Len(requests) + 1
          /\ Onward(requests, Append(requests, row)) /\ OneOpen(Append(requests, row))
      <4>. HIDE DEF row
      <4>. QED  BY <1>2, <2>2, <3>2, AddingARow
    <3>4. Len(requests) \in Nat
      BY <3>2, LenProperties
    <3>. QED  BY <3>1, <3>3, <3>4, OnboardingConstants
  <2>. QED  BY <2>1, <2>2
<1>4. column' \in Orgs \cup {NoOrg} /\ member' \subseteq Orgs
  BY <1>1 DEF OnboardingInv, OnboardingTypeOK
<1>. QED  BY <1>1, <1>3, <1>4, RequestsMoveOn

LEMMA LoadRequestKeeps ==
  ASSUME OnboardingInv, NEW w \in Handlers, NEW i \in 1..MaxRequests,
         NEW place \in {"approving", "rejecting"}, LoadRequest(w, i, place)
  PROVE  WentOn
<1>1. i \in DOMAIN requests /\ Takes(w, place, requests[i].org, i)
  BY DEF LoadRequest
<1>2. requests[i].org \in Orgs /\ i \in 0..(MaxRequests + MaxInvitations)
  BY <1>1, RowsAreTyped DEF OnboardingInv, Request
<1>. QED  BY <1>1, <1>2, TakesOn DEF Takes, Stages

\* The decision is written on the row that was loaded.
LEMMA VerdictOnRequest ==
  ASSUME OnboardingInv, NEW w \in Handlers, stage[w] \in {"approving", "rejecting"},
         NEW verdict \in {"approved", "rejected"},
         requests' = Decided(requests, matter[w].row, verdict)
  PROVE  /\ matter[w].row \in DOMAIN requests /\ matter[w].org \in Orgs
         /\ requests' \in Seq(Request) /\ Len(requests') = Len(requests)
         /\ Len(requests') <= MaxRequests /\ DOMAIN requests' = DOMAIN requests
         /\ OneOpen(requests') /\ Onward(requests, requests')
         /\ requests'[matter[w].row].status = verdict
         /\ requests'[matter[w].row].org = matter[w].org
         /\ requests[matter[w].row].org = matter[w].org
         /\ \A j \in DOMAIN requests \ {matter[w].row} : requests'[j] = requests[j]
<1>. DEFINE i == matter[w].row
<1>1. i \in DOMAIN requests /\ requests[i].org = matter[w].org /\ matter[w].org \in Orgs
  BY DEF OnboardingInv, OnTask, AtRow
<1>2. [requests[i] EXCEPT !.status = verdict] \in Request
  BY <1>1, RowsAreTyped DEF OnboardingInv, Request
<1>3. requests \in Seq(Request) /\ Len(requests) <= MaxRequests /\ OneOpen(requests)
  BY DEF OnboardingInv, OnboardingTypeOK
<1>4. /\ requests' \in Seq(Request) /\ Len(requests') = Len(requests)
      /\ DOMAIN requests' = DOMAIN requests
      /\ Onward(requests, requests') /\ OneOpen(requests')
      /\ requests'[i].status = verdict /\ requests'[i].org = requests[i].org
      /\ \A j \in DOMAIN requests \ {i} : requests'[j] = requests[j]
  BY <1>1, <1>2, <1>3, DecidedRows
<1>. QED  BY <1>1, <1>3, <1>4

LEMMA CommitApproveKeeps ==
  ASSUME OnboardingInv, NEW w \in Handlers, CommitApprove(w)
  PROVE  WentOn
<1>1. /\ stage[w] = "approving" /\ Settles(w) /\ UNCHANGED <<invitations, home, told>>
      /\ requests' = Decided(requests, matter[w].row, "approved")
      /\ member' = member \cup {matter[w].org} /\ column' = matter[w].org
  BY DEF CommitApprove
<1>2. /\ requests' \in Seq(Request) /\ Len(requests') <= MaxRequests
      /\ OneOpen(requests') /\ Onward(requests, requests') /\ matter[w].org \in Orgs
  BY <1>1, VerdictOnRequest
<1>3. column' \in Orgs \cup {NoOrg} /\ member' \subseteq Orgs
  BY <1>1, <1>2 DEF OnboardingInv, OnboardingTypeOK
<1>. QED  BY <1>1, <1>2, <1>3, RequestsMoveOn

LEMMA CommitRejectKeeps ==
  ASSUME OnboardingInv, NEW w \in Handlers, CommitReject(w)
  PROVE  WentOn
<1>1. /\ stage[w] = "rejecting" /\ Settles(w)
      /\ UNCHANGED <<column, member, invitations, home, told>>
      /\ requests' = Decided(requests, matter[w].row, "rejected")
  BY DEF CommitReject
<1>2. /\ requests' \in Seq(Request) /\ Len(requests') <= MaxRequests
      /\ OneOpen(requests') /\ Onward(requests, requests')
  BY <1>1, VerdictOnRequest
<1>3. column' \in Orgs \cup {NoOrg} /\ member' \subseteq Orgs
  BY <1>1 DEF OnboardingInv, OnboardingTypeOK
<1>. QED  BY <1>1, <1>2, <1>3, RequestsMoveOn

-----------------------------------------------------------------------------
(* Invitations.                                                            *)

LEMMA InviteKeeps ==
  ASSUME OnboardingInv, NEW w \in Handlers, NEW o \in Orgs, Invite(w, o)
  PROVE  WentOn
<1>1. 0 \in 0..(MaxRequests + MaxInvitations)
  BY OnboardingConstants
<1>. QED  BY <1>1, TakesOn DEF Invite, Takes, Stages

LEMMA LookForInvitationKeeps ==
  ASSUME OnboardingInv, NEW w \in Handlers, LookForInvitation(w)
  PROVE  WentOn
<1>. DEFINE o == matter[w].org
            pending == PendingAt(invitations, o)
<1>1. stage[w] = "inviting" /\ UNCHANGED <<rows, home, told>> /\ o \in Orgs
  BY DEF LookForInvitation, OnboardingInv, OnTask
<1>2. matter \in [Handlers -> Matters] /\ matter[w].row \in 0..(MaxRequests + MaxInvitations)
  BY DEF OnboardingInv, OnboardingTypeOK, Matters
<1>3. CASE stage' = [stage EXCEPT ![w] = "creating"] /\ UNCHANGED matter
  <2>1. matter' = [matter EXCEPT ![w] = [org |-> o, row |-> matter[w].row]]
    BY <1>2, <1>3 DEF Matters
  <2>. QED  BY <1>1, <1>2, <1>3, <2>1, TakesOn DEF Stages
<1>4. CASE Settles(w)
  <2>1. told' \subseteq Orgs
    BY <1>1 DEF OnboardingInv, OnboardingTypeOK
  <2>. QED  BY <1>1, <1>4, <2>1, SettlesOnly
<1>5. ASSUME NEW i \in pending, stage' = [stage EXCEPT ![w] = "refreshing"],
             matter' = [matter EXCEPT ![w].row = i]
      PROVE  WentOn
  <2>1. /\ i \in DOMAIN invitations /\ invitations[i].org = o
        /\ invitations[i].status = "pending"
    BY DEF PendingAt
  <2>2. i \in 0..(MaxRequests + MaxInvitations)
    BY <2>1, RowsAreTyped DEF OnboardingInv
  <2>3. matter' = [matter EXCEPT ![w] = [org |-> o, row |-> i]]
    <3>1. [matter[w] EXCEPT !.row = i] = [org |-> o, row |-> i]
      BY <1>2 DEF Matters
    <3>. QED  BY <1>5, <3>1
  <2>. QED  BY <1>1, <1>5, <2>1, <2>2, <2>3, TakesOn DEF Stages
<1>6. \/ stage' = [stage EXCEPT ![w] = "creating"] /\ UNCHANGED matter
      \/ Settles(w)
      \/ \E i \in pending : /\ stage' = [stage EXCEPT ![w] = "refreshing"]
                            /\ matter' = [matter EXCEPT ![w].row = i]
  BY DEF LookForInvitation
<1>. QED  BY <1>3, <1>4, <1>5, <1>6

\* The invitations went on, and w is done with them.
LEMMA InvitationsMoveOn ==
  ASSUME OnboardingInv, NEW w \in Handlers, Settles(w),
         UNCHANGED <<column, member, requests, home, told>>,
         invitations' \in Seq(Invitation), Len(invitations') <= MaxInvitations,
         OneOpen(invitations'), Onward(invitations, invitations'),
         \A v \in Handlers \ {w} : stage[v] = "refreshing"
                                      => invitations'[matter[v].row].status = "pending"
  PROVE  WentOn
<1>1. /\ told' \subseteq Orgs /\ OneOpen(requests')
      /\ requests' \in Seq(Request) /\ Len(requests') <= MaxRequests
      /\ column' \in Orgs \cup {NoOrg} /\ member' \subseteq Orgs
  BY DEF OnboardingInv, OnboardingTypeOK
<1>2. Onward(requests, requests')
  BY DEF Onward
<1>. QED  BY <1>1, <1>2, SettlesWell

LEMMA CreateInvitationKeeps ==
  ASSUME OnboardingInv, NEW w \in Handlers, CreateInvitation(w)
  PROVE  WentOn
<1>. DEFINE o == matter[w].org
            row == [org |-> o, status |-> "pending", lapsed |-> FALSE]
<1>1. /\ stage[w] = "creating" /\ Settles(w)
      /\ UNCHANGED <<column, member, requests, home, told>>
  BY DEF CreateInvitation
<1>2. row \in Invitation /\ row.org = o
  BY <1>1 DEF OnboardingInv, OnTask, Invitation
<1>3. /\ invitations' \in Seq(Invitation) /\ Len(invitations') <= MaxInvitations
      /\ OneOpen(invitations') /\ Onward(invitations, invitations')
      /\ \A j \in DOMAIN invitations : invitations'[j] = invitations[j]
  <2>1. CASE PendingAt(invitations, o) # {}
    <3>1. invitations' = invitations
      BY <2>1 DEF CreateInvitation
    <3>. QED  BY <3>1 DEF OnboardingInv, OnboardingTypeOK, Onward
  <2>2. CASE PendingAt(invitations, o) = {}
    <3>1. Len(invitations) < MaxInvitations /\ invitations' = Append(invitations, row)
      BY <2>2 DEF CreateInvitation
    <3>2. invitations \in Seq(Invitation) /\ OneOpen(invitations)
      BY DEF OnboardingInv, OnboardingTypeOK
    <3>3. /\ Append(invitations, row) \in Seq(Invitation)
          /\ Len(Append(invitations, row)) = Len(invitations) + 1
          /\ \A j \in DOMAIN invitations : Append(invitations, row)[j] = invitations[j]
          /\ Onward(invitations, Append(invitations, row)) /\ OneOpen(Append(invitations, row))
      <4>. HIDE DEF row
      <4>. QED  BY <1>2, <2>2, <3>2, AddingARow
    <3>4. Len(invitations) \in Nat
      BY <3>2, LenProperties
    <3>. QED  BY <3>1, <3>3, <3>4, OnboardingConstants
  <2>. QED  BY <2>1, <2>2
<1>4. \A v \in Handlers \ {w} : stage[v] = "refreshing"
                                   => invitations'[matter[v].row].status = "pending"
  BY <1>3 DEF OnboardingInv, OnTask, AtRow
<1>. QED  BY <1>1, <1>3, <1>4, InvitationsMoveOn

\* The row that is refreshed is pending: whoever would decide it waits.
LEMMA RefreshKeeps ==
  ASSUME OnboardingInv, NEW w \in Handlers, Refresh(w)
  PROVE  WentOn
<1>. DEFINE i == matter[w].row
            row == [org |-> matter[w].org, status |-> "pending", lapsed |-> FALSE]
<1>1. /\ stage[w] = "refreshing" /\ Settles(w)
      /\ UNCHANGED <<column, member, requests, home, told>>
      /\ invitations' = [invitations EXCEPT ![i] = row]
  BY DEF Refresh
<1>2. /\ i \in DOMAIN invitations /\ invitations[i].org = matter[w].org
      /\ invitations[i].status = "pending" /\ matter[w].org \in Orgs
  BY <1>1 DEF OnboardingInv, OnTask, AtRow
<1>3. row \in Invitation /\ row.org = invitations[i].org /\ row.status = "pending"
  BY <1>2 DEF Invitation
<1>. HIDE DEF row
<1>4. invitations \in Seq(Invitation) /\ Len(invitations) <= MaxInvitations /\ OneOpen(invitations)
  BY DEF OnboardingInv, OnboardingTypeOK
<1>5. /\ invitations' \in Seq(Invitation) /\ Len(invitations') = Len(invitations)
      /\ invitations'[i] = row
      /\ \A j \in DOMAIN invitations \ {i} : invitations'[j] = invitations[j]
  <2>1. DOMAIN invitations = 1..Len(invitations)
    BY <1>4, LenProperties
  <2>. QED  BY <1>1, <1>2, <1>3, <1>4, <2>1, ExceptSeq
<1>6. Onward(invitations, invitations') /\ OneOpen(invitations')
  BY <1>2, <1>3, <1>4, <1>5, SavingARow
<1>7. \A v \in Handlers \ {w} : stage[v] = "refreshing"
                                   => invitations'[matter[v].row].status = "pending"
  BY <1>3, <1>5 DEF OnboardingInv, OnTask, AtRow
<1>. QED  BY <1>1, <1>4, <1>5, <1>6, <1>7, InvitationsMoveOn

LEMMA LoadInvitationKeeps ==
  ASSUME OnboardingInv, NEW w \in Handlers, NEW i \in 1..MaxInvitations, LoadInvitation(w, i)
  PROVE  WentOn
<1>1. i \in DOMAIN invitations /\ Takes(w, "cancelling", invitations[i].org, i)
  BY DEF LoadInvitation
<1>2. invitations[i].org \in Orgs /\ i \in 0..(MaxRequests + MaxInvitations)
  BY <1>1, RowsAreTyped DEF OnboardingInv, Invitation
<1>. QED  BY <1>1, <1>2, TakesOn DEF Takes, Stages

\* An invitation that nobody refreshes is decided.
LEMMA VerdictOnInvitation ==
  ASSUME OnboardingInv, NEW w \in Handlers, stage[w] \in {"accepting", "cancelling"},
         ~Held(matter[w].row), NEW verdict \in {"accepted", "cancelled"},
         invitations' = Decided(invitations, matter[w].row, verdict)
  PROVE  /\ matter[w].row \in DOMAIN invitations /\ matter[w].org \in Orgs
         /\ invitations' \in Seq(Invitation) /\ Len(invitations') = Len(invitations)
         /\ Len(invitations') <= MaxInvitations /\ DOMAIN invitations' = DOMAIN invitations
         /\ OneOpen(invitations') /\ Onward(invitations, invitations')
         /\ invitations'[matter[w].row].status = verdict
         /\ invitations'[matter[w].row].org = matter[w].org
         /\ \A j \in DOMAIN invitations \ {matter[w].row} : invitations'[j] = invitations[j]
         /\ \A v \in Handlers \ {w} : stage[v] = "refreshing"
                                         => invitations'[matter[v].row].status = "pending"
<1>. DEFINE i == matter[w].row
<1>1. /\ i \in DOMAIN invitations /\ invitations[i].org = matter[w].org
      /\ matter[w].org \in Orgs
  BY DEF OnboardingInv, OnTask, AtRow
<1>2. [invitations[i] EXCEPT !.status = verdict] \in Invitation
  BY <1>1, RowsAreTyped DEF OnboardingInv, Invitation
<1>3. invitations \in Seq(Invitation) /\ Len(invitations) <= MaxInvitations /\ OneOpen(invitations)
  BY DEF OnboardingInv, OnboardingTypeOK
<1>4. /\ invitations' \in Seq(Invitation) /\ Len(invitations') = Len(invitations)
      /\ DOMAIN invitations' = DOMAIN invitations
      /\ Onward(invitations, invitations') /\ OneOpen(invitations')
      /\ invitations'[i].status = verdict /\ invitations'[i].org = invitations[i].org
      /\ \A j \in DOMAIN invitations \ {i} : invitations'[j] = invitations[j]
  BY <1>1, <1>2, <1>3, DecidedRows
<1>5. \A v \in Handlers \ {w} : stage[v] = "refreshing"
                                   => invitations'[matter[v].row].status = "pending"
  BY <1>4 DEF OnboardingInv, OnTask, AtRow, Held
<1>. QED  BY <1>1, <1>3, <1>4, <1>5

LEMMA CommitCancelKeeps ==
  ASSUME OnboardingInv, NEW w \in Handlers, CommitCancel(w)
  PROVE  WentOn
BY VerdictOnInvitation, InvitationsMoveOn DEF CommitCancel

LEMMA LapseKeeps ==
  ASSUME OnboardingInv, NEW i \in 1..MaxInvitations, Lapse(i)
  PROVE  WentOn
<1>. DEFINE row == [invitations[i] EXCEPT !.lapsed = TRUE]
<1>1. /\ i \in DOMAIN invitations /\ invitations[i].status = "pending"
      /\ invitations' = [invitations EXCEPT ![i] = row]
      /\ UNCHANGED <<column, member, requests, home, told, stage, matter>>
  BY DEF Lapse
<1>2. row \in Invitation /\ row.org = invitations[i].org /\ row.status = "pending"
  BY <1>1, RowsAreTyped DEF OnboardingInv, Invitation
<1>. HIDE DEF row
<1>3. invitations \in Seq(Invitation) /\ Len(invitations) <= MaxInvitations /\ OneOpen(invitations)
  BY DEF OnboardingInv, OnboardingTypeOK
<1>4. /\ invitations' \in Seq(Invitation) /\ Len(invitations') = Len(invitations)
      /\ invitations'[i] = row
      /\ \A j \in DOMAIN invitations \ {i} : invitations'[j] = invitations[j]
  <2>1. DOMAIN invitations = 1..Len(invitations)
    BY <1>3, LenProperties
  <2>. QED  BY <1>1, <1>2, <1>3, <2>1, ExceptSeq
<1>5. Onward(invitations, invitations') /\ OneOpen(invitations')
  BY <1>1, <1>2, <1>3, <1>4, SavingARow
<1>6. OnboardingTypeOK' /\ OneOpen(requests') /\ Onward(requests, requests')
  BY <1>1, <1>3, <1>4 DEF OnboardingInv, OnboardingTypeOK, Onward
<1>7. \A v \in Handlers \ {} : stage[v] = "refreshing"
                                  => invitations'[matter[v].row].status = "pending"
  BY <1>2, <1>4 DEF OnboardingInv, OnTask, AtRow
<1>8. /\ {} \in SUBSET Handlers /\ \A v \in {} : OnTask(v)'
      /\ \A v \in Handlers \ {} : stage'[v] = stage[v] /\ matter'[v] = matter[v]
  BY <1>1
<1>. QED  BY <1>5, <1>6, <1>7, <1>8, OthersStayOnTask

LEMMA MoveDomainKeeps ==
  ASSUME OnboardingInv, NEW o \in Orgs, MoveDomain(o)
  PROVE  WentOn
BY DEF MoveDomain, rows, OnboardingInv, OnboardingTypeOK, OnTask, AtRow, WentOn, Onward

-----------------------------------------------------------------------------
LEMMA OnboardingSteps == OnboardingInv /\ [OnboardingNext]_onboardingVars => WentOn
<1>. SUFFICES ASSUME OnboardingInv, [OnboardingNext]_onboardingVars PROVE WentOn
  OBVIOUS
<1>1. CASE UNCHANGED onboardingVars
  BY <1>1 DEF onboardingVars, rows, OnboardingInv, OnboardingTypeOK, OnTask, AtRow,
              WentOn, Onward
<1>2. ASSUME NEW w \in Handlers, Person(w) PROVE WentOn
  BY <1>2, SignInKeeps, AcceptKeeps, WaitKeeps, AskToJoinKeeps, CommitRequestKeeps DEF Person
<1>3. ASSUME NEW w \in Handlers, Administrator(w) PROVE WentOn
  BY <1>3, LoadRequestKeeps, CommitApproveKeeps, CommitRejectKeeps, InviteKeeps,
     LookForInvitationKeeps, CreateInvitationKeeps, RefreshKeeps, LoadInvitationKeeps,
     CommitCancelKeeps DEF Administrator
<1>. QED  BY <1>1, <1>2, <1>3, GiveUpKeeps, LapseKeeps, MoveDomainKeeps DEF OnboardingNext

\* In every state the tables are sound and every worker is at the row it means.
THEOREM OnboardingInvariant == OnboardingSpec => []OnboardingInv
<1>1. OnboardingInv /\ [OnboardingNext]_onboardingVars => OnboardingInv'
  BY OnboardingSteps DEF WentOn
<1>. QED  BY <1>1, OnboardingStarts, PTL DEF OnboardingSpec

\* Every variable keeps its type.
THEOREM OnboardingTypes == OnboardingSpec => []OnboardingTypeOK
<1>. OnboardingInv => OnboardingTypeOK  BY DEF OnboardingInv
<1>. QED  BY OnboardingInvariant, PTL

LEMMA AtMostOne ==
  ASSUME NEW S, \A x, y \in S : x = y
  PROVE  Cardinality(S) <= 1
<1>1. CASE S = {}
  BY <1>1, FS_EmptySet
<1>2. CASE S # {}
  <2>1. PICK x : x \in S
    BY <1>2
  <2>2. S = {x}
    BY <2>1
  <2>. QED  BY <2>2, FS_Singleton
<1>. QED  BY <1>1, <1>2

\* However many administrators invite and however many sign-ins ask at once, an
\* organisation has one open invitation and one open request of an address.
THEOREM OneRowIsOpen == OnboardingSpec => []OneOpenRowPerTenant
<1>1. ASSUME NEW list, OneOpen(list), NEW o PROVE Cardinality(PendingAt(list, o)) <= 1
  <2>. DEFINE S == PendingAt(list, o)
  <2>1. \A x, y \in S : x = y
    BY <1>1 DEF PendingAt, OneOpen
  <2>. HIDE DEF S
  <2>2. Cardinality(S) <= 1
    BY <2>1, AtMostOne
  <2>. QED  BY <2>2 DEF S
<1>2. OnboardingInv => OneOpenRowPerTenant
  BY <1>1 DEF OnboardingInv, OneOpenRowPerTenant
<1>. QED  BY <1>2, OnboardingInvariant, PTL

\* A row that was decided never waits for a decision again, also not through the
\* refresh of a lapsed invitation (onboarding.invite, select_for_update).
THEOREM DecidedStaysDecided == OnboardingSpec => NothingReopens
<1>1. OnboardingInv /\ [OnboardingNext]_onboardingVars
        => [/\ \A i \in DOMAIN requests :
                  requests[i].status # "pending" => requests'[i].status # "pending"
            /\ \A i \in DOMAIN invitations :
                  invitations[i].status # "pending"
                     => invitations'[i].status # "pending"]_onboardingVars
  BY OnboardingSteps DEF WentOn, Onward
<1>. QED  BY <1>1, OnboardingInvariant, PTL DEF OnboardingSpec, NothingReopens

-----------------------------------------------------------------------------
(* One request at a time.                                                  *)

OneAtATime == \A v, w \in Handlers : stage[v] # "idle" /\ stage[w] # "idle" => v = w

\* What a worker looked at is still so.
SeenIsSo(w) ==
    /\ stage[w] = "asking" => member = {}
    /\ stage[w] \in {"approving", "rejecting"} => requests[matter[w].row].status = "pending"
    /\ stage[w] \in {"accepting", "cancelling"} => invitations[matter[w].row].status = "pending"

AloneInv == AdmittedByDecision /\ MembersDoNotWait /\ \A w \in Handlers : SeenIsSo(w)

LEMMA AloneStarts == OnboardingInit => AloneInv
BY DEF OnboardingInit, AloneInv, AdmittedByDecision, MembersDoNotWait, SeenIsSo

\* Nothing changes but where w is; whoever else was at something is done.
LEMMA AloneBegins ==
  ASSUME OnboardingInv, AloneInv, OneAtATime', NEW w \in Handlers, NEW place \in Stages,
         NEW o, NEW i,
         place # "idle",
         stage' = [stage EXCEPT ![w] = place],
         matter' = [matter EXCEPT ![w] = [org |-> o, row |-> i]],
         UNCHANGED rows,
         place = "asking" => member = {},
         place \in {"approving", "rejecting"} => requests[i].status = "pending",
         place \in {"accepting", "cancelling"} => invitations[i].status = "pending"
  PROVE  AloneInv' /\ DecisionsStand
<1>1. requests' = requests /\ invitations' = invitations /\ member' = member
  BY DEF rows
<1>2. /\ stage'[w] = place /\ matter'[w].row = i
      /\ \A v \in Handlers \ {w} : stage'[v] = "idle"
  BY DEF OnboardingInv, OnboardingTypeOK, OneAtATime
<1>3. AdmittedByDecision' /\ MembersDoNotWait' /\ DecisionsStand
  BY <1>1 DEF AloneInv, AdmittedByDecision, MembersDoNotWait, DecisionsStand, PendingAt
<1>4. ASSUME NEW v \in Handlers PROVE SeenIsSo(v)'
  BY <1>1, <1>2 DEF SeenIsSo
<1>. QED  BY <1>3, <1>4 DEF AloneInv

\* w is done, and nobody else is at anything.
LEMMA AloneEnds ==
  ASSUME OnboardingInv, OneAtATime, NEW w \in Handlers, stage[w] # "idle", Settles(w),
         AdmittedByDecision', MembersDoNotWait', DecisionsStand
  PROVE  AloneInv' /\ DecisionsStand
<1>1. \A v \in Handlers : stage'[v] = "idle"
  BY DEF OneAtATime, Settles, OnboardingInv, OnboardingTypeOK
<1>. QED  BY <1>1 DEF AloneInv, SeenIsSo

\* So it is when w has changed no row.
LEMMA AloneEndsQuietly ==
  ASSUME OnboardingInv, AloneInv, OneAtATime, NEW w \in Handlers, stage[w] # "idle", Settles(w),
         UNCHANGED rows
  PROVE  AloneInv' /\ DecisionsStand
<1>1. requests' = requests /\ invitations' = invitations /\ member' = member
  BY DEF rows
<1>2. AdmittedByDecision' /\ MembersDoNotWait' /\ DecisionsStand
  BY <1>1 DEF AloneInv, AdmittedByDecision, MembersDoNotWait, DecisionsStand, PendingAt
<1>. QED  BY <1>2, AloneEnds

LEMMA AcceptAlone ==
  ASSUME OnboardingInv, AloneInv, OneAtATime, NEW w \in Handlers, Accept(w)
  PROVE  AloneInv' /\ DecisionsStand
<1>. DEFINE i == matter[w].row
<1>1. /\ stage[w] = "accepting" /\ ~Held(i) /\ member' = member \cup {matter[w].org}
      /\ invitations' = Decided(invitations, i, "accepted") /\ requests' = Mooted /\ Settles(w)
  BY DEF Accept
<1>2. /\ i \in DOMAIN invitations /\ DOMAIN invitations' = DOMAIN invitations
      /\ Onward(invitations, invitations')
      /\ invitations'[i].status = "accepted" /\ invitations'[i].org = matter[w].org
      /\ \A j \in DOMAIN invitations \ {i} : invitations'[j] = invitations[j]
  BY <1>1, VerdictOnInvitation
<1>3. /\ DOMAIN requests' = DOMAIN requests
      /\ \A j \in DOMAIN requests : /\ requests'[j].org = requests[j].org
                                    /\ requests'[j].status # "pending"
                                    /\ requests[j].status # "pending" => requests'[j] = requests[j]
  BY <1>1, MootedRows DEF OnboardingInv
<1>4. invitations[i].status = "pending"
  BY <1>1 DEF AloneInv, SeenIsSo
<1>5. AdmittedByDecision'
  <2>1. SUFFICES ASSUME NEW o \in member'
                 PROVE  \/ \E j \in DOMAIN requests' :
                              requests'[j].org = o /\ requests'[j].status = "approved"
                        \/ \E j \in DOMAIN invitations' :
                              invitations'[j].org = o /\ invitations'[j].status = "accepted"
    BY DEF AdmittedByDecision
  <2>2. CASE o = matter[w].org
    BY <1>2, <2>2
  <2>3. CASE o \in member
    BY <1>2, <1>3, <1>4, <2>3 DEF AloneInv, AdmittedByDecision
  <2>. QED  BY <1>1, <2>2, <2>3
<1>6. MembersDoNotWait'
  BY <1>3 DEF MembersDoNotWait, PendingAt
<1>7. DecisionsStand
  BY <1>2, <1>3, <1>4 DEF DecisionsStand
<1>. QED  BY <1>1, <1>5, <1>6, <1>7, AloneEnds

LEMMA CommitRequestAlone ==
  ASSUME OnboardingInv, AloneInv, OneAtATime, NEW w \in Handlers, CommitRequest(w)
  PROVE  AloneInv' /\ DecisionsStand
<1>1. /\ stage[w] = "asking" /\ Settles(w) /\ member' = member /\ invitations' = invitations
      /\ member = {}
  BY DEF CommitRequest, AloneInv, SeenIsSo
<1>2. \A j \in DOMAIN requests : requests'[j] = requests[j]
  <2>1. requests \in Seq(Request)
    BY DEF OnboardingInv, OnboardingTypeOK
  <2>2. \A row \in Request : \A j \in DOMAIN requests : Append(requests, row)[j] = requests[j]
    BY <2>1, LenProperties, AppendProperties
  <2>3. [org |-> matter[w].org, status |-> "pending"] \in Request
    BY <1>1 DEF OnboardingInv, OnTask, Request
  <2>. QED  BY <2>2, <2>3 DEF CommitRequest
<1>3. AdmittedByDecision' /\ MembersDoNotWait'
  BY <1>1 DEF AdmittedByDecision, MembersDoNotWait
<1>4. DecisionsStand
  BY <1>1, <1>2 DEF DecisionsStand
<1>. QED  BY <1>1, <1>3, <1>4, AloneEnds

\* An approval takes the one request that waits where the person gets in.
LEMMA CommitApproveAlone ==
  ASSUME OnboardingInv, AloneInv, OneAtATime, NEW w \in Handlers, CommitApprove(w)
  PROVE  AloneInv' /\ DecisionsStand
<1>. DEFINE i == matter[w].row
<1>1. /\ stage[w] = "approving" /\ Settles(w) /\ invitations' = invitations
      /\ requests' = Decided(requests, i, "approved") /\ member' = member \cup {matter[w].org}
  BY DEF CommitApprove
<1>2. /\ i \in DOMAIN requests /\ DOMAIN requests' = DOMAIN requests /\ OneOpen(requests')
      /\ requests'[i].status = "approved" /\ requests'[i].org = matter[w].org
      /\ requests[i].org = matter[w].org
      /\ \A j \in DOMAIN requests \ {i} : requests'[j] = requests[j]
  BY <1>1, VerdictOnRequest
<1>3. requests[i].status = "pending" /\ OneOpen(requests)
  BY <1>1 DEF AloneInv, SeenIsSo, OnboardingInv
<1>4. AdmittedByDecision'
  <2>1. SUFFICES ASSUME NEW o \in member'
                 PROVE  \/ \E j \in DOMAIN requests' :
                              requests'[j].org = o /\ requests'[j].status = "approved"
                        \/ \E j \in DOMAIN invitations' :
                              invitations'[j].org = o /\ invitations'[j].status = "accepted"
    BY DEF AdmittedByDecision
  <2>2. CASE o = matter[w].org
    BY <1>2, <2>2
  <2>3. CASE o \in member
    BY <1>1, <1>2, <1>3, <2>3 DEF AloneInv, AdmittedByDecision
  <2>. QED  BY <1>1, <2>2, <2>3
<1>5. MembersDoNotWait'
  <2>1. SUFFICES ASSUME NEW o \in member', NEW j \in DOMAIN requests', requests'[j].org = o,
                        requests'[j].status = "pending"
                 PROVE  FALSE
    BY DEF MembersDoNotWait, PendingAt
  <2>2. j # i /\ requests[j].org = o /\ requests[j].status = "pending"
    BY <1>2, <2>1
  <2>3. CASE o = matter[w].org
    BY <1>2, <1>3, <2>2, <2>3 DEF OneOpen
  <2>4. CASE o \in member
    BY <1>2, <2>2, <2>4 DEF AloneInv, MembersDoNotWait, PendingAt
  <2>. QED  BY <1>1, <2>3, <2>4
<1>6. DecisionsStand
  BY <1>1, <1>2, <1>3 DEF DecisionsStand
<1>. QED  BY <1>1, <1>4, <1>5, <1>6, AloneEnds

LEMMA CommitRejectAlone ==
  ASSUME OnboardingInv, AloneInv, OneAtATime, NEW w \in Handlers, CommitReject(w)
  PROVE  AloneInv' /\ DecisionsStand
<1>. DEFINE i == matter[w].row
<1>1. /\ stage[w] = "rejecting" /\ Settles(w) /\ invitations' = invitations
      /\ requests' = Decided(requests, i, "rejected") /\ member' = member
  BY DEF CommitReject
<1>2. /\ i \in DOMAIN requests /\ DOMAIN requests' = DOMAIN requests
      /\ requests'[i].status = "rejected" /\ requests'[i].org = requests[i].org
      /\ \A j \in DOMAIN requests \ {i} : requests'[j] = requests[j]
  BY <1>1, VerdictOnRequest
<1>3. requests[i].status = "pending"
  BY <1>1 DEF AloneInv, SeenIsSo
<1>4. AdmittedByDecision' /\ MembersDoNotWait'
  BY <1>1, <1>2, <1>3 DEF AloneInv, AdmittedByDecision, MembersDoNotWait, PendingAt
<1>5. DecisionsStand
  BY <1>1, <1>2, <1>3 DEF DecisionsStand
<1>. QED  BY <1>1, <1>4, <1>5, AloneEnds

\* w has changed no row but invitations that were pending, and added some.
LEMMA InvitationsAlone ==
  ASSUME AloneInv, requests' = requests, member' = member,
         DOMAIN invitations \subseteq DOMAIN invitations',
         \A j \in DOMAIN invitations :
            /\ invitations'[j].org = invitations[j].org
            /\ invitations[j].status # "pending" => invitations'[j].status = invitations[j].status
  PROVE  AdmittedByDecision' /\ MembersDoNotWait' /\ DecisionsStand
<1>1. AdmittedByDecision'
  BY DEF AloneInv, AdmittedByDecision
<1>2. MembersDoNotWait' /\ DecisionsStand
  BY DEF AloneInv, MembersDoNotWait, PendingAt, DecisionsStand
<1>. QED  BY <1>1, <1>2

LEMMA CreateInvitationAlone ==
  ASSUME OnboardingInv, AloneInv, OneAtATime, NEW w \in Handlers, CreateInvitation(w)
  PROVE  AloneInv' /\ DecisionsStand
<1>1. stage[w] = "creating" /\ Settles(w) /\ requests' = requests /\ member' = member
  BY DEF CreateInvitation
<1>2. \A j \in DOMAIN invitations : j \in DOMAIN invitations' /\ invitations'[j] = invitations[j]
  <2>1. invitations \in Seq(Invitation)
    BY DEF OnboardingInv, OnboardingTypeOK
  <2>2. \A row \in Invitation : \A j \in DOMAIN invitations :
           j \in DOMAIN Append(invitations, row) /\ Append(invitations, row)[j] = invitations[j]
    BY <2>1, LenProperties, AppendProperties
  <2>3. [org |-> matter[w].org, status |-> "pending", lapsed |-> FALSE] \in Invitation
    BY <1>1 DEF OnboardingInv, OnTask, Invitation
  <2>. QED  BY <2>2, <2>3 DEF CreateInvitation
<1>3. AdmittedByDecision' /\ MembersDoNotWait' /\ DecisionsStand
  BY <1>1, <1>2, InvitationsAlone
<1>. QED  BY <1>1, <1>3, AloneEnds

LEMMA RefreshAlone ==
  ASSUME OnboardingInv, AloneInv, OneAtATime, NEW w \in Handlers, Refresh(w)
  PROVE  AloneInv' /\ DecisionsStand
<1>. DEFINE i == matter[w].row
            row == [org |-> matter[w].org, status |-> "pending", lapsed |-> FALSE]
<1>1. /\ stage[w] = "refreshing" /\ Settles(w) /\ requests' = requests /\ member' = member
      /\ invitations' = [invitations EXCEPT ![i] = row]
  BY DEF Refresh
<1>2. /\ i \in DOMAIN invitations /\ invitations[i].org = matter[w].org
      /\ invitations[i].status = "pending"
  BY <1>1 DEF OnboardingInv, OnTask, AtRow
<1>3. row.org = matter[w].org
  OBVIOUS
<1>. HIDE DEF row
<1>4. /\ DOMAIN invitations' = DOMAIN invitations /\ invitations'[i] = row
      /\ \A j \in DOMAIN invitations \ {i} : invitations'[j] = invitations[j]
  BY <1>1, <1>2
<1>5. AdmittedByDecision' /\ MembersDoNotWait' /\ DecisionsStand
  BY <1>1, <1>2, <1>3, <1>4, InvitationsAlone
<1>. QED  BY <1>1, <1>5, AloneEnds

LEMMA CommitCancelAlone ==
  ASSUME OnboardingInv, AloneInv, OneAtATime, NEW w \in Handlers, CommitCancel(w)
  PROVE  AloneInv' /\ DecisionsStand
<1>. DEFINE i == matter[w].row
<1>1. /\ stage[w] = "cancelling" /\ ~Held(i) /\ Settles(w) /\ requests' = requests
      /\ member' = member /\ invitations' = Decided(invitations, i, "cancelled")
  BY DEF CommitCancel
<1>2. /\ DOMAIN invitations' = DOMAIN invitations
      /\ Onward(invitations, invitations')
      /\ \A j \in DOMAIN invitations \ {i} : invitations'[j] = invitations[j]
  BY <1>1, VerdictOnInvitation
<1>3. invitations[i].status = "pending"
  BY <1>1 DEF AloneInv, SeenIsSo
<1>4. AdmittedByDecision' /\ MembersDoNotWait' /\ DecisionsStand
  BY <1>1, <1>2, <1>3, InvitationsAlone DEF Onward
<1>. QED  BY <1>1, <1>4, AloneEnds

LEMMA LookForInvitationAlone ==
  ASSUME OnboardingInv, AloneInv, OneAtATime, OneAtATime', NEW w \in Handlers,
         LookForInvitation(w)
  PROVE  AloneInv' /\ DecisionsStand
<1>1. stage[w] = "inviting" /\ UNCHANGED rows
  BY DEF LookForInvitation
<1>2. CASE Settles(w)
  BY <1>1, <1>2, AloneEndsQuietly
<1>3. CASE ~Settles(w)
  <2>1. PICK place \in {"creating", "refreshing"} : stage' = [stage EXCEPT ![w] = place]
    BY <1>3 DEF LookForInvitation
  <2>2. requests' = requests /\ invitations' = invitations /\ member' = member
    BY <1>1 DEF rows
  <2>3. stage'[w] = place /\ \A v \in Handlers \ {w} : stage'[v] = "idle"
    BY <2>1 DEF OnboardingInv, OnboardingTypeOK, OneAtATime
  <2>4. AdmittedByDecision' /\ MembersDoNotWait' /\ DecisionsStand
    BY <2>2 DEF AloneInv, AdmittedByDecision, MembersDoNotWait, DecisionsStand, PendingAt
  <2>5. ASSUME NEW v \in Handlers PROVE SeenIsSo(v)'
    BY <2>3 DEF SeenIsSo
  <2>. QED  BY <2>4, <2>5 DEF AloneInv
<1>. QED  BY <1>2, <1>3

LEMMA SignInAlone ==
  ASSUME OnboardingInv, AloneInv, OneAtATime', NEW w \in Handlers, SignIn(w)
  PROVE  AloneInv' /\ DecisionsStand
<1>. DEFINE open == {i \in DOMAIN invitations : IsOpen(i)}
<1>1. CASE open # {} /\ Takes(w, "accepting", invitations[Min(open)].org, Min(open))
  <2>1. open \in SUBSET Nat
    BY RowsAreTyped DEF OnboardingInv
  <2>2. invitations[Min(open)].status = "pending"
    BY <1>1, <2>1, EarliestIsThere DEF IsOpen
  <2>. QED  BY <1>1, <2>2, AloneBegins DEF Takes, Stages
<1>2. CASE Takes(w, "waiting", home, 0)
  BY <1>2, AloneBegins DEF Takes, Stages
<1>. QED  BY <1>1, <1>2 DEF SignIn

\* Whatever else begins has looked at what it is about.
LEMMA OthersBeginAlone ==
  ASSUME OnboardingInv, AloneInv, OneAtATime', NEW w \in Handlers,
         \/ AskToJoin(w)
         \/ \E i \in 1..MaxRequests, place \in {"approving", "rejecting"} : LoadRequest(w, i, place)
         \/ \E o \in Orgs : Invite(w, o)
         \/ \E i \in 1..MaxInvitations : LoadInvitation(w, i)
  PROVE  AloneInv' /\ DecisionsStand
<1>1. CASE AskToJoin(w)
  BY <1>1, AloneBegins DEF AskToJoin, Takes, Stages
<1>2. ASSUME NEW i \in 1..MaxRequests, NEW place \in {"approving", "rejecting"},
             LoadRequest(w, i, place)
      PROVE  AloneInv' /\ DecisionsStand
  BY <1>2, AloneBegins DEF LoadRequest, Takes, Stages
<1>3. ASSUME NEW o \in Orgs, Invite(w, o) PROVE AloneInv' /\ DecisionsStand
  BY <1>3, AloneBegins DEF Invite, Takes, Stages
<1>4. ASSUME NEW i \in 1..MaxInvitations, LoadInvitation(w, i) PROVE AloneInv' /\ DecisionsStand
  BY <1>4, AloneBegins DEF LoadInvitation, Takes, Stages
<1>. QED  BY <1>1, <1>2, <1>3, <1>4

\* Somebody gives up, days pass, the domain moves.
LEMMA AroundAlone ==
  ASSUME OnboardingInv, AloneInv, OneAtATime,
         \/ \E w \in Handlers : GiveUp(w) \/ Wait(w)
         \/ \E i \in 1..MaxInvitations : Lapse(i)
         \/ \E o \in Orgs : MoveDomain(o)
  PROVE  AloneInv' /\ DecisionsStand
<1>1. ASSUME NEW w \in Handlers, GiveUp(w) \/ Wait(w) PROVE AloneInv' /\ DecisionsStand
  BY <1>1, AloneEndsQuietly DEF GiveUp, Wait
<1>2. ASSUME NEW i \in 1..MaxInvitations, Lapse(i) PROVE AloneInv' /\ DecisionsStand
  <2>. DEFINE row == [invitations[i] EXCEPT !.lapsed = TRUE]
  <2>1. /\ i \in DOMAIN invitations
        /\ invitations' = [invitations EXCEPT ![i] = row]
        /\ UNCHANGED <<member, requests, stage, matter>>
    BY <1>2 DEF Lapse
  <2>2. row.org = invitations[i].org /\ row.status = invitations[i].status
    BY <2>1, RowsAreTyped DEF OnboardingInv, Invitation
  <2>. HIDE DEF row
  <2>3. /\ DOMAIN invitations' = DOMAIN invitations
        /\ \A j \in DOMAIN invitations : /\ invitations'[j].org = invitations[j].org
                                         /\ invitations'[j].status = invitations[j].status
    BY <2>1, <2>2
  <2>4. AdmittedByDecision' /\ MembersDoNotWait' /\ DecisionsStand
    BY <2>1, <2>3, InvitationsAlone
  <2>5. ASSUME NEW v \in Handlers PROVE SeenIsSo(v)'
    <3>1. stage[v] \in {"accepting", "cancelling"} => matter[v].row \in DOMAIN invitations
      BY DEF OnboardingInv, OnTask, AtRow
    <3>. QED  BY <2>1, <2>3, <3>1 DEF AloneInv, SeenIsSo
  <2>. QED  BY <2>4, <2>5 DEF AloneInv
<1>3. ASSUME NEW o \in Orgs, MoveDomain(o) PROVE AloneInv' /\ DecisionsStand
  BY <1>3 DEF MoveDomain, rows, AloneInv, AdmittedByDecision, MembersDoNotWait, PendingAt,
              SeenIsSo, DecisionsStand
<1>. QED  BY <1>1, <1>2, <1>3

LEMMA AloneSteps ==
  OnboardingInv /\ AloneInv /\ OneAtATime /\ OneAtATime' /\ [OnboardingNext]_onboardingVars
     => AloneInv' /\ DecisionsStand
<1>. SUFFICES ASSUME OnboardingInv, AloneInv, OneAtATime, OneAtATime',
                     [OnboardingNext]_onboardingVars
              PROVE  AloneInv' /\ DecisionsStand
  OBVIOUS
<1>1. CASE UNCHANGED onboardingVars
  BY <1>1 DEF onboardingVars, rows, AloneInv, AdmittedByDecision, MembersDoNotWait, PendingAt,
              SeenIsSo, DecisionsStand
<1>2. ASSUME NEW w \in Handlers, Person(w) PROVE AloneInv' /\ DecisionsStand
  BY <1>2, SignInAlone, AcceptAlone, AroundAlone, OthersBeginAlone, CommitRequestAlone DEF Person
<1>3. ASSUME NEW w \in Handlers, Administrator(w) PROVE AloneInv' /\ DecisionsStand
  BY <1>3, OthersBeginAlone, CommitApproveAlone, CommitRejectAlone, LookForInvitationAlone,
     CreateInvitationAlone, RefreshAlone, CommitCancelAlone DEF Administrator
<1>. QED  BY <1>1, <1>2, <1>3, AroundAlone DEF OnboardingNext

\* While requests come one at a time, over any sequence of them: a decided row
\* keeps its decision, nobody is in without one that lets them in, and nobody who
\* is in still waits for one (onboarding.py:262, 430, 507, "moot now").
THEOREM OneAtATimeDecisionsStand ==
  OnboardingSpec /\ []OneAtATime
     => /\ [](AdmittedByDecision /\ MembersDoNotWait)
        /\ [][DecisionsStand]_onboardingVars
<1>1. AloneInv => AdmittedByDecision /\ MembersDoNotWait
  BY DEF AloneInv
<1>2. OnboardingInv /\ AloneInv /\ OneAtATime /\ OneAtATime' /\ [OnboardingNext]_onboardingVars
         => AloneInv' /\ [DecisionsStand]_onboardingVars
  BY AloneSteps
<1>. QED  BY <1>1, <1>2, AloneStarts, OnboardingInvariant, PTL DEF OnboardingSpec

-----------------------------------------------------------------------------
(* Automation.  A scenario is among those left, or is being walked, or has *)
(* had its one run, and a webhook likewise; nothing is posted before the   *)
(* runs are through.  A walk's log and what it did have the same actions.  *)

Moments == {"idle", "runs", "walk", "hooks", "ended", "broken"}
Entries == [node : Ends, status : {"ok", "failed", "skipped"}]
Chains == [pc : Moments, cause : Triggers \cup {"manual"},
           left : (SUBSET Scenarios) \cup (SUBSET Hooks), of : Scenarios \cup {Nowhere}, at : Ends,
           visits : 0..Guard, log : Seq(Entries), did : Seq(Entries), failed : BOOLEAN]
RunRows == [event : Nat, of : Scenarios, finished : BOOLEAN, failed : BOOLEAN,
            log : Seq(Entries), did : Seq(Entries), cut : BOOLEAN]
CallRows == [event : Nat, of : Hooks, kept : BOOLEAN]

RulesAreTyped ==
    /\ scenarios \in [Scenarios -> ScenarioRow] /\ hooks \in [Hooks -> RowStates]
    /\ event \in Nat /\ chain \in Chains
    /\ scenarioRuns \subseteq RunRows /\ posted \subseteq CallRows
    /\ \A r \in scenarioRuns : r.event <= event /\ scenarios[r.of].state # "deleted"
    /\ \A p \in posted : p.event <= event

Due(s) == scenarios[s].state = "on" /\ WaitsFor(s, chain.cause)
RunDone(s) == IF Due(s) THEN \E r \in scenarioRuns : RunsOf(s) = {r} /\ r.finished
              ELSE RunsOf(s) = {}
CallsOf(h) == {p \in posted : p.event = event /\ p.of = h}
CallDone(h) == IF hooks[h] = "on" /\ chain.cause = "new_entity"
               THEN \E p \in posted : CallsOf(h) = {p} /\ p.kept
               ELSE CallsOf(h) = {}

\* A scenario is still to be run, or being walked.
Ahead(s) == s \in chain.left \/ (chain.pc = "walk" /\ s = chain.of)

WhileRunning ==
    chain.pc \in {"runs", "walk"} =>
       /\ chain.left \subseteq Scenarios
       /\ \A s \in chain.left : RunsOf(s) = {}
       /\ \A p \in posted : p.event # event
       /\ chain.cause \in Triggers =>
            \A s \in Scenarios \ touched : IF Ahead(s) THEN Due(s) ELSE RunDone(s)

WhileWalking ==
    chain.pc = "walk" =>
       /\ chain.of \in Scenarios \ chain.left
       /\ scenarios[chain.of].state # "deleted" => RunsOf(chain.of) = {NewRun(chain.of)}
       /\ \A r \in scenarioRuns : r.event = event /\ ~r.finished => r = NewRun(chain.of)

WhilePosting ==
    chain.pc = "hooks" =>
       /\ chain.cause = "new_entity" /\ chain.left \subseteq Hooks
       /\ \A h \in chain.left : CallsOf(h) = {}
       /\ \A h \in Hooks \ touched : IF h \in chain.left THEN hooks[h] = "on" ELSE CallDone(h)

Followed ==
    /\ chain.pc \in {"hooks", "ended"} /\ chain.cause \in Triggers
          => \A s \in Scenarios \ touched : RunDone(s)
    /\ chain.pc = "ended" /\ chain.cause \in Triggers => \A h \in Hooks \ touched : CallDone(h)
    /\ chain.pc \in {"runs", "hooks", "ended"}
          => \A r \in scenarioRuns : r.event = event => r.finished
    /\ \A p \in posted, r \in scenarioRuns : p.event = r.event => r.finished

FollowInv == WhileRunning /\ WhileWalking /\ WhilePosting /\ Followed

\* What a walk has on its log against what it did, by the scenario's own nodes.
WalkIsTold ==
    IF chain.pc = "walk"
    THEN /\ ActsOf(chain.log, OurFlow.kind) = ActsOf(chain.did, OurFlow.kind)
         /\ chain.failed = \E i \in DOMAIN chain.log : chain.log[i].status = "failed"
         /\ Len(chain.did) = chain.visits
         /\ \A i \in DOMAIN chain.did : chain.did[i].node \in Nodes
    ELSE chain.log = <<>> /\ chain.did = <<>> /\ chain.visits = 0 /\ chain.failed = FALSE

AutomationInv == RulesAreTyped /\ FollowInv /\ WalkIsTold /\ RunsTellTheTruth

-----------------------------------------------------------------------------
LEMMA GuardType == Cardinality(Nodes) \in Nat /\ Guard \in Nat /\ Guard = Cardinality(Nodes) + 1
BY AutomationConstants, FS_CardinalityType DEF Guard

LEMMA NoChainType ==
  /\ NoChain \in Chains
  /\ \A place \in Moments, cause \in Triggers \cup {"manual"} :
        [NoChain EXCEPT !.pc = place, !.cause = cause] \in Chains
  /\ \A place \in Moments, cause \in Triggers \cup {"manual"}, left \in SUBSET Scenarios :
        [NoChain EXCEPT !.pc = place, !.cause = cause, !.left = left] \in Chains
  /\ \A place \in Moments, left \in SUBSET Scenarios :
        [NoChain EXCEPT !.pc = place, !.left = left] \in Chains
<1>1. <<>> \in Seq(Entries) /\ 0 \in 0..Guard /\ Nowhere \in Ends
  BY GuardType DEF Ends
<1>. QED  BY <1>1 DEF NoChain, Chains, Moments

LEMMA AutomationStarts == AutomationInit => AutomationInv
<1>. SUFFICES ASSUME AutomationInit PROVE AutomationInv
  OBVIOUS
<1>1. chain.pc = "idle"
  BY DEF AutomationInit, NoChain
<1>2. RulesAreTyped
  BY NoChainType, AutomationConstants DEF AutomationInit, RulesAreTyped
<1>3. FollowInv
  BY <1>1 DEF AutomationInit, FollowInv, WhileRunning, WhileWalking, WhilePosting, Followed
<1>4. WalkIsTold /\ RunsTellTheTruth
  BY <1>1 DEF AutomationInit, NoChain, WalkIsTold, RunsTellTheTruth
<1>. QED  BY <1>2, <1>3, <1>4 DEF AutomationInv

-----------------------------------------------------------------------------
(* The actions among some steps, one step after the other.                  *)

LEMMA OneByOne ==
  ASSUME NEW last \in Nat, NEW S, 0 \in S,
         \A n \in 0 .. last : n \in S /\ n < last => n + 1 \in S
  PROVE  \A n \in 0 .. last : n \in S
<1>. DEFINE B == (0 .. last) \ S
<1>1. SUFFICES ASSUME B # {} PROVE FALSE
  OBVIOUS
<1>2. PICK n \in B : \A m \in B : n <= m
  <2>1. B \in SUBSET Nat
    OBVIOUS
  <2>. QED  BY <1>1, <2>1, SmallestNumber
<1>3. n # 0 /\ n - 1 \in 0 .. last /\ n - 1 \notin B /\ n - 1 < last
  BY <1>2
<1>. QED  BY <1>2, <1>3

\* What comes after one more step.
OneMore(acts, step, kind) == IF IsAct(step, kind) THEN Append(acts, step) ELSE acts

\* What ActsOf counts with: the actions among the first n steps.
Counting(g, steps, kind, last) ==
    /\ g = [n \in 0 .. last |-> g[n]]
    /\ \A n \in 0 .. last : g[n] = IF n = 0 THEN <<>> ELSE OneMore(g[n - 1], steps[n], kind)

LEMMA ActsExist ==
  ASSUME NEW last \in Nat, NEW steps, NEW kind
  PROVE  \E g : Counting(g, steps, kind, last)
<1>. DEFINE Is(g, k) == \A n \in 0 .. k :
                            g[n] = IF n = 0 THEN <<>> ELSE OneMore(g[n - 1], steps[n], kind)
            S == {k \in 0 .. last : \E g : Is(g, k)}
<1>1. 0 \in S
  <2>. DEFINE g == [n \in {0} |-> <<>>]
  <2>1. Is(g, 0)
    OBVIOUS
  <2>. HIDE DEF g
  <2>2. \E h : Is(h, 0)
    BY <2>1
  <2>3. 0 \in 0 .. last
    OBVIOUS
  <2>. QED  BY <2>2, <2>3
<1>2. ASSUME NEW k \in 0 .. last, k \in S, k < last PROVE k + 1 \in S
  <2>1. PICK g : Is(g, k)
    BY <1>2
  <2>. DEFINE h == [n \in 0 .. k + 1 |->
                       IF n = k + 1 THEN OneMore(g[k], steps[k + 1], kind) ELSE g[n]]
  <2>2. \A n \in 0 .. k : h[n] = g[n] /\ (n # 0 => h[n - 1] = g[n - 1])
    BY <1>2
  <2>3. h[k + 1] = OneMore(g[k], steps[k + 1], kind) /\ h[k] = g[k]
    BY <1>2
  <2>. HIDE DEF h
  <2>4. ASSUME NEW n \in 0 .. k + 1
        PROVE  h[n] = IF n = 0 THEN <<>> ELSE OneMore(h[n - 1], steps[n], kind)
    <3>1. CASE n = k + 1
      BY <1>2, <2>3, <3>1
    <3>2. CASE n \in 0 .. k
      BY <1>2, <2>1, <2>2, <3>2
    <3>. QED  BY <1>2, <2>4, <3>1, <3>2
  <2>. QED  BY <1>2, <2>4
<1>3. \A k \in 0 .. last : k \in S
  <2>. HIDE DEF S
  <2>. QED  BY <1>1, <1>2, OneByOne
<1>4. PICK g : Is(g, last)
  <2>1. last \in 0 .. last
    OBVIOUS
  <2>2. last \in S
    BY <1>3, <2>1
  <2>. QED  BY <2>2
<1>. DEFINE f == [n \in 0 .. last |-> g[n]]
<1>5. f = [n \in 0 .. last |-> f[n]]
  OBVIOUS
<1>6. ASSUME NEW n \in 0 .. last
      PROVE  f[n] = IF n = 0 THEN <<>> ELSE OneMore(f[n - 1], steps[n], kind)
  <2>1. n # 0 => n - 1 \in 0 .. last
    OBVIOUS
  <2>2. n # 0 => f[n - 1] = g[n - 1]
    BY <2>1
  <2>. QED  BY <1>4, <2>2
<1>. HIDE DEF f
<1>. QED  BY <1>5, <1>6 DEF Counting

LEMMA ActsStepByStep ==
  ASSUME NEW steps, NEW kind, Len(steps) \in Nat
  PROVE  \E g : /\ ActsOf(steps, kind) = g[Len(steps)]
                /\ g[0] = <<>>
                /\ \A n \in 0 .. Len(steps) :
                      n < Len(steps) => g[n + 1] = OneMore(g[n], steps[n + 1], kind)
<1>. DEFINE last == Len(steps)
            Def(g) == [n \in 0 .. last |->
                          IF n = 0 THEN <<>> ELSE OneMore(g[n - 1], steps[n], kind)]
            acts == CHOOSE g : g = Def(g)
<1>1. acts = Def(acts)
  <2>1. \E g : g = Def(g)
    <3>1. last \in Nat
      OBVIOUS
    <3>. HIDE DEF last
    <3>2. PICK g : Counting(g, steps, kind, last)
      BY <3>1, ActsExist
    <3>3. g = Def(g)
      BY <3>2 DEF Counting
    <3>. HIDE DEF Def
    <3>. QED  BY <3>3
  <2>2. acts = CHOOSE g : g = Def(g)
    OBVIOUS
  <2>. HIDE DEF acts
  <2>. QED  BY <2>1, <2>2
<1>2. ActsOf(steps, kind) = acts[last]
  BY DEF ActsOf, OneMore
<1>. HIDE DEF acts, last
<1>3. \A n \in 0 .. last : acts[n] = IF n = 0 THEN <<>> ELSE OneMore(acts[n - 1], steps[n], kind)
  BY <1>1
<1>4. last \in Nat
  BY DEF last
<1>5. acts[0] = <<>>
  BY <1>3, <1>4
<1>6. ASSUME NEW n \in 0 .. last, n < last
      PROVE  acts[n + 1] = OneMore(acts[n], steps[n + 1], kind)
  <2>1. n + 1 \in 0 .. last /\ n + 1 # 0 /\ (n + 1) - 1 = n
    BY <1>4, <1>6
  <2>2. acts[n + 1] = OneMore(acts[(n + 1) - 1], steps[n + 1], kind)
    BY <1>3, <2>1
  <2>. QED  BY <2>1, <2>2
<1>. QED  BY <1>2, <1>5, <1>6 DEF last

\* No steps have no actions; one step more adds itself, if it is one.
LEMMA ActsOfNone == ASSUME NEW kind PROVE ActsOf(<<>>, kind) = <<>>
BY ActsStepByStep

LEMMA ActsOfOneMore ==
  ASSUME NEW S, NEW steps \in Seq(S), NEW step \in S, NEW kind
  PROVE  ActsOf(Append(steps, step), kind) = OneMore(ActsOf(steps, kind), step, kind)
<1>. DEFINE longer == Append(steps, step)
            last == Len(steps)
<1>1. /\ last \in Nat /\ Len(longer) = last + 1 /\ longer[last + 1] = step
      /\ \A n \in 1 .. last : longer[n] = steps[n]
  BY LenProperties, AppendProperties
<1>2. PICK g : /\ ActsOf(steps, kind) = g[last] /\ g[0] = <<>>
               /\ \A n \in 0 .. last : n < last => g[n + 1] = OneMore(g[n], steps[n + 1], kind)
  BY <1>1, ActsStepByStep
<1>. HIDE DEF longer
<1>3. PICK h : /\ ActsOf(longer, kind) = h[last + 1] /\ h[0] = <<>>
               /\ \A n \in 0 .. last + 1 :
                     n < last + 1 => h[n + 1] = OneMore(h[n], longer[n + 1], kind)
  BY <1>1, ActsStepByStep
<1>. DEFINE S0 == {n \in 0 .. last : g[n] = h[n]}
<1>4. 0 \in S0
  BY <1>1, <1>2, <1>3
<1>5. ASSUME NEW n \in 0 .. last, n \in S0, n < last PROVE n + 1 \in S0
  <2>1. n + 1 \in 1 .. last /\ n \in 0 .. last + 1 /\ n < last + 1 /\ n + 1 \in 0 .. last
    BY <1>1, <1>5
  <2>2. /\ g[n + 1] = OneMore(g[n], steps[n + 1], kind)
        /\ h[n + 1] = OneMore(h[n], longer[n + 1], kind)
    BY <1>2, <1>3, <1>5, <2>1
  <2>. QED  BY <1>1, <1>5, <2>1, <2>2
<1>6. \A n \in 0 .. last : n \in S0
  <2>. HIDE DEF S0, last
  <2>. QED  BY <1>1, <1>4, <1>5, OneByOne
<1>7. g[last] = h[last] /\ h[last + 1] = OneMore(h[last], longer[last + 1], kind)
  BY <1>1, <1>3, <1>6
<1>. QED  BY <1>1, <1>2, <1>3, <1>7 DEF longer

-----------------------------------------------------------------------------
(* Each step of the request, and of those who edit meanwhile.               *)

\* Nothing but how far the walk has come changes.
LEMMA FollowFrame ==
  ASSUME FollowInv, StaysPut, chain'.pc = chain.pc, chain'.cause = chain.cause,
         chain'.left = chain.left, chain'.of = chain.of
  PROVE  FollowInv'
<1>1. /\ scenarios' = scenarios /\ hooks' = hooks /\ touched' = touched
      /\ scenarioRuns' = scenarioRuns /\ posted' = posted /\ event' = event
  BY DEF StaysPut, Rules
<1>2. \A s \in Scenarios : /\ RunsOf(s)' = RunsOf(s) /\ Due(s)' = Due(s)
                           /\ RunDone(s)' = RunDone(s) /\ Ahead(s)' = Ahead(s)
  BY <1>1 DEF RunsOf, Due, WaitsFor, RunDone, Ahead
<1>3. \A h \in Hooks : CallsOf(h)' = CallsOf(h) /\ CallDone(h)' = CallDone(h)
  BY <1>1 DEF CallsOf, CallDone
<1>4. WhileRunning'
  BY <1>1, <1>2 DEF FollowInv, WhileRunning
<1>5. WhileWalking'
  BY <1>1, <1>2 DEF FollowInv, WhileWalking, NewRun, RunsOf
<1>6. WhilePosting'
  BY <1>1, <1>3 DEF FollowInv, WhilePosting
<1>7. Followed'
  BY <1>1, <1>2, <1>3 DEF FollowInv, Followed
<1>. QED  BY <1>4, <1>5, <1>6, <1>7 DEF FollowInv

\* A request that breaks off has nothing left to do.
LEMMA BreaksInv ==
  ASSUME AutomationInv, Breaks, UNCHANGED <<Rules, scenarioRuns, event>>,
         posted' \subseteq CallRows, \A p \in posted' : p.event <= event,
         \A p \in posted', r \in scenarioRuns : p.event = r.event => r.finished
  PROVE  AutomationInv'
<1>1. /\ scenarios' = scenarios /\ hooks' = hooks /\ touched' = touched
      /\ scenarioRuns' = scenarioRuns /\ event' = event
  BY DEF Rules
<1>2. /\ chain' \in Chains /\ chain'.pc = "broken" /\ chain'.log = <<>> /\ chain'.did = <<>>
      /\ chain'.visits = 0 /\ chain'.failed = FALSE
  <2>1. chain.cause \in Triggers \cup {"manual"}
    BY DEF AutomationInv, RulesAreTyped, Chains
  <2>. QED  BY <2>1, NoChainType DEF Breaks, Moments, NoChain
<1>3. RulesAreTyped'
  BY <1>1, <1>2 DEF AutomationInv, RulesAreTyped
<1>4. FollowInv'
  BY <1>1, <1>2 DEF FollowInv, WhileRunning, WhileWalking, WhilePosting, Followed
<1>5. WalkIsTold'
  BY <1>2 DEF WalkIsTold
<1>6. RunsTellTheTruth'
  BY <1>1 DEF AutomationInv, RunsTellTheTruth
<1>. QED  BY <1>3, <1>4, <1>5, <1>6 DEF AutomationInv

LEMMA RaisesInv == AutomationInv /\ Raises => AutomationInv'
<1>. SUFFICES ASSUME AutomationInv, Raises PROVE AutomationInv'
  OBVIOUS
<1>1. Breaks /\ UNCHANGED <<Rules, scenarioRuns, event>> /\ posted' = posted
  BY DEF Raises, StaysPut, Rules
<1>. QED  BY <1>1, BreaksInv DEF AutomationInv, RulesAreTyped, FollowInv, Followed

\* Something happens: nothing has followed yet.
LEMMA BeginsInv ==
  ASSUME AutomationInv, event' = event + 1, touched' = {}, NEW cause \in Triggers \cup {"manual"},
         NEW left \in SUBSET Scenarios,
         chain' \in Chains, chain'.pc = "runs", chain'.cause = cause, chain'.left = left,
         chain'.log = <<>>, chain'.did = <<>>, chain'.visits = 0, chain'.failed = FALSE,
         cause \in Triggers => left = Matching(cause),
         UNCHANGED <<scenarios, hooks, scenarioRuns, posted, ruleEdits>>
  PROVE  AutomationInv'
<1>1. /\ event \in Nat
      /\ \A r \in scenarioRuns : r.event # event' /\ r.event <= event'
      /\ \A p \in posted : p.event # event' /\ p.event <= event'
  BY DEF AutomationInv, RulesAreTyped, RunRows, CallRows
<1>2. RulesAreTyped'
  <2>1. event' \in Nat
    BY <1>1
  <2>2. /\ scenarios' = scenarios /\ hooks' = hooks
        /\ scenarioRuns' = scenarioRuns /\ posted' = posted
    OBVIOUS
  <2>. QED  BY <1>1, <2>1, <2>2 DEF AutomationInv, RulesAreTyped
<1>3. \A s \in Scenarios : RunsOf(s)' = {}
  BY <1>1 DEF RunsOf
<1>4. WhileRunning'
  <2>1. \A s \in Scenarios : cause \in Triggers => (Due(s)' <=> s \in left)
    BY DEF Due, Matching, WaitsFor
  <2>2. \A s \in Scenarios : Ahead(s)' <=> s \in left
    BY DEF Ahead
  <2>3. \A s \in Scenarios : cause \in Triggers =>
           IF Ahead(s)' THEN Due(s)' ELSE RunDone(s)'
    BY <1>3, <2>1, <2>2 DEF RunDone
  <2>4. \A s \in chain'.left : RunsOf(s)' = {}
    BY <1>3
  <2>5. \A p \in posted' : p.event # event'
    BY <1>1
  <2>6. chain'.cause \in Triggers =>
           \A s \in Scenarios \ touched' : IF Ahead(s)' THEN Due(s)' ELSE RunDone(s)'
    BY <2>3
  <2>. QED  BY <2>4, <2>5, <2>6 DEF WhileRunning
<1>5. WhileWalking' /\ WhilePosting' /\ Followed'
  BY <1>1 DEF AutomationInv, FollowInv, WhileWalking, WhilePosting, Followed
<1>6. WalkIsTold' /\ RunsTellTheTruth'
  BY DEF AutomationInv, WalkIsTold, RunsTellTheTruth
<1>. QED  BY <1>2, <1>4, <1>5, <1>6 DEF AutomationInv, FollowInv

LEMMA HappenInv == AutomationInv /\ Happen => AutomationInv'
<1>. SUFFICES ASSUME AutomationInv, Happen PROVE AutomationInv'
  OBVIOUS
<1>1. PICK cause \in Triggers :
         chain' = [NoChain EXCEPT !.pc = "runs", !.cause = cause, !.left = Matching(cause)]
  BY DEF Happen
<1>2. Matching(cause) \in SUBSET Scenarios /\ cause \in Triggers \cup {"manual"}
  BY DEF Matching
<1>3. chain' \in Chains
  BY <1>1, <1>2, NoChainType DEF Moments
<1>4. /\ chain'.pc = "runs" /\ chain'.cause = cause /\ chain'.left = Matching(cause)
      /\ chain'.log = <<>> /\ chain'.did = <<>> /\ chain'.visits = 0 /\ chain'.failed = FALSE
  BY <1>1 DEF NoChain
<1>. QED  BY <1>2, <1>3, <1>4, BeginsInv DEF Happen

LEMMA RunNowInv == ASSUME AutomationInv, NEW s \in Scenarios, RunNow(s) PROVE AutomationInv'
<1>1. chain' = [NoChain EXCEPT !.pc = "runs", !.left = {s}]
  BY DEF RunNow
<1>2. {s} \in SUBSET Scenarios /\ "manual" \notin Triggers
  BY DEF Triggers
<1>3. chain' \in Chains
  BY <1>1, <1>2, NoChainType DEF Moments
<1>4. /\ chain'.pc = "runs" /\ chain'.cause = "manual" /\ chain'.left = {s}
      /\ chain'.log = <<>> /\ chain'.did = <<>> /\ chain'.visits = 0 /\ chain'.failed = FALSE
  BY <1>1 DEF NoChain
<1>. QED  BY <1>2, <1>3, <1>4, BeginsInv DEF RunNow

\* The row that says a walk has begun.
LEMMA BeginRunInv ==
  ASSUME AutomationInv, NEW s \in Scenarios, BeginRun(s)
  PROVE  AutomationInv'
<1>. DEFINE flow == scenarios[s].flow
<1>1. /\ chain.pc = "runs" /\ s \in chain.left
      /\ scenarios' = scenarios /\ hooks' = hooks /\ touched' = touched
      /\ posted' = posted /\ event' = event
  BY DEF BeginRun, Rules
<1>2. CASE scenarios[s].state = "deleted"
  <2>1. Breaks /\ UNCHANGED <<Rules, scenarioRuns, event>> /\ posted' = posted
    BY <1>2 DEF BeginRun, Rules
  <2>. QED  BY <2>1, BreaksInv DEF AutomationInv, RulesAreTyped, FollowInv, Followed
<1>3. CASE scenarios[s].state # "deleted"
  <2>1. /\ scenarioRuns' = scenarioRuns \cup {NewRun(s)}
        /\ NewRun(s).event = event /\ NewRun(s).of = s /\ NewRun(s).finished = FALSE
        /\ NewRun(s).log = <<>>
    BY <1>3 DEF BeginRun, NewRun
  <2>2. /\ chain'.pc = "walk" /\ chain'.cause = chain.cause /\ chain'.left = chain.left \ {s}
        /\ chain'.of = s /\ chain'.at = flow.entry /\ chain'.visits = chain.visits
        /\ chain'.did = chain.did
        /\ \/ flow.entry # Nowhere /\ chain'.log = chain.log /\ chain'.failed = chain.failed
           \/ /\ chain'.log = <<[node |-> Nowhere, status |-> "failed"]>>
              /\ chain'.failed = TRUE
    BY <1>3 DEF BeginRun, AutomationInv, RulesAreTyped, Chains
  <2>3. chain.log = <<>> /\ chain.did = <<>> /\ chain.visits = 0 /\ chain.failed = FALSE
    BY <1>1 DEF AutomationInv, WalkIsTold
  <2>4. /\ \A t \in Scenarios \ {s} : RunsOf(t)' = RunsOf(t)
        /\ RunsOf(s)' = {NewRun(s)}
    <3>1. RunsOf(s) = {}
      BY <1>1 DEF AutomationInv, FollowInv, WhileRunning
    <3>. QED  BY <1>1, <2>1, <3>1 DEF RunsOf
  <2>5. /\ \A t \in Scenarios : (Ahead(t)' <=> Ahead(t)) /\ (Due(t)' <=> Due(t))
        /\ \A t \in Scenarios \ {s} : RunDone(t)' = RunDone(t)
    <3>1. \A t \in Scenarios : (Ahead(t)' <=> Ahead(t)) /\ (Due(t)' <=> Due(t))
      BY <1>1, <2>2 DEF Ahead, Due, WaitsFor
    <3>2. \A t \in Scenarios \ {s} : RunDone(t)' = RunDone(t)
      <4>1. ASSUME NEW t \in Scenarios \ {s}, NEW r, RunsOf(t) = {r}
            PROVE  r \in scenarioRuns /\ r \in scenarioRuns'
        BY <2>1, <4>1 DEF RunsOf
      <4>. QED  BY <2>4, <3>1, <4>1 DEF RunDone
    <3>. QED  BY <3>1, <3>2
  <2>6. RulesAreTyped'
    <3>1. NewRun(s) \in RunRows
      <4>1. event \in Nat /\ <<>> \in Seq(Entries)
        BY DEF AutomationInv, RulesAreTyped
      <4>. QED  BY <4>1 DEF NewRun, RunRows
    <3>2. chain' \in Chains
      <4>1. [node |-> Nowhere, status |-> "failed"] \in Entries
        BY DEF Entries, Ends
      <4>2. <<[node |-> Nowhere, status |-> "failed"]>> \in Seq(Entries)
        BY <4>1
      <4>3. flow.entry \in Ends
        BY DEF AutomationInv, RulesAreTyped, ScenarioRow, Flow
      <4>. DEFINE new == [chain EXCEPT !.left = @ \ {s}, !.of = s, !.pc = "walk", !.at = flow.entry]
      <4>4. chain \in Chains /\ chain.left \in SUBSET Scenarios
        BY <1>1 DEF AutomationInv, RulesAreTyped, FollowInv, WhileRunning
      <4>5. new \in Chains
        BY <4>3, <4>4 DEF Chains, Moments
      <4>6. chain' = new \/ chain' = [new EXCEPT !.failed = TRUE,
                                  !.log = <<[node |-> Nowhere, status |-> "failed"]>>]
        BY <1>3 DEF BeginRun
      <4>. HIDE DEF new
      <4>. QED  BY <4>2, <4>5, <4>6 DEF Chains
    <3>. QED  BY <1>1, <1>3, <2>1, <3>1, <3>2 DEF AutomationInv, RulesAreTyped
  <2>7. WhileRunning'
    <3>1. \A t \in chain'.left : RunsOf(t)' = {}
      BY <1>1, <2>2, <2>4 DEF AutomationInv, FollowInv, WhileRunning
    <3>2. Ahead(s)
      BY <1>1 DEF Ahead
    <3>. QED  BY <1>1, <2>2, <2>5, <3>1, <3>2 DEF AutomationInv, FollowInv, WhileRunning
  <2>8. WhileWalking'
    <3>1. chain'.of \in Scenarios \ chain'.left
      BY <2>2
    <3>2. NewRun(s)' = NewRun(s)
      BY <1>1 DEF NewRun
    <3>3. \A r \in scenarioRuns' : r.event = event' /\ ~r.finished => r = NewRun(s)
      BY <1>1, <2>1 DEF AutomationInv, FollowInv, Followed
    <3>. QED  BY <2>2, <2>4, <3>1, <3>2, <3>3 DEF WhileWalking, NewRun
  <2>9. WhilePosting' /\ Followed'
    <3>1. \A p \in posted : p.event # event
      BY <1>1 DEF AutomationInv, FollowInv, WhileRunning
    <3>. QED  BY <1>1, <2>1, <2>2, <3>1 DEF AutomationInv, FollowInv, WhilePosting, Followed
  <2>10. WalkIsTold'
    <3>1. ASSUME NEW kind PROVE ActsOf(chain'.log, kind) = ActsOf(chain'.did, kind)
      <4>1. CASE chain'.log = <<>>
        BY <2>2, <2>3, <4>1
      <4>2. CASE chain'.log = <<[node |-> Nowhere, status |-> "failed"]>>
        <5>. DEFINE e == [node |-> Nowhere, status |-> "failed"]
        <5>1. chain'.log = Append(<<>>, e) /\ <<>> \in Seq({e}) /\ e \in {e}
          BY <4>2
        <5>2. ~IsAct(e, kind)
          BY DEF IsAct
        <5>. HIDE DEF e
        <5>3. ActsOf(Append(<<>>, e), kind) = OneMore(ActsOf(<<>>, kind), e, kind)
          BY <5>1, ActsOfOneMore
        <5>4. ActsOf(chain'.log, kind) = <<>>
          BY <5>1, <5>2, <5>3, ActsOfNone DEF OneMore
        <5>. QED  BY <2>2, <2>3, <5>4, ActsOfNone
      <4>. QED  BY <2>2, <2>3, <4>1, <4>2
    <3>2. chain'.failed = \E i \in DOMAIN chain'.log : chain'.log[i].status = "failed"
      <4>1. CASE flow.entry # Nowhere /\ chain'.log = chain.log /\ chain'.failed = chain.failed
        <5>1. ~ \E i \in DOMAIN chain'.log : chain'.log[i].status = "failed"
          BY <2>3, <4>1
        <5>. QED  BY <2>3, <4>1, <5>1
      <4>2. CASE chain'.log = <<[node |-> Nowhere, status |-> "failed"]>> /\ chain'.failed = TRUE
        <5>1. 1 \in DOMAIN chain'.log /\ chain'.log[1].status = "failed"
          BY <4>2
        <5>. QED  BY <4>2, <5>1
      <4>. QED  BY <2>2, <4>1, <4>2
    <3>. QED  BY <2>2, <2>3, <3>1, <3>2 DEF WalkIsTold
  <2>11. RunsTellTheTruth'
    BY <1>1, <2>1 DEF AutomationInv, RunsTellTheTruth
  <2>. QED  BY <2>6, <2>7, <2>8, <2>9, <2>10, <2>11 DEF AutomationInv, FollowInv
<1>. QED  BY <1>2, <1>3

\* A node is done with; if it is an action, it is on the log as well.
LEMMA WalkOnInv ==
  ASSUME AutomationInv, Walking, NEW how \in {"ok", "failed", "skipped"}, NEW log,
         NEW to \in Ends, WalkOn(how, log, to),
         \/ log = Logged(how)
         \/ log = chain.log /\ how # "failed" /\ Kind # "action"
  PROVE  AutomationInv'
<1>. DEFINE step == Noted(how)
<1>1. /\ StaysPut
      /\ scenarios' = scenarios /\ hooks' = hooks /\ touched' = touched
      /\ scenarioRuns' = scenarioRuns /\ posted' = posted /\ event' = event
  BY DEF WalkOn, StaysPut, Rules
<1>2. chain \in Chains /\ chain.pc = "walk" /\ chain.at \in Nodes /\ chain.visits < Guard
  BY DEF Walking, AutomationInv, RulesAreTyped, Chains, Ends
<1>3. step \in Entries /\ step.node = chain.at /\ step.status = how
  BY <1>2 DEF Noted, Entries, Ends
<1>4. /\ chain.log \in Seq(Entries) /\ chain.did \in Seq(Entries)
      /\ Append(chain.did, step) \in Seq(Entries)
      /\ log = chain.log \/ log = Append(chain.log, step)
      /\ log \in Seq(Entries)
  BY <1>2, <1>3 DEF Chains, Logged
<1>5. /\ chain'.pc = "walk" /\ chain'.cause = chain.cause /\ chain'.left = chain.left
      /\ chain'.of = chain.of /\ chain'.at = to /\ chain'.visits = chain.visits + 1
      /\ chain'.log = log /\ chain'.did = Append(chain.did, step)
      /\ chain'.failed = (chain.failed \/ how = "failed")
  BY <1>2 DEF WalkOn, Chains
<1>6. chain' \in Chains
  <2>1. chain.visits + 1 \in 0 .. Guard
    BY <1>2, GuardType DEF Chains
  <2>2. (chain.failed \/ how = "failed") \in BOOLEAN
    OBVIOUS
  <2>. QED  BY <1>2, <1>4, <2>1, <2>2 DEF WalkOn, Chains
<1>7. RulesAreTyped'
  BY <1>1, <1>6 DEF AutomationInv, RulesAreTyped
<1>8. FollowInv'
  BY <1>1, <1>2, <1>5, FollowFrame DEF AutomationInv
<1>9. WalkIsTold'
  <2>. DEFINE kind == OurFlow.kind
  <2>1. /\ kind' = kind
        /\ ActsOf(chain.log, kind) = ActsOf(chain.did, kind)
        /\ chain.failed = \E i \in DOMAIN chain.log : chain.log[i].status = "failed"
        /\ Len(chain.did) = chain.visits
        /\ \A i \in DOMAIN chain.did : chain.did[i].node \in Nodes
    BY <1>1, <1>2, <1>5 DEF AutomationInv, WalkIsTold, OurFlow
  <2>2. log = chain.log => ~IsAct(step, kind) /\ how # "failed"
    <3>1. chain.log # Append(chain.log, step)
      BY <1>4, LenProperties, AppendProperties
    <3>. QED  BY <1>3, <3>1 DEF IsAct, Kind, Logged
  <2>. HIDE DEF step, kind
  <2>3. ActsOf(log, kind) = ActsOf(Append(chain.did, step), kind)
    <3>1. ActsOf(Append(chain.did, step), kind) = OneMore(ActsOf(chain.did, kind), step, kind)
      BY <1>3, <1>4, ActsOfOneMore
    <3>2. ActsOf(Append(chain.log, step), kind) = OneMore(ActsOf(chain.log, kind), step, kind)
      BY <1>3, <1>4, ActsOfOneMore
    <3>3. CASE log = chain.log
      <4>1. OneMore(ActsOf(chain.did, kind), step, kind) = ActsOf(chain.did, kind)
        BY <2>2, <3>3 DEF OneMore
      <4>. QED  BY <2>1, <3>1, <3>3, <4>1
    <3>4. CASE log = Append(chain.log, step)
      <4>1. ActsOf(log, kind) = OneMore(ActsOf(chain.log, kind), step, kind)
        BY <3>2, <3>4
      <4>. QED  BY <2>1, <3>1, <4>1
    <3>. QED  BY <1>4, <3>3, <3>4
  <2>4. (\E i \in DOMAIN log : log[i].status = "failed")
          <=> (chain.failed \/ how = "failed")
    <3>1. CASE log = chain.log
      BY <2>1, <2>2, <3>1
    <3>2. CASE log = Append(chain.log, step)
      <4>. DEFINE last == Len(chain.log)
      <4>1. /\ last \in Nat /\ DOMAIN chain.log = 1 .. last /\ DOMAIN log = 1 .. last + 1
            /\ log[last + 1] = step /\ \A i \in 1 .. last : log[i] = chain.log[i]
        BY <1>3, <1>4, <3>2, LenProperties, AppendProperties
      <4>. HIDE DEF last
      <4>2. (\E i \in 1 .. last + 1 : log[i].status = "failed")
              <=> \/ \E i \in 1 .. last : log[i].status = "failed"
                  \/ log[last + 1].status = "failed"
        BY <4>1
      <4>3. (\E i \in 1 .. last : log[i].status = "failed")
              <=> (\E i \in 1 .. last : chain.log[i].status = "failed")
        BY <4>1
      <4>. QED  BY <1>3, <2>1, <4>1, <4>2, <4>3
    <3>. QED  BY <1>4, <3>1, <3>2
  <2>5. /\ Len(Append(chain.did, step)) = chain.visits + 1
        /\ \A i \in DOMAIN Append(chain.did, step) : Append(chain.did, step)[i].node \in Nodes
    <3>. DEFINE last == Len(chain.did)
    <3>1. /\ last \in Nat /\ DOMAIN chain.did = 1 .. last
          /\ Len(Append(chain.did, step)) = last + 1
          /\ DOMAIN Append(chain.did, step) = 1 .. last + 1
          /\ Append(chain.did, step)[last + 1] = step
          /\ \A i \in 1 .. last : Append(chain.did, step)[i] = chain.did[i]
      BY <1>3, <1>4, LenProperties, AppendProperties
    <3>2. ASSUME NEW i \in 1 .. last + 1 PROVE i = last + 1 \/ i \in 1 .. last
      BY <3>1
    <3>. HIDE DEF last
    <3>. QED  BY <1>2, <1>3, <2>1, <3>1, <3>2 DEF last
  <2>6. chain'.failed = \E i \in DOMAIN chain'.log : chain'.log[i].status = "failed"
    BY <1>5, <2>4
  <2>7. ActsOf(chain'.log, OurFlow'.kind) = ActsOf(chain'.did, OurFlow'.kind)
    BY <1>5, <2>1, <2>3 DEF kind
  <2>. QED  BY <1>5, <2>5, <2>6, <2>7 DEF WalkIsTold
<1>10. RunsTellTheTruth'
  BY <1>1 DEF AutomationInv, RunsTellTheTruth
<1>. QED  BY <1>7, <1>8, <1>9, <1>10 DEF AutomationInv

\* Each kind of node.
LEMMA WalksInv ==
  AutomationInv /\ (Enter \/ Act \/ PassBy \/ Judge \/ Sift \/ Stop) => AutomationInv'
<1>. SUFFICES ASSUME AutomationInv, Enter \/ Act \/ PassBy \/ Judge \/ Sift \/ Stop
              PROVE  AutomationInv'
  OBVIOUS
<1>1. Walking
  BY DEF Enter, Act, PassBy, Judge, Sift, Stop
<1>2. /\ OurFlow.yes[chain.at] \in Ends /\ OurFlow.no[chain.at] \in Ends /\ Nowhere \in Ends
  <2>1. chain.of \in Scenarios /\ chain.at \in Nodes
    BY <1>1 DEF Walking, AutomationInv, FollowInv, WhileWalking, RulesAreTyped, Chains, Ends
  <2>2. OurFlow \in Flow
    BY <2>1 DEF AutomationInv, RulesAreTyped, ScenarioRow, OurFlow
  <2>. QED  BY <2>1, <2>2 DEF Flow, Ends
<1>3. CASE Raises
  BY <1>3, RaisesInv
<1>4. CASE Enter
  <2>1. Kind # "action" /\ WalkOn("ok", chain.log, OurFlow.yes[chain.at])
    BY <1>4 DEF Enter
  <2>. QED  BY <1>1, <1>2, <2>1, WalkOnInv
<1>5. ASSUME NEW how \in {"ok", "failed", "skipped"}, NEW to \in Ends,
             WalkOn(how, Logged(how), to)
      PROVE  AutomationInv'
  BY <1>1, <1>5, WalkOnInv
<1>6. CASE Act
  BY <1>2, <1>5, <1>6 DEF Act
<1>7. CASE PassBy
  BY <1>2, <1>5, <1>7 DEF PassBy
<1>8. CASE Judge
  BY <1>2, <1>3, <1>5, <1>8 DEF Judge
<1>9. CASE Sift
  BY <1>2, <1>3, <1>5, <1>9 DEF Sift
<1>10. CASE Stop
  BY <1>2, <1>5, <1>10 DEF Stop
<1>. QED  BY <1>4, <1>6, <1>7, <1>8, <1>9, <1>10

\* More steps than there are nodes pass one of them twice.
LEMMA RoundInCircles ==
  ASSUME NEW steps \in Seq(Entries), Len(steps) = Guard,
         \A i \in DOMAIN steps : steps[i].node \in Nodes
  PROVE  \E i, j \in DOMAIN steps : i # j /\ steps[i].node = steps[j].node
<1>. DEFINE S == 1 .. Guard
            f == [i \in S |-> steps[i].node]
<1>1. DOMAIN steps = S
  BY LenProperties
<1>2. IsFiniteSet(S) /\ Cardinality(S) = Cardinality(Nodes) + 1
  <2>1. 1 \in Int /\ Guard \in Int /\ Guard = Cardinality(Nodes) + 1 /\ Cardinality(Nodes) \in Nat
    BY GuardType
  <2>2. /\ IsFiniteSet(1 .. Guard)
        /\ Cardinality(1 .. Guard) = IF 1 > Guard THEN 0 ELSE Guard - 1 + 1
    BY <2>1, FS_Interval
  <2>. QED  BY <2>1, <2>2
<1>3. f \in [S -> Nodes]
  BY <1>1
<1>4. IsFiniteSet(Nodes) /\ Cardinality(Nodes) < Cardinality(S)
  BY <1>2, AutomationConstants, GuardType
<1>5. \A i \in S : f[i] = steps[i].node
  OBVIOUS
<1>. HIDE DEF S, f
<1>6. PICK i \in S, j \in S : i # j /\ f[i] = f[j]
  BY <1>2, <1>3, <1>4, FS_PigeonHole
<1>. QED  BY <1>1, <1>5, <1>6

\* One run tells it.
Told(r, kind) ==
    IF r.finished
    THEN /\ ActsOf(r.log, kind) = ActsOf(r.did, kind)
         /\ r.failed = \E i \in DOMAIN r.log : r.log[i].status = "failed"
         /\ r.cut => \E i, j \in DOMAIN r.did : i # j /\ r.did[i].node = r.did[j].node
    ELSE r.log = <<>>

\* The run is saved with what was done.
LEMMA CloseRunInv == AutomationInv /\ CloseRun => AutomationInv'
<1>. SUFFICES ASSUME AutomationInv, CloseRun PROVE AutomationInv'
  OBVIOUS
<1>0. PICK s \in Scenarios : s = chain.of
  BY DEF CloseRun, AutomationInv, FollowInv, WhileWalking
<1>. DEFINE done == [NewRun(s) EXCEPT !.finished = TRUE, !.failed = chain.failed,
                        !.log = chain.log, !.did = chain.did, !.cut = chain.at # Nowhere]
<1>1. /\ chain.pc = "walk" /\ chain \in Chains /\ s \in Scenarios \ chain.left
      /\ scenarios' = scenarios /\ hooks' = hooks /\ touched' = touched
      /\ posted' = posted /\ event' = event
  BY <1>0 DEF CloseRun, Rules, AutomationInv, RulesAreTyped, FollowInv, WhileWalking
<1>2. CASE scenarios[s].state = "deleted"
  <2>1. Breaks /\ UNCHANGED <<Rules, scenarioRuns, event>> /\ posted' = posted
    BY <1>0, <1>2 DEF CloseRun, Rules
  <2>. QED  BY <2>1, BreaksInv DEF AutomationInv, RulesAreTyped, FollowInv, Followed
<1>3. CASE scenarios[s].state # "deleted"
  <2>1. /\ scenarioRuns' = (scenarioRuns \ {NewRun(s)}) \cup {done}
        /\ chain' = [NoChain EXCEPT !.pc = "runs", !.cause = chain.cause, !.left = chain.left]
    BY <1>0, <1>3 DEF CloseRun
  <2>2. /\ done.event = event /\ done.of = s /\ done.finished = TRUE /\ done.log = chain.log
        /\ done.did = chain.did /\ done.failed = chain.failed
        /\ done.cut = (chain.at # Nowhere) /\ done \in RunRows
    <3>1. event \in Nat
      BY DEF AutomationInv, RulesAreTyped
    <3>2. /\ chain.log \in Seq(Entries) /\ chain.did \in Seq(Entries) /\ chain.failed \in BOOLEAN
          /\ (chain.at # Nowhere) \in BOOLEAN
      BY <1>1 DEF Chains
    <3>. QED  BY <1>1, <3>1, <3>2 DEF NewRun, RunRows
  <2>3. NewRun(s).event = event /\ NewRun(s).of = s /\ NewRun(s).finished = FALSE
    BY DEF NewRun
  <2>. HIDE DEF done
  <2>4. /\ chain'.pc = "runs" /\ chain'.cause = chain.cause /\ chain'.left = chain.left
        /\ chain'.log = <<>> /\ chain'.did = <<>> /\ chain'.visits = 0 /\ chain'.failed = FALSE
    BY <2>1 DEF NoChain
  <2>5. RunsOf(s) = {NewRun(s)}
    BY <1>0, <1>1, <1>3 DEF AutomationInv, FollowInv, WhileWalking
  <2>6. /\ \A t \in Scenarios \ {s} : RunsOf(t)' = RunsOf(t)
        /\ RunsOf(s)' = {done}
    BY <1>1, <2>1, <2>2, <2>3, <2>5 DEF RunsOf
  <2>7. RulesAreTyped'
    <3>1. chain' \in Chains
      <4>1. /\ "runs" \in Moments /\ chain.cause \in Triggers \cup {"manual"}
            /\ chain.left \in SUBSET Scenarios
        BY <1>1 DEF AutomationInv, FollowInv, WhileRunning, Chains, Moments
      <4>. QED  BY <2>1, <4>1, NoChainType
    <3>2. event \in Nat /\ event <= event
      BY DEF AutomationInv, RulesAreTyped
    <3>. QED  BY <1>1, <1>3, <2>1, <2>2, <3>1, <3>2 DEF AutomationInv, RulesAreTyped
  <2>8. \A t \in Scenarios : (Due(t)' <=> Due(t)) /\ (Ahead(t)' <=> Ahead(t) /\ t # s)
    BY <1>0, <1>1, <2>4 DEF Due, WaitsFor, Ahead
  <2>9. \A t \in Scenarios \ {s} : RunDone(t) => RunDone(t)'
    <3>1. ASSUME NEW t \in Scenarios \ {s}, NEW r \in scenarioRuns, RunsOf(t) = {r}
          PROVE  r \in scenarioRuns'
      BY <2>1, <2>3, <3>1 DEF RunsOf
    <3>. QED  BY <2>6, <2>8, <3>1 DEF RunDone
  <2>10. Due(s) => RunDone(s)'
    BY <2>1, <2>2, <2>6, <2>8 DEF RunDone
  <2>11. WhileRunning'
    <3>1. \A t \in chain'.left : RunsOf(t)' = {}
      BY <1>1, <2>4, <2>6 DEF AutomationInv, FollowInv, WhileRunning
    <3>2. ASSUME chain.cause \in Triggers, NEW t \in Scenarios \ touched
          PROVE  IF Ahead(t)' THEN Due(t)' ELSE RunDone(t)'
      <4>1. IF Ahead(t) THEN Due(t) ELSE RunDone(t)
        BY <1>1, <3>2 DEF AutomationInv, FollowInv, WhileRunning
      <4>2. Ahead(s)
        BY <1>0, <1>1 DEF Ahead
      <4>. QED  BY <2>8, <2>9, <2>10, <4>1, <4>2
    <3>. QED  BY <1>1, <2>4, <3>1, <3>2 DEF AutomationInv, FollowInv, WhileRunning
  <2>12. \A r \in scenarioRuns' : r.event = event => r.finished
    BY <1>0, <1>1, <2>1, <2>2 DEF AutomationInv, FollowInv, WhileWalking
  <2>13. WhileWalking' /\ WhilePosting' /\ Followed'
    <3>1. \A p \in posted : p.event # event
      BY <1>1 DEF AutomationInv, FollowInv, WhileRunning
    <3>. QED  BY <1>1, <2>1, <2>2, <2>4, <2>12, <3>1
              DEF AutomationInv, FollowInv, WhileWalking, WhilePosting, Followed
  <2>14. WalkIsTold'
    BY <2>4 DEF WalkIsTold
  <2>15. RunsTellTheTruth'
    <3>1. /\ ActsOf(chain.log, scenarios[s].flow.kind) = ActsOf(chain.did, scenarios[s].flow.kind)
          /\ chain.failed = \E i \in DOMAIN chain.log : chain.log[i].status = "failed"
      BY <1>0, <1>1 DEF AutomationInv, WalkIsTold, OurFlow
    <3>2. done.cut => \E i, j \in DOMAIN chain.did :
                         i # j /\ chain.did[i].node = chain.did[j].node
      <4>1. SUFFICES ASSUME chain.at # Nowhere PROVE \E i, j \in DOMAIN chain.did :
                         i # j /\ chain.did[i].node = chain.did[j].node
        BY <2>2
      <4>2. chain.visits = Guard
        BY <1>1, <4>1, GuardType DEF CloseRun, Walking, Chains
      <4>. QED  BY <1>1, <4>2, RoundInCircles DEF AutomationInv, WalkIsTold, Chains
    <3>3. Told(done, scenarios[s].flow.kind)
      <4>1. ActsOf(done.log, scenarios[s].flow.kind) = ActsOf(done.did, scenarios[s].flow.kind)
        BY <2>2, <3>1
      <4>2. done.failed = \E i \in DOMAIN done.log : done.log[i].status = "failed"
        BY <2>2, <3>1
      <4>3. done.cut => \E i, j \in DOMAIN done.did : i # j /\ done.did[i].node = done.did[j].node
        BY <2>2, <3>2
      <4>. QED  BY <2>2, <4>1, <4>2, <4>3 DEF Told
    <3>4. \A r \in scenarioRuns : Told(r, scenarios[r.of].flow.kind)
      BY DEF AutomationInv, RunsTellTheTruth, Told
    <3>5. \A r \in scenarioRuns' : Told(r, scenarios'[r.of].flow.kind)
      BY <1>1, <2>1, <2>2, <3>3, <3>4
    <3>. QED  BY <3>5 DEF RunsTellTheTruth, Told
  <2>. QED  BY <2>7, <2>11, <2>13, <2>14, <2>15 DEF AutomationInv, FollowInv
<1>. QED  BY <1>2, <1>3

\* The scenarios are through, and the webhooks' turn comes, if they have one.
LEMMA ToHooksInv == AutomationInv /\ ToHooks => AutomationInv'
<1>. SUFFICES ASSUME AutomationInv, ToHooks PROVE AutomationInv'
  OBVIOUS
<1>1. /\ chain.pc = "runs" /\ chain.left = {} /\ chain \in Chains
      /\ scenarios' = scenarios /\ hooks' = hooks /\ touched' = touched
      /\ scenarioRuns' = scenarioRuns /\ posted' = posted /\ event' = event
  BY DEF ToHooks, StaysPut, Rules, AutomationInv, RulesAreTyped
<1>2. /\ chain.log = <<>> /\ chain.did = <<>> /\ chain.visits = 0 /\ chain.failed = FALSE
  BY <1>1 DEF AutomationInv, WalkIsTold
<1>3. /\ chain' \in Chains /\ chain'.cause = chain.cause
      /\ chain'.log = <<>> /\ chain'.did = <<>> /\ chain'.visits = 0 /\ chain'.failed = FALSE
      /\ \/ /\ chain'.pc = "hooks" /\ chain.cause = "new_entity"
            /\ chain'.left = {h \in Hooks : hooks[h] = "on"}
         \/ chain'.pc = "ended" /\ chain.cause # "new_entity"
  <2>1. CASE chain.cause = "new_entity"
    <3>1. {h \in Hooks : hooks[h] = "on"} \in SUBSET Hooks
      OBVIOUS
    <3>2. chain' = [chain EXCEPT !.pc = "hooks", !.left = {h \in Hooks : hooks[h] = "on"}]
      BY <2>1 DEF ToHooks
    <3>. QED  BY <1>1, <1>2, <2>1, <3>1, <3>2 DEF Chains, Moments
  <2>2. CASE chain.cause # "new_entity"
    <3>1. chain' = [NoChain EXCEPT !.pc = "ended", !.cause = chain.cause]
      BY <2>2 DEF ToHooks
    <3>2. chain' \in Chains
      <4>1. chain.cause \in Triggers \cup {"manual"} /\ "ended" \in Moments
        BY <1>1 DEF Chains, Moments
      <4>. QED  BY <3>1, <4>1, NoChainType
    <3>. QED  BY <2>2, <3>1, <3>2 DEF NoChain
  <2>. QED  BY <2>1, <2>2
<1>4. RulesAreTyped'
  BY <1>1, <1>3 DEF AutomationInv, RulesAreTyped
<1>5. \A s \in Scenarios \ touched : chain.cause \in Triggers => RunDone(s)'
  <2>1. \A s \in Scenarios \ touched : chain.cause \in Triggers => RunDone(s)
    BY <1>1 DEF AutomationInv, FollowInv, WhileRunning, Ahead
  <2>2. \A s \in Scenarios : RunDone(s)' = RunDone(s)
    BY <1>1, <1>3 DEF RunDone, RunsOf, Due, WaitsFor
  <2>. QED  BY <2>1, <2>2
<1>6. \A h \in Hooks : CallsOf(h)' = {}
  BY <1>1 DEF AutomationInv, FollowInv, WhileRunning, CallsOf
<1>7. \A h \in Hooks : hooks[h] # "on" \/ chain.cause # "new_entity" => CallDone(h)'
  BY <1>1, <1>3, <1>6 DEF CallDone
<1>8. WhilePosting'
  BY <1>1, <1>3, <1>6, <1>7 DEF WhilePosting
<1>9. Followed'
  BY <1>1, <1>3, <1>5, <1>7 DEF AutomationInv, FollowInv, Followed
<1>10. WhileRunning' /\ WhileWalking' /\ WalkIsTold'
  BY <1>3 DEF WhileRunning, WhileWalking, WalkIsTold
<1>11. RunsTellTheTruth'
  BY <1>1 DEF AutomationInv, RunsTellTheTruth
<1>. QED  BY <1>4, <1>8, <1>9, <1>10, <1>11 DEF AutomationInv, FollowInv

\* A call is made, and written down if its subscription is still there.
LEMMA PostInv == ASSUME AutomationInv, NEW h \in Hooks, Post(h) PROVE AutomationInv'
<1>. DEFINE made == [event |-> event, of |-> h, kept |-> hooks[h] # "deleted"]
<1>1. /\ chain.pc = "hooks" /\ h \in chain.left /\ chain \in Chains
      /\ scenarios' = scenarios /\ hooks' = hooks /\ touched' = touched
      /\ scenarioRuns' = scenarioRuns /\ event' = event
      /\ posted' = posted \cup {made}
  BY DEF Post, Rules, AutomationInv, RulesAreTyped
<1>2. made \in CallRows /\ made.event = event /\ made.of = h /\ made.kept = (hooks[h] # "deleted")
  <2>1. event \in Nat /\ (hooks[h] # "deleted") \in BOOLEAN
    BY DEF AutomationInv, RulesAreTyped
  <2>. QED  BY <2>1 DEF CallRows
<1>. HIDE DEF made
<1>3. /\ posted' \subseteq CallRows /\ \A p \in posted' : p.event <= event
      /\ \A p \in posted', r \in scenarioRuns : p.event = r.event => r.finished
  <2>1. posted \subseteq CallRows /\ event \in Nat /\ \A p \in posted : p.event <= event
    BY DEF AutomationInv, RulesAreTyped
  <2>2. \A r \in scenarioRuns : r.event = event => r.finished
    BY <1>1 DEF AutomationInv, FollowInv, Followed
  <2>3. \A p \in posted, r \in scenarioRuns : p.event = r.event => r.finished
    BY DEF AutomationInv, FollowInv, Followed
  <2>. QED  BY <1>1, <1>2, <2>1, <2>2, <2>3
<1>4. CASE hooks[h] = "deleted"
  <2>1. Breaks /\ UNCHANGED <<Rules, scenarioRuns, event>>
    BY <1>4 DEF Post, Rules
  <2>. QED  BY <1>3, <2>1, BreaksInv
<1>5. CASE hooks[h] # "deleted"
  <2>1. chain' = [chain EXCEPT !.left = @ \ {h}]
    BY <1>5 DEF Post
  <2>2. /\ chain'.pc = "hooks" /\ chain'.cause = chain.cause /\ chain'.left = chain.left \ {h}
        /\ chain'.log = chain.log /\ chain'.did = chain.did /\ chain'.visits = chain.visits
        /\ chain'.failed = chain.failed
    BY <1>1, <2>1 DEF Chains
  <2>3. chain.cause = "new_entity" /\ chain.left \subseteq Hooks
    BY <1>1 DEF AutomationInv, FollowInv, WhilePosting
  <2>4. RulesAreTyped'
    <3>1. chain' \in Chains
      BY <1>1, <2>1, <2>3 DEF Chains
    <3>. QED  BY <1>1, <1>3, <3>1 DEF AutomationInv, RulesAreTyped
  <2>5. /\ \A g \in Hooks \ {h} : CallsOf(g)' = CallsOf(g)
        /\ CallsOf(h)' = {made}
    <3>1. CallsOf(h) = {}
      BY <1>1 DEF AutomationInv, FollowInv, WhilePosting
    <3>. QED  BY <1>1, <1>2, <3>1 DEF CallsOf
  <2>6. \A g \in Hooks \ {h} : CallDone(g) => CallDone(g)'
    BY <1>1, <2>2, <2>5 DEF CallDone
  <2>7. hooks[h] = "on" => CallDone(h)'
    BY <1>1, <1>2, <1>5, <2>2, <2>3, <2>5 DEF CallDone
  <2>8. WhilePosting'
    <3>1. ASSUME NEW g \in Hooks \ touched
          PROVE  IF g \in chain'.left THEN hooks'[g] = "on" ELSE CallDone(g)'
      <4>1. IF g \in chain.left THEN hooks[g] = "on" ELSE CallDone(g)
        BY <1>1 DEF AutomationInv, FollowInv, WhilePosting
      <4>. QED  BY <1>1, <2>2, <2>6, <2>7, <4>1
    <3>2. \A g \in chain'.left : CallsOf(g)' = {}
      BY <1>1, <2>2, <2>3, <2>5 DEF AutomationInv, FollowInv, WhilePosting
    <3>. QED  BY <1>1, <2>2, <2>3, <3>1, <3>2 DEF WhilePosting
  <2>9. Followed'
    <3>1. \A s \in Scenarios : RunDone(s)' = RunDone(s)
      BY <1>1, <2>2 DEF RunDone, RunsOf, Due, WaitsFor
    <3>. QED  BY <1>1, <1>3, <2>2, <3>1 DEF AutomationInv, FollowInv, Followed
  <2>10. WhileRunning' /\ WhileWalking'
    BY <2>2 DEF WhileRunning, WhileWalking
  <2>11. WalkIsTold'
    BY <1>1, <2>2 DEF AutomationInv, WalkIsTold
  <2>12. RunsTellTheTruth'
    BY <1>1 DEF AutomationInv, RunsTellTheTruth
  <2>. QED  BY <2>4, <2>8, <2>9, <2>10, <2>11, <2>12 DEF AutomationInv, FollowInv
<1>. QED  BY <1>4, <1>5

LEMMA AllPostedInv == AutomationInv /\ AllPosted => AutomationInv'
<1>. SUFFICES ASSUME AutomationInv, AllPosted PROVE AutomationInv'
  OBVIOUS
<1>1. /\ chain.pc = "hooks" /\ chain.left = {} /\ chain \in Chains
      /\ scenarios' = scenarios /\ hooks' = hooks /\ touched' = touched
      /\ scenarioRuns' = scenarioRuns /\ posted' = posted /\ event' = event
      /\ chain' = [NoChain EXCEPT !.pc = "ended", !.cause = chain.cause]
  BY DEF AllPosted, StaysPut, Rules, AutomationInv, RulesAreTyped
<1>2. /\ chain'.pc = "ended" /\ chain'.cause = chain.cause
      /\ chain'.log = <<>> /\ chain'.did = <<>> /\ chain'.visits = 0 /\ chain'.failed = FALSE
  BY <1>1 DEF NoChain
<1>3. RulesAreTyped'
  <2>1. chain' \in Chains
    <3>1. chain.cause \in Triggers \cup {"manual"} /\ "ended" \in Moments
      BY <1>1 DEF Chains, Moments
    <3>. QED  BY <1>1, <3>1, NoChainType
  <2>. QED  BY <1>1, <2>1 DEF AutomationInv, RulesAreTyped
<1>4. Followed'
  <2>1. \A h \in Hooks \ touched : CallDone(h)'
    <3>1. \A h \in Hooks \ touched : CallDone(h)
      BY <1>1 DEF AutomationInv, FollowInv, WhilePosting
    <3>. QED  BY <1>1, <1>2, <3>1 DEF CallDone, CallsOf
  <2>2. \A s \in Scenarios : RunDone(s)' = RunDone(s)
    BY <1>1, <1>2 DEF RunDone, RunsOf, Due, WaitsFor
  <2>. QED  BY <1>1, <1>2, <2>1, <2>2 DEF AutomationInv, FollowInv, Followed
<1>5. WhileRunning' /\ WhileWalking' /\ WhilePosting' /\ WalkIsTold'
  BY <1>2 DEF WhileRunning, WhileWalking, WhilePosting, WalkIsTold
<1>6. RunsTellTheTruth'
  BY <1>1 DEF AutomationInv, RunsTellTheTruth
<1>. QED  BY <1>3, <1>4, <1>5, <1>6 DEF AutomationInv, FollowInv

\* Somebody switches a scenario on or off, or deletes it, its runs with it.
LEMMA EditScenarioInv ==
  ASSUME AutomationInv, NEW s \in Scenarios, EditScenario(s) PROVE AutomationInv'
<1>1. PICK state \in RowStates :
         /\ scenarios' = [scenarios EXCEPT ![s].state = state]
         /\ scenarioRuns' = IF state = "deleted" THEN {r \in scenarioRuns : r.of # s}
                            ELSE scenarioRuns
  BY DEF EditScenario
<1>2. /\ scenarios[s].state # "deleted" /\ touched' = touched \cup {s}
      /\ hooks' = hooks /\ posted' = posted /\ event' = event /\ chain' = chain
  BY DEF EditScenario
<1>3. scenarios' \in [Scenarios -> ScenarioRow]
  BY <1>1 DEF AutomationInv, RulesAreTyped, ScenarioRow
<1>4. /\ \A t \in Scenarios \ {s} : scenarios'[t] = scenarios[t]
      /\ \A t \in Scenarios : scenarios'[t].flow = scenarios[t].flow
      /\ scenarios'[s].state = state
  BY <1>1 DEF AutomationInv, RulesAreTyped, ScenarioRow
<1>5. /\ scenarioRuns' \subseteq scenarioRuns
      /\ \A r \in scenarioRuns : r.of # s => r \in scenarioRuns'
      /\ state = "deleted" => \A r \in scenarioRuns' : r.of # s
      /\ state # "deleted" => scenarioRuns' = scenarioRuns
  BY <1>1
<1>6. RulesAreTyped'
  BY <1>2, <1>3, <1>4, <1>5 DEF AutomationInv, RulesAreTyped, RunRows
<1>7. \A t \in Scenarios \ {s} : RunsOf(t)' = RunsOf(t)
  BY <1>2, <1>5 DEF RunsOf
<1>8. /\ RunsOf(s)' \subseteq RunsOf(s)
      /\ state # "deleted" => RunsOf(s)' = RunsOf(s)
  BY <1>2, <1>5 DEF RunsOf
<1>9. \A t \in Scenarios \ {s} : (Due(t)' <=> Due(t)) /\ (RunDone(t) => RunDone(t)')
  <2>1. \A t \in Scenarios \ {s} : Due(t)' <=> Due(t)
    BY <1>2, <1>4 DEF Due, WaitsFor
  <2>2. ASSUME NEW t \in Scenarios \ {s}, NEW r \in scenarioRuns, RunsOf(t) = {r}
        PROVE  r \in scenarioRuns'
    BY <1>5, <2>2 DEF RunsOf
  <2>. QED  BY <1>7, <2>1, <2>2 DEF RunDone
<1>10. \A t \in Scenarios : Ahead(t)' <=> Ahead(t)
  BY <1>2 DEF Ahead
<1>11. WhileRunning'
  <2>1. ASSUME chain.pc \in {"runs", "walk"}, NEW t \in chain.left PROVE RunsOf(t)' = {}
    BY <1>7, <1>8, <2>1 DEF AutomationInv, FollowInv, WhileRunning
  <2>2. ASSUME chain.pc \in {"runs", "walk"}, chain.cause \in Triggers,
               NEW t \in Scenarios \ touched'
        PROVE  IF Ahead(t)' THEN Due(t)' ELSE RunDone(t)'
    <3>1. t \in Scenarios \ touched /\ t # s
      BY <1>2, <2>2
    <3>2. IF Ahead(t) THEN Due(t) ELSE RunDone(t)
      BY <2>2, <3>1 DEF AutomationInv, FollowInv, WhileRunning
    <3>. QED  BY <1>9, <1>10, <3>1, <3>2
  <2>. QED  BY <1>2, <2>1, <2>2 DEF AutomationInv, FollowInv, WhileRunning
<1>12. WhileWalking'
  <2>1. SUFFICES ASSUME chain.pc = "walk" PROVE WhileWalking'
    BY <1>2 DEF WhileWalking
  <2>2. PICK u \in Scenarios : u = chain.of
    BY <2>1 DEF AutomationInv, FollowInv, WhileWalking
  <2>3. NewRun(u)' = NewRun(u)
    BY <1>2 DEF NewRun
  <2>4. scenarios'[u].state # "deleted" => RunsOf(u)' = {NewRun(u)}
    <3>1. SUFFICES ASSUME scenarios'[u].state # "deleted" PROVE RunsOf(u)' = {NewRun(u)}
      OBVIOUS
    <3>2. scenarios[u].state # "deleted"
      BY <1>2, <1>4, <3>1
    <3>3. RunsOf(u) = {NewRun(u)}
      BY <2>1, <2>2, <3>2 DEF AutomationInv, FollowInv, WhileWalking
    <3>4. RunsOf(u)' = RunsOf(u)
      BY <1>4, <1>7, <1>8, <3>1
    <3>. QED  BY <3>3, <3>4
  <2>5. \A r \in scenarioRuns' : r.event = event' /\ ~r.finished => r = NewRun(u)
    BY <1>2, <1>5, <2>1, <2>2 DEF AutomationInv, FollowInv, WhileWalking
  <2>6. chain'.of = u /\ u \in Scenarios \ chain'.left
    BY <1>2, <2>1, <2>2 DEF AutomationInv, FollowInv, WhileWalking
  <2>7. RunsOf(chain.of)' = RunsOf(u)' /\ NewRun(chain.of)' = NewRun(u)'
    BY <2>6 DEF RunsOf, NewRun
  <2>. QED  BY <2>3, <2>4, <2>5, <2>6, <2>7 DEF WhileWalking
<1>13. WhilePosting' /\ Followed'
  <2>1. \A h \in Hooks : CallsOf(h)' = CallsOf(h) /\ CallDone(h)' = CallDone(h)
    BY <1>2 DEF CallsOf, CallDone
  <2>2. WhilePosting'
    BY <1>2, <2>1 DEF AutomationInv, FollowInv, WhilePosting
  <2>3. ASSUME chain.pc \in {"hooks", "ended"}, chain.cause \in Triggers
        PROVE  \A t \in Scenarios \ touched' : RunDone(t)'
    BY <1>2, <1>9, <2>3 DEF AutomationInv, FollowInv, Followed
  <2>. QED  BY <1>2, <1>5, <2>1, <2>2, <2>3 DEF AutomationInv, FollowInv, Followed
<1>14. WalkIsTold'
  <2>1. chain.pc = "walk" => OurFlow' = OurFlow
    BY <1>2, <1>4 DEF AutomationInv, FollowInv, WhileWalking, OurFlow
  <2>. QED  BY <1>2, <2>1 DEF AutomationInv, WalkIsTold
<1>15. RunsTellTheTruth'
  <2>1. \A r \in scenarioRuns : Told(r, scenarios[r.of].flow.kind)
    BY DEF AutomationInv, RunsTellTheTruth, Told
  <2>2. \A r \in scenarioRuns' : Told(r, scenarios'[r.of].flow.kind)
    BY <1>4, <1>5, <2>1 DEF AutomationInv, RulesAreTyped, RunRows
  <2>. QED  BY <2>2 DEF RunsTellTheTruth, Told
<1>. QED  BY <1>6, <1>11, <1>12, <1>13, <1>14, <1>15 DEF AutomationInv, FollowInv

\* Somebody does so with a webhook.
LEMMA EditHookInv ==
  ASSUME AutomationInv, NEW h \in Hooks, EditHook(h) PROVE AutomationInv'
<1>1. PICK state \in RowStates : hooks' = [hooks EXCEPT ![h] = state]
  BY DEF EditHook
<1>2. /\ touched' = touched \cup {h} /\ posted' \subseteq posted
      /\ \A p \in posted : p.of # h => p \in posted'
      /\ scenarios' = scenarios /\ scenarioRuns' = scenarioRuns
      /\ event' = event /\ chain' = chain
  BY DEF EditHook
<1>3. RulesAreTyped'
  BY <1>1, <1>2 DEF AutomationInv, RulesAreTyped
<1>4. \A s \in Scenarios : /\ RunsOf(s)' = RunsOf(s) /\ Due(s)' = Due(s)
                           /\ RunDone(s)' = RunDone(s) /\ Ahead(s)' = Ahead(s)
  BY <1>2 DEF RunsOf, Due, WaitsFor, RunDone, Ahead
<1>5. /\ \A g \in Hooks \ {h} : hooks'[g] = hooks[g] /\ CallsOf(g)' = CallsOf(g)
      /\ CallsOf(h)' \subseteq CallsOf(h)
  BY <1>1, <1>2 DEF CallsOf, AutomationInv, RulesAreTyped
<1>6. \A g \in Hooks \ {h} : CallDone(g) => CallDone(g)'
  <2>1. ASSUME NEW g \in Hooks \ {h}, NEW p \in posted, CallsOf(g) = {p} PROVE p \in posted'
    BY <1>2, <2>1 DEF CallsOf
  <2>. QED  BY <1>2, <1>5, <2>1 DEF CallDone
<1>7. WhileRunning' /\ WhileWalking'
  <2>1. WhileRunning'
    BY <1>2, <1>4 DEF AutomationInv, FollowInv, WhileRunning
  <2>2. WhileWalking'
    BY <1>2 DEF AutomationInv, FollowInv, WhileWalking, NewRun, RunsOf
  <2>. QED  BY <2>1, <2>2
<1>8. WhilePosting'
  BY <1>2, <1>5, <1>6 DEF AutomationInv, FollowInv, WhilePosting
<1>9. Followed'
  BY <1>2, <1>4, <1>6 DEF AutomationInv, FollowInv, Followed
<1>10. WalkIsTold' /\ RunsTellTheTruth'
  BY <1>2 DEF AutomationInv, WalkIsTold, RunsTellTheTruth, OurFlow
<1>. QED  BY <1>3, <1>7, <1>8, <1>9, <1>10 DEF AutomationInv, FollowInv

LEMMA AutomationSteps == AutomationInv /\ [AutomationNext]_automationVars => AutomationInv'
<1>. SUFFICES ASSUME AutomationInv, [AutomationNext]_automationVars PROVE AutomationInv'
  OBVIOUS
<1>1. CASE UNCHANGED automationVars
  <2>1. StaysPut /\ chain' = chain
    BY <1>1 DEF automationVars, StaysPut, Rules
  <2>2. FollowInv'
    BY <2>1, FollowFrame DEF AutomationInv
  <2>. QED  BY <1>1, <2>2 DEF automationVars, AutomationInv, RulesAreTyped, WalkIsTold,
                              RunsTellTheTruth, OurFlow
<1>2. ASSUME NEW s \in Scenarios, RunNow(s) \/ BeginRun(s) \/ EditScenario(s)
      PROVE  AutomationInv'
  BY <1>2, RunNowInv, BeginRunInv, EditScenarioInv
<1>3. ASSUME NEW h \in Hooks, Post(h) \/ EditHook(h) PROVE AutomationInv'
  BY <1>3, PostInv, EditHookInv
<1>4. CASE ProcessDies
  BY <1>4, RaisesInv DEF ProcessDies
<1>. QED  BY <1>1, <1>2, <1>3, <1>4, HappenInv, WalksInv, CloseRunInv, ToHooksInv, AllPostedInv
          DEF AutomationNext

\* What holds at every step of a request that follows something up.
THEOREM AutomationInvariant == AutomationSpec => []AutomationInv
BY AutomationStarts, AutomationSteps, PTL DEF AutomationSpec

\* Every scenario, webhook and walk is one there can be, and no run is left of a
\* scenario that is gone.
THEOREM AutomationTypes == AutomationSpec => []AutomationTypeOK
<1>1. AutomationInv => AutomationTypeOK
  BY DEF AutomationInv, RulesAreTyped, Chains, AutomationTypeOK
<1>. QED  BY <1>1, AutomationInvariant, PTL

\* Whatever happens was followed up once the request is over: each scenario that
\* waited for it ran once, to its end, and each webhook was called once, after all
\* of them, whoever edits the others meanwhile (scenarios/engine.py, webhooks/engine.py).
THEOREM EverythingIsFollowedUp == AutomationSpec => []FollowUpsAreMade
<1>1. AutomationInv => FollowUpsAreMade
  <2>. SUFFICES ASSUME AutomationInv PROVE FollowUpsAreMade
    OBVIOUS
  <2>1. Followed
    BY DEF AutomationInv, FollowInv
  <2>. QED  BY <2>1 DEF Followed, FollowUpsAreMade, RunDone, Due, CallDone, CallsOf
<1>. QED  BY <1>1, AutomationInvariant, PTL

\* A finished run's log has every action that was done, in its order, it failed
\* exactly when a step did, and only a walk that goes round in circles was cut off
\* (scenarios/engine.py:386).
THEOREM LogsAreTrue == AutomationSpec => []RunsTellTheTruth
<1>1. AutomationInv => RunsTellTheTruth
  BY DEF AutomationInv
<1>. QED  BY <1>1, AutomationInvariant, PTL
-----------------------------------------------------------------------------
(* Side by side.  A behaviour of the desk is one of each part; and one of  *)
(* "one", where a step leaves at most one request under way, is one where  *)
(* requests come one at a time.                                            *)

LEMMA DeskSteps ==
  [DeskNext]_deskVars => /\ [CallNext]_allVars /\ [CampaignNext]_campaignVars
                         /\ [OnboardingNext]_onboardingVars /\ [FactorNext]_factorVars
                         /\ [AutomationNext]_automationVars /\ part' = part
BY DEF DeskNext, deskVars

LEMMA DeskIsEachPart ==
  DeskSpec => CallSpec /\ CampaignSpec /\ OnboardingSpec /\ FactorSpec /\ AutomationSpec
<1>1. DeskInit => CallInit /\ CampaignInit /\ OnboardingInit /\ FactorInit /\ AutomationInit
  BY DEF DeskInit
<1>. QED  BY <1>1, DeskSteps, PTL
          DEF DeskSpec, CallSpec, CampaignSpec, OnboardingSpec, FactorSpec, AutomationSpec

\* Every part of the desk is well typed, however many there are of anything.
THEOREM DeskTypes == DeskSpec => []DeskTypeOK
<1>1. CallInv => CallTypeOK
  BY DEF CallInv
<1>2. /\ CallTypeOK /\ CampaignTypeOK /\ OnboardingTypeOK /\ FactorTypeOK /\ AutomationTypeOK
         => DeskTypeOK
  BY DEF DeskTypeOK
<1>. QED  BY <1>1, <1>2, DeskIsEachPart, CallInvariant, CampaignTypes, OnboardingTypes, FactorTypes,
             AutomationTypes, PTL

LEMMA OneBusy ==
  ASSUME NEW places, Cardinality({w \in Handlers : places[w] # "idle"}) <= 1
  PROVE  \A v, w \in Handlers : places[v] # "idle" /\ places[w] # "idle" => v = w
<1>. DEFINE S == {w \in Handlers : places[w] # "idle"}
<1>1. IsFiniteSet(S)
  BY DeskConstants, FS_Subset
<1>2. ASSUME NEW v \in S, NEW w \in S, v # w PROVE FALSE
  <2>1. IsFiniteSet({v, w}) /\ Cardinality({v, w}) = 2
    <3>1. IsFiniteSet({v}) /\ Cardinality({v}) = 1
      BY FS_Singleton
    <3>2. IsFiniteSet({v} \cup {w}) /\ Cardinality({v} \cup {w}) = Cardinality({v}) + 1
      BY <1>2, <3>1, FS_AddElement
    <3>3. {v} \cup {w} = {v, w}
      OBVIOUS
    <3>. QED  BY <3>1, <3>2, <3>3
  <2>2. Cardinality({v, w}) <= Cardinality(S)
    BY <1>1, FS_Subset
  <2>3. Cardinality(S) \in Nat
    BY <1>1, FS_CardinalityType
  <2>. QED  BY <2>1, <2>2, <2>3
<1>. HIDE DEF S
<1>3. \A v, w \in S : v = w
  BY <1>2
<1>. QED  BY <1>3 DEF S

Alone == part = "one" => AloneInv /\ OneAtATime

LEMMA AloneSideBySide ==
  OnboardingInv /\ Alone /\ [DeskNext]_deskVars
     => Alone' /\ (part = "one" => DecisionsStand /\ AdmittedByDecision' /\ MembersDoNotWait')
<1>. SUFFICES ASSUME OnboardingInv, Alone, [DeskNext]_deskVars, part = "one"
              PROVE  /\ AloneInv' /\ OneAtATime' /\ DecisionsStand
                     /\ AdmittedByDecision' /\ MembersDoNotWait'
  BY DeskSteps DEF Alone
<1>1. [OnboardingNext]_onboardingVars /\ AloneInv /\ OneAtATime
  BY DeskSteps DEF Alone
<1>2. OneAtATime'
  <2>1. CASE Cardinality({w \in Handlers : stage'[w] # "idle"}) <= 1
    <3>1. \A v, w \in Handlers : stage'[v] # "idle" /\ stage'[w] # "idle" => v = w
      BY <2>1, OneBusy
    <3>. QED  BY <3>1 DEF OneAtATime
  <2>2. CASE stage' = stage
    BY <1>1, <2>2 DEF OneAtATime
  <2>. QED  BY <2>1, <2>2 DEF DeskNext, deskVars, onboardingVars
<1>3. AloneInv' /\ DecisionsStand
  BY <1>1, <1>2, AloneSteps
<1>. QED  BY <1>2, <1>3 DEF AloneInv

\* Decisions are final (onboarding.py:262, 430): no decided row waits again, and
\* while requests come one at a time a decision is kept, nobody is in without one
\* and nobody who is in waits for one.
THEOREM DecisionsStayMade == DeskSpec => DecisionsAreFinal
<1>1. DeskInit => Alone
  BY AloneStarts DEF DeskInit, Alone, OneAtATime, OnboardingInit
<1>2. OnboardingInv /\ Alone /\ [DeskNext]_deskVars
         => [part = "one" => DecisionsStand /\ AdmittedByDecision' /\ MembersDoNotWait']_deskVars
  BY AloneSideBySide
<1>3. OnboardingInv /\ Alone /\ [DeskNext]_deskVars => Alone'
  BY AloneSideBySide
<1>. QED  BY <1>1, <1>2, <1>3, DeskIsEachPart, OnboardingInvariant, DecidedStaysDecided, PTL
          DEF DeskSpec, DecisionsAreFinal
=============================================================================
