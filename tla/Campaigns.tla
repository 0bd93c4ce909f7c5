------------------------------ MODULE Campaigns ------------------------------
(***************************************************************************)
(* ONE email campaign (campaigns/views.py): colleagues edit it, delete it  *)
(* and send it. A send claims the row in a short transaction, mails each   *)
(* recipient outside any, and finishes in another short one.               *)
(*                                                                         *)
(* An edit loads the row when it arrives and locks it later; what it saves *)
(* is the loaded copy with the body's fields on top.                       *)
(***************************************************************************)
EXTENDS Integers, FiniteSets

CONSTANTS
    Contacts,
    Users,
    Sees,           \* the contacts each user may open
    Fields,         \* the texts of a campaign: subject and body
    Texts, Blank,
    Colleagues,
    NoUser

ASSUME CampaignConstants == /\ Sees \in [Users -> SUBSET Contacts]
                            /\ Blank \in Texts
                            /\ "same" \notin Texts
                            /\ NoUser \notin Users

VARIABLES
    status,         \* of the row, "deleted" once it is gone
    text,           \* its subject and body
    recipients,
    mailed,         \* how often each contact got the campaign
    emails,         \* the contacts with an Email row of the campaign
    sentOut,        \* what the last claim read
    at, job         \* per worker: where its request is, and what it knows

campaign == <<status, text, recipients>>
campaignVars == <<campaign, mailed, emails, sentOut, at, job>>

Statuses == {"draft", "sending", "sent", "deleted"}
Places == {"idle", "editing", "locked", "claiming", "delivering", "mailed"}

Content == [text : [Fields -> Texts], to : SUBSET Contacts]

\* The body of a PATCH. A field that is left out is "same".
Patches == [text : [Fields -> Texts \cup {"same"}], picks : BOOLEAN, chosen : SUBSET Contacts]

NoText == [f \in Fields |-> Blank]
NoPatch == [text |-> [f \in Fields |-> "same"], picks |-> FALSE, chosen |-> {}]
NoJob == [user |-> NoUser, patch |-> NoPatch, copy |-> NoText, hidden |-> {}, todo |-> {},
          reached |-> {}]

CampaignInit == /\ status = "draft"
                /\ text = NoText
                /\ recipients = {}
                /\ mailed = [c \in Contacts |-> 0]
                /\ emails = {}
                /\ sentOut = [text |-> NoText, to |-> {}]
                /\ at = [w \in Colleagues |-> "idle"]
                /\ job = [w \in Colleagues |-> NoJob]

\* Mutant: select_for_update is left out.
NeverLocked(w) == TRUE

\* Nobody else's transaction holds the campaign's row lock.
RowFree(w) == \A v \in Colleagues \ {w} : at[v] \notin {"locked", "claiming"}

StepTo(w, place) == at' = [at EXCEPT ![w] = place]

Finish(w) == StepTo(w, "idle") /\ job' = [job EXCEPT ![w] = NoJob]

-----------------------------------------------------------------------------
(* PATCH and DELETE /api/v1/campaigns/<id>/                                *)

\* get_object: the row as it is when the request arrives.
Open(w, u, patch) ==
    /\ at[w] = "idle" /\ status # "deleted"
    /\ job' = [job EXCEPT ![w] = [NoJob EXCEPT !.user = u, !.patch = patch, !.copy = text]]
    /\ StepTo(w, "editing")
    /\ UNCHANGED <<campaign, mailed, emails, sentOut>>

\* The body's recipients are all the editor's to open, or it is a 400.
Unreachable(w) == job[w].patch.picks /\ ~(job[w].patch.chosen \subseteq Sees[job[w].user])

\* Mutant: the status is not looked at again under the lock.
LockUnchecked(w) == /\ at[w] = "editing"
                    /\ RowFree(w)
                    /\ IF status = "deleted" \/ Unreachable(w)
                       THEN Finish(w)
                       ELSE /\ job' = [job EXCEPT ![w].hidden = recipients \ Sees[job[w].user]]
                            /\ StepTo(w, "locked")
                    /\ UNCHANGED <<campaign, mailed, emails, sentOut>>

\* Only a draft is edited. Recipients the editor cannot open are kept.
LockForEdit(w) == /\ at[w] = "editing"
                  /\ RowFree(w)
                  /\ IF status # "draft" \/ Unreachable(w)
                     THEN Finish(w)
                     ELSE /\ job' = [job EXCEPT ![w].hidden = recipients \ Sees[job[w].user]]
                          /\ StepTo(w, "locked")
                  /\ UNCHANGED <<campaign, mailed, emails, sentOut>>

\* What serializer.save() writes.
Saved(w) == [f \in Fields |-> IF job[w].patch.text[f] = "same" THEN job[w].copy[f]
                              ELSE job[w].patch.text[f]]

CommitEdit(w) == /\ at[w] = "locked"
                 /\ text' = Saved(w)
                 /\ recipients' = IF job[w].patch.picks
                                  THEN job[w].patch.chosen \cup job[w].hidden
                                  ELSE recipients
                 /\ Finish(w)
                 /\ UNCHANGED <<status, mailed, emails, sentOut>>

\* A campaign that is being sent keeps its row; a sent one may go.
Delete(w) == /\ at[w] = "idle" /\ RowFree(w)
             /\ status \in {"draft", "sent"}
             /\ status' = "deleted"
             /\ UNCHANGED <<text, recipients, mailed, emails, sentOut, at, job>>

-----------------------------------------------------------------------------
(* POST /api/v1/campaigns/<id>/send/                                       *)

Refused == \/ status # "draft"
           \/ \E f \in Fields : text[f] = Blank
           \/ recipients = {}

\* The claim reads everything under the row lock ...
Claim(w) == /\ at[w] = "idle" /\ RowFree(w)
            /\ ~Refused
            /\ job' = [job EXCEPT ![w] = [NoJob EXCEPT !.copy = text, !.todo = recipients]]
            /\ StepTo(w, "claiming")
            /\ UNCHANGED <<campaign, mailed, emails, sentOut>>

\* Mutant: the campaign is a draft until it has gone out.
CommitClaimDraft(w) == /\ at[w] = "claiming"
                       /\ sentOut' = [text |-> job[w].copy, to |-> job[w].todo]
                       /\ StepTo(w, "delivering")
                       /\ UNCHANGED <<campaign, mailed, emails, job>>

\* ... and commits "sending".
CommitClaim(w) == /\ at[w] = "claiming"
                  /\ status' = "sending"
                  /\ sentOut' = [text |-> job[w].copy, to |-> job[w].todo]
                  /\ StepTo(w, "delivering")
                  /\ UNCHANGED <<text, recipients, mailed, emails, job>>

\* One recipient: the mail leaves, or the contact is skipped.
Mail(w, c) == /\ at[w] = "delivering" /\ c \in job[w].todo
              /\ \/ /\ mailed' = [mailed EXCEPT ![c] = @ + 1]
                    /\ StepTo(w, "mailed")
                    /\ job' = [job EXCEPT ![w].reached = {c}]
                 \/ /\ job' = [job EXCEPT ![w].todo = @ \ {c}]
                    /\ UNCHANGED <<mailed, at>>
              /\ UNCHANGED <<campaign, emails, sentOut>>

\* Its Email row is created, or the contact is logged as skipped after all.
Record(w) == /\ at[w] = "mailed"
             /\ emails' \in {emails, emails \cup job[w].reached}
             /\ job' = [job EXCEPT ![w].todo = @ \ job[w].reached, ![w].reached = {}]
             /\ StepTo(w, "delivering")
             /\ UNCHANGED <<campaign, mailed, sentOut>>

CommitSent(w) == /\ at[w] = "delivering" /\ job[w].todo = {}
                 /\ RowFree(w)
                 /\ status' = "sent"
                 /\ Finish(w)
                 /\ UNCHANGED <<text, recipients, mailed, emails, sentOut>>

\* The process dies; what was committed stays.
CampaignDies(w) == /\ at[w] # "idle"
                   /\ Finish(w)
                   /\ UNCHANGED <<campaign, mailed, emails, sentOut>>

-----------------------------------------------------------------------------
CampaignNext == \E w \in Colleagues :
            \/ \E u \in Users, patch \in Patches : Open(w, u, patch)
            \/ LockForEdit(w) \/ CommitEdit(w) \/ Delete(w)
            \/ Claim(w) \/ CommitClaim(w)
            \/ \E c \in Contacts : Mail(w, c)
            \/ Record(w) \/ CommitSent(w) \/ CampaignDies(w)

CampaignSpec == CampaignInit /\ [][CampaignNext]_campaignVars

-----------------------------------------------------------------------------
CampaignTypeOK == /\ status \in Statuses
                  /\ text \in [Fields -> Texts]
                  /\ recipients \subseteq Contacts
                  /\ mailed \in [Contacts -> Nat]
                  /\ emails \subseteq Contacts
                  /\ sentOut \in Content
                  /\ at \in [Colleagues -> Places]
                  /\ job \in [Colleagues -> [user : Users \cup {NoUser}, patch : Patches,
                                             copy : [Fields -> Texts], hidden : SUBSET Contacts,
                                             todo : SUBSET Contacts, reached : SUBSET Contacts]]

\* Nobody gets a campaign twice, whoever sends it how often, at once or after
\* a crash ("never back at draft, so it can't be sent twice by accident"); and
\* who has a row in the activity feed did get it, also when the process dies in
\* between: an administrator reconciles a broken send from these rows.
MailedOnce == \A c \in Contacts : mailed[c] <= 1 /\ (c \in emails => mailed[c] = 1)

\* What went out is what the campaign says and to whom: an edit never lands
\* in or after a send ("editing a campaign that has gone out", views.py:133).
SentAsShown == status \in {"sending", "sent"} =>
                   /\ text = sentOut.text /\ recipients = sentOut.to
                   /\ \A c \in Contacts : mailed[c] > 0 => c \in recipients

\* An edit drops nobody its editor cannot open, also somebody another editor
\* added a moment ago ("the hidden ones are kept untouched").
UnseenAreKept == [][\A w \in Colleagues :
                       at[w] = "locked" /\ at'[w] = "idle"
                           => recipients \ Sees[job[w].user] \subseteq recipients']_campaignVars
=============================================================================
