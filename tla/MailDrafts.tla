------------------------------ MODULE MailDrafts ------------------------------
(* Sending a mail with the Founder's approval                                *)
(* (packages/adapters/src/google-workspace-write-adapter.ts, the flow        *)
(* template correo-enviar-aprobado, packages/core/src/founder-mail-          *)
(* accounts.ts).  A flow reads a draft, waits for the approval of what it    *)
(* read, reads the draft again and has Gmail send it.  The draft lives at    *)
(* Gmail, where its owner and other flows of Janus may edit it at any time.  *)
EXTENDS Integers, FiniteSets

CONSTANTS
  Drafts, Flows,
  AccountOf,      \* the account of each draft
  Minors,         \* accounts that carry the mark of a minor
  Managed,        \* accounts that carry the mark of a guardian
  Peoples,        \* recipients, each a set of addresses of To, Cc and Bcc
  Texts,          \* subject and plain text
  Others,         \* what a mail has besides: an HTML version, attachments
  MaxDraftEdits        \* bound on edits of drafts

NoText == "html only"
Plain == "nothing"    \* no HTML version and no attachment
Mail(people, text, other) == [people |-> people, text |-> text, other |-> other]
Gone == Mail({}, "gone", Plain)    \* sent, or never created

VARIABLES
  draft,      \* at Gmail
  flow,       \* each flow: where it is, its draft, the preview, the last reading
  sent,       \* messages out    (history)
  draftEdits

mailVars == <<draft, flow, sent, draftEdits>>

NotLaunched == [at |-> "idle", draft |-> "none", seen |-> Gone, raced |-> FALSE]

\* permittedWriteActions of the account, as of the start of the process
Writable(account) == account \in Minors => account \in Managed

-----------------------------------------------------------------------------
\* People write drafts with anything in them.
EditDraft(d, mail) ==
    /\ draftEdits < MaxDraftEdits /\ draftEdits' = draftEdits + 1 /\ draft[d] # Gone /\ draft[d] # mail
    /\ draft' = [draft EXCEPT ![d] = mail]
    /\ flow' = [f \in Flows |-> IF flow[f].draft = d THEN [flow[f] EXCEPT !.raced = (flow[f].at = "checked")] ELSE flow[f]]
    /\ UNCHANGED sent

\* gmail.draft.create and gmail.draft.update, each approved by itself: a mail
\* of plain text
Compose(d, people, text) ==
    /\ draftEdits < MaxDraftEdits /\ draftEdits' = draftEdits + 1 /\ Writable(AccountOf[d])
    /\ people # {} /\ text # NoText
    /\ draft' = [draft EXCEPT ![d] = Mail(people, text, Plain)]
    /\ \A m \in sent : m.draft # d    \* an id is not used again
    /\ flow' = [f \in Flows |-> IF flow[f].draft = d THEN [flow[f] EXCEPT !.raced = (flow[f].at = "checked")] ELSE flow[f]]
    /\ UNCHANGED sent

-----------------------------------------------------------------------------
Moves(f, at) == flow' = [flow EXCEPT ![f].at = at]

Launch(f, d) ==
    /\ flow[f].at = "idle"
    /\ flow' = [flow EXCEPT ![f].at = "launched", ![f].draft = d]
    /\ UNCHANGED <<draft, sent, draftEdits>>

\* What a preview can show
Shown(mail) == mail # Gone /\ mail.text # NoText /\ mail.people # {}

\* gmail.draft.preview: recipients, subject, text and the digest of the text
See(f) ==
    LET mail == draft[flow[f].draft]
    IN  /\ flow[f].at = "launched" /\ Writable(AccountOf[flow[f].draft])
        /\ Shown(mail)
        /\ flow' = [flow EXCEPT ![f].at = "waiting", ![f].seen = mail]
        /\ UNCHANGED <<draft, sent, draftEdits>>

\* The flow pauses before the node 'enviar' until the Founder answers.
ApproveMail(f) == flow[f].at = "waiting" /\ Moves(f, "approved") /\ UNCHANGED <<draft, sent, draftEdits>>
RejectMail(f) == flow[f].at = "waiting" /\ Moves(f, "over") /\ UNCHANGED <<draft, sent, draftEdits>>

\* Mutant: the digest of the text is not compared.
SamePeople(seen, mail) == mail.people = seen.people /\ mail.text # NoText

\* What is compared: To, Cc and Bcc, the subject and the plain text
Matches(seen, mail) == mail.people = seen.people /\ mail.text = seen.text /\ mail.text # NoText

\* gmail.draft.send, up to the request that sends
Check(f) ==
    LET mail == draft[flow[f].draft]
    IN  /\ flow[f].at = "approved" /\ mail # Gone
        /\ Matches(flow[f].seen, mail)
        /\ flow' = [flow EXCEPT ![f].at = "checked", ![f].raced = FALSE]
        /\ UNCHANGED <<draft, sent, draftEdits>>

\* Gmail sends the draft as it is, and drops it; the answer may be lost, and
\* the node fails in any case when the draft is gone.
Post(f, at) ==
    LET d == flow[f].draft
    IN  /\ flow[f].at = "checked" /\ draft[d] # Gone
        /\ sent' = sent \cup {[flow |-> f, draft |-> d, mail |-> draft[d], approved |-> flow[f].seen, raced |-> flow[f].raced]}
        /\ draft' = [draft EXCEPT ![d] = Gone]
        /\ Moves(f, at)
        /\ UNCHANGED draftEdits

\* Not registered for writing, not authenticated, a request that fails, a
\* draft that cannot be shown or that does not match: nothing is sent.
SendFails(f) ==
    /\ flow[f].at \in {"launched", "approved", "checked"} /\ Moves(f, "over")
    /\ UNCHANGED <<draft, sent, draftEdits>>

MailInit ==
    /\ draft \in [Drafts -> {Gone} \cup {Mail(p, t, Plain) : p \in Peoples, t \in Texts}]
    /\ flow = [f \in Flows |-> NotLaunched] /\ sent = {} /\ draftEdits = 0

MailNext ==
    \/ \E d \in Drafts, p \in Peoples \cup {{}}, t \in Texts \cup {NoText} :
         \/ \E o \in Others \cup {Plain} : EditDraft(d, Mail(p, t, o))
         \/ Compose(d, p, t)
    \/ \E f \in Flows :
         \/ \E d \in Drafts : Launch(f, d)
         \/ See(f) \/ ApproveMail(f) \/ RejectMail(f) \/ Check(f) \/ SendFails(f)
         \/ Post(f, "sent") \/ Post(f, "over")

-----------------------------------------------------------------------------
(* A message goes out once, from an account that may write, and to the       *)
(* people and with the subject and the text that were approved in the flow   *)
(* that sent it, whatever became of the draft in between and however many    *)
(* flows work on it; an edit can only slip in between the last reading and   *)
(* the request that sends.  (GoogleWorkspaceWriteAdapter.sendDraft,          *)
(* google-workspace-write-adapter.ts:199)                                    *)
SentAsApproved ==
    \A m \in sent :
        /\ Writable(AccountOf[m.draft])
        /\ m.raced \/ (m.mail.people = m.approved.people /\ m.mail.text = m.approved.text)
        /\ \A other \in sent : other.draft = m.draft => other = m

(* "Lo que apruebas es lo que sale" (docs/mail-send-approval.md:6): refuted. *)
(* The preview shows, and the sending compares, the addresses, the subject   *)
(* and the text/plain part: an HTML version or an attachment goes out as it  *)
(* is in the draft, unseen.                                                  *)
WholeMailApproved == \A m \in sent : m.raced \/ (m.approved.other = Plain => m.mail.other = Plain)
=============================================================================
