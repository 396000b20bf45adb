-------------------------------- MODULE Sending --------------------------------
(***************************************************************************)
(* An invoice on its way from the page that composes it to the server.     *)
(* The user leaves the page and comes back, applies the assistant's        *)
(* drafts, switches to another organization, here or in another tab, signs *)
(* out and in again, and sends once more when no answer was heard.  The    *)
(* session is one cookie for all tabs, and a request is about the          *)
(* organization the cookie named when it was sent.                         *)
(***************************************************************************)
EXTENDS Integers, FiniteSets

CONSTANTS
  Orgs,      \* organizations the user is a member of
  Customers,
  Home,      \* the organization of each customer
  MaxVisits, \* bound: times the page is opened
  MaxPosts   \* bound: invoices sent and not refused

ASSUME SendingAssumption ==
  Home \in [Customers -> Orgs] /\ MaxVisits \in Nat /\ MaxPosts \in Nat

Nobody == "nobody"
NoneApplied == "no draft"

VARIABLES
  session,      \* the organization of the cookie
  shown,        \* the organization the app shows
  copilotDraft, \* whom the draft applied last is for
  onForm,       \* whether the page is open
  visit,        \* times it was opened
  listed,       \* the organization whose customers it offers
  buyer,        \* the customer selected
  whole,        \* whether every row is filled in
  scanning,
  isSaving,
  posts         \* invoices sent and not refused: [visit, try, buyer, whole, org, fate, heard]

pageVars == <<onForm, visit, listed, buyer, whole, scanning, isSaving>>
userVars == <<session, shown, copilotDraft>>
sendingVars == <<userVars, pageVars, posts>>
-----------------------------------------------------------------------------
(* The page is opened and left *)

\* As it opens, in organization o, filled from a draft.
Mounted(o, draft) ==
  /\ visit < MaxVisits
  /\ onForm' = TRUE /\ visit' = visit + 1
  /\ listed' = o
  /\ buyer' = IF draft = NoneApplied THEN Nobody ELSE draft
  /\ whole' = (draft # NoneApplied)
  /\ scanning' = FALSE /\ isSaving' = FALSE

Unmounted ==
  /\ onForm' = FALSE
  /\ listed' = Nobody /\ buyer' = Nobody /\ whole' = FALSE
  /\ scanning' = FALSE /\ isSaving' = FALSE
  /\ UNCHANGED visit

SendingInit ==
  /\ session \in Orgs /\ shown = session
  /\ copilotDraft = NoneApplied
  /\ onForm = FALSE /\ visit = 0 /\ listed = Nobody /\ buyer = Nobody /\ whole = FALSE
  /\ scanning = FALSE /\ isSaving = FALSE
  /\ posts = {}

OpenForm ==
  ~onForm /\ Mounted(session, copilotDraft) /\ UNCHANGED <<userVars, posts>>
LeaveForm == onForm /\ Unmounted /\ UNCHANGED <<userVars, posts>>
-----------------------------------------------------------------------------
(* The page is filled in *)

ChooseBuyer(c) ==
  /\ onForm /\ Home[c] = listed
  /\ buyer' = c
  /\ UNCHANGED <<userVars, onForm, visit, listed, whole, scanning, isSaving, posts>>

FillRows(b) ==
  /\ onForm
  /\ whole' = b
  /\ UNCHANGED <<userVars, onForm, visit, listed, buyer, scanning, isSaving, posts>>

\* parseInvoicePromptWithTools: a draft is for a customer of the session's organization, or for
\* nobody.
DraftsOf(o) == {c \in Customers : Home[c] = o} \cup {Nobody}

\* handleParseInvoice and handleApplyDraft: the draft is written over what the page holds, or
\* the page is opened with it. It stays for the next time the page is opened.
handleApplyDraft(d) ==
  /\ d \in DraftsOf(session)
  /\ copilotDraft' = d
  /\ IF onForm
     THEN /\ buyer' = IF d = Nobody THEN buyer ELSE d
          /\ whole' = TRUE
          /\ UNCHANGED <<onForm, visit, listed, scanning, isSaving>>
     ELSE Mounted(session, d)
  /\ UNCHANGED <<session, shown, posts>>

handleOcrUpload ==
  /\ onForm /\ ~scanning /\ ~isSaving
  /\ scanning' = TRUE
  /\ UNCHANGED <<userVars, onForm, visit, listed, buyer, whole, isSaving, posts>>

\* The rows read, if any, take the place of those typed meanwhile; a text may be missing.
OcrAnswers(b) ==
  /\ scanning
  /\ scanning' = FALSE
  /\ whole' = b
  /\ UNCHANGED <<userVars, onForm, visit, listed, buyer, isSaving, posts>>
-----------------------------------------------------------------------------
(* Saving *)

MaySubmit == onForm /\ buyer # Nobody /\ ~isSaving

\* Tells what is sent from other attempts on the same page.
NextTry == CHOOSE n \in 1..MaxPosts : \A p \in posts : p.visit = visit => p.try # n

handleSubmit ==
  /\ MaySubmit
  /\ Cardinality(posts) < MaxPosts
  /\ isSaving' = TRUE
  /\ posts' = posts \cup {[visit |-> visit, try |-> NextTry, buyer |-> buyer, whole |-> whole,
                           org |-> session, fate |-> "sent", heard |-> "no"]}
  /\ UNCHANGED <<userVars, onForm, visit, listed, buyer, whole, scanning>>

\* Mutant of Finds: the customer is looked up by id alone.
FindsAny(c, o) == TRUE

Finds(c, o) == Home[c] = o

Becoming(p, q) == (posts \ {p}) \cup {q}

\* createInvoice: a row without description is refused, and so is a customer of another
\* organization.
createInvoice(p) ==
  /\ p.fate = "sent"
  /\ posts' =
       IF p.whole /\ Finds(p.buyer, p.org) THEN Becoming(p, [p EXCEPT !.fate = "made"])
       ELSE IF p.heard = "never" THEN posts \ {p}
       ELSE Becoming(p, [p EXCEPT !.fate = "refused"])
  /\ UNCHANGED <<userVars, pageVars>>

\* The page that sent it can save again.
Unsaving(p) == isSaving' = (isSaving /\ p.visit # visit)

\* The invoice is opened wherever the user is by now.
InvoiceOpens(p) ==
  /\ p.fate = "made" /\ p.heard = "no"
  /\ posts' = Becoming(p, [p EXCEPT !.heard = "yes"])
  /\ Unmounted
  /\ UNCHANGED userVars

ErrorShows(p) ==
  /\ p.fate = "refused"
  /\ posts' = posts \ {p}
  /\ Unsaving(p)
  /\ UNCHANGED <<userVars, onForm, visit, listed, buyer, whole, scanning>>

\* apiRequest: after a minute, or without a network, the page is told of an error.
GiveUp(p) ==
  /\ p.fate # "refused" /\ p.heard = "no"
  /\ posts' = Becoming(p, [p EXCEPT !.heard = "never"])
  /\ Unsaving(p)
  /\ UNCHANGED <<userVars, onForm, visit, listed, buyer, whole, scanning>>
-----------------------------------------------------------------------------
(* The session *)

\* The layout is keyed by the organization, so the page starts again, and the draft applied
\* before fills it once more.
Shows(o) ==
  /\ shown' = o
  /\ IF onForm THEN Mounted(o, copilotDraft) ELSE UNCHANGED pageVars
  /\ UNCHANGED <<copilotDraft, posts>>

handleSwitch(o) == o # shown /\ session' = o /\ Shows(o)

\* In another tab. Nothing tells this one.
OtherTabSwitches(o) ==
  /\ o # session
  /\ session' = o
  /\ UNCHANGED <<shown, copilotDraft, pageVars, posts>>

\* An invitation is answered, and the profile asked for again.
handleInvitation == session # shown /\ Shows(session) /\ UNCHANGED session

Unheard(p) == IF p.heard = "no" THEN [p EXCEPT !.heard = "never"] ELSE p

\* What was sent is not taken back, but nobody hears the answer.
Reload ==
  /\ shown' = session
  /\ copilotDraft' = NoneApplied
  /\ posts' = {Unheard(p) : p \in {q \in posts : q.fate # "refused"}}
  /\ IF onForm THEN Mounted(session, NoneApplied) ELSE UNCHANGED pageVars
  /\ UNCHANGED session

\* Signed out, or the session ended, and signed in again, to the dashboard.
SignInAgain(o) ==
  /\ session' = o /\ shown' = o
  /\ Unmounted
  /\ UNCHANGED <<copilotDraft, posts>>

SendingNext ==
  \/ OpenForm \/ LeaveForm
  \/ \E c \in Customers : ChooseBuyer(c)
  \/ \E b \in BOOLEAN : FillRows(b) \/ OcrAnswers(b)
  \/ \E d \in Customers \cup {Nobody} : handleApplyDraft(d)
  \/ handleOcrUpload
  \/ handleSubmit
  \/ \E p \in posts : createInvoice(p) \/ InvoiceOpens(p) \/ ErrorShows(p) \/ GiveUp(p)
  \/ \E o \in Orgs : handleSwitch(o) \/ OtherTabSwitches(o) \/ SignInAgain(o)
  \/ handleInvitation
  \/ Reload

SendingSpec == SendingInit /\ [][SendingNext]_sendingVars
-----------------------------------------------------------------------------
(* Properties *)

StoredPosts == {p \in posts : p.fate = "made"}

\* An invoice is stored in the organization its customer belongs to, whichever organization the
\* page was opened, drafted, filled in or sent in.
OwnCustomer == \A p \in StoredPosts : Home[p.buyer] = p.org

\* A page left open stores one invoice, and one more for each answer it never heard.
StoredOnce ==
  \A v \in 1..visit :
    LET its == {p \in StoredPosts : p.visit = v} IN
    Cardinality(its) <= 1 + Cardinality({p \in its : p.heard = "never"})

\* What a session of composing, switching and retrying leaves behind.
SentWhereMeant == OwnCustomer /\ StoredOnce
=============================================================================
