--------------------------- MODULE RecurringBilling ---------------------------
(***************************************************************************)
(* Recurring invoices and the numbers they are given: the hourly job and   *)
(* the manual run of a profile (recurring-invoice.job), the edits of a     *)
(* profile, createInvoice as far as its number goes, and the settings form *)
(* that stores the number counter again.  No step is in a transaction:     *)
(* each awaited call is a step, and each may fail.                         *)
(* Dates are billing periods, 1, 2, 3...: calculateNextRunDate adds one.   *)
(***************************************************************************)
EXTENDS Integers, FiniteSets, Functions

CONSTANTS
  Profile,   \* the recurring profiles
  NoProfile, \* what an invoice created by hand has for one
  AutoSend,  \* those whose invoices are sent at once, not left as drafts
  Limit,     \* maxOccurrences each profile is made with, 0 for none
  LastDue,   \* the last period up to the end date each is made with, 0 for none
  EditForm,  \* what a profile may be edited to, its status "kept" where none is sent
  Job,       \* executions of the hourly job, in one or several servers
  Clerk,     \* executions of request handlers
  MaxPeriod, \* bound: periods that come
  MaxFaults, \* bound: calls that fail, servers that crash
  MaxEdits,  \* bound: edits of a profile and of the counter
  MaxManual  \* bound: invoices created by hand

ASSUME RecurringAssumption ==
  /\ NoProfile \notin Profile
  /\ AutoSend \subseteq Profile
  /\ Limit \in [Profile -> Nat]
  /\ LastDue \in [Profile -> Nat]
  /\ EditForm \subseteq [status : {"active", "paused", "cancelled", "kept"}, due : Nat \ {0},
                         max : Nat, last : Nat]
  /\ Job \cap Clerk = {}
  /\ MaxPeriod \in Nat \ {0}
  /\ MaxFaults \in Nat /\ MaxEdits \in Nat /\ MaxManual \in Nat

VARIABLES
  profile,  \* the RecurringProfile collection
  counter,  \* Organization.settings.nextInvoiceNumber
  invoice,  \* the Invoice collection
  owed,     \* numbers of the invoices added to the customer's outstandingBalance
  now,      \* the period it is
  pc,       \* where each execution is
  todo,     \* profiles each has read and not yet run, with the date it read
  claim,    \* the period each is billing, and the profile as the claim left it
  number,   \* the invoice number each has reserved
  form,     \* the counter an open settings form was loaded with, 0 for none
  used,     \* bounds: faults, edits and manual invoices so far
  amiss     \* history: what went wrong or was edited, with profile and period

dbVars == <<profile, counter, invoice, owed>>
runVars == <<pc, todo, claim, number>>
vars == <<dbVars, now, runVars, form, used, amiss>>

Run == Job \cup Clerk
NoClaim == [id |-> NoProfile, period |-> 0,
            doc |-> [status |-> "none", due |-> 0, count |-> 0, max |-> 0, last |-> 0]]

Init ==
  /\ profile = [p \in Profile |-> [status |-> "active", due |-> 1, count |-> 0,
                                   max |-> Limit[p], last |-> LastDue[p]]]
  /\ counter = 1 /\ invoice = {} /\ owed = {} /\ now = 1
  /\ pc = [r \in Run |-> "idle"]
  /\ todo = [r \in Run |-> {}]
  /\ claim = [r \in Run |-> NoClaim]
  /\ number = [r \in Run |-> 0]
  /\ form = 0
  /\ used = [faults |-> 0, edits |-> 0, manual |-> 0]
  /\ amiss = {}

Numbers == {i.number : i \in invoice}
InvoicesOf(p) == {i \in invoice : i.id = p}
Billed(p, k) == \E i \in invoice : i.id = p /\ i.period = k
Happened(what, p, k) == <<what, p, k>> \in amiss
Note(what, r) == amiss' = amiss \cup {<<what, claim[r].id, claim[r].period>>}
Spend(kind) == used' = [used EXCEPT ![kind] = @ + 1]
Goto(r, step) == pc' = [pc EXCEPT ![r] = step]
\* The run of one profile is over: the job turns to the next one it has read.
Done(r) ==
  /\ Goto(r, IF todo[r] = {} THEN "idle" ELSE "claim")
  /\ claim' = [claim EXCEPT ![r] = NoClaim]
  /\ number' = [number EXCEPT ![r] = 0]
  /\ UNCHANGED todo

\* Mutant of Due: today is too early.
DueBefore == {p \in Profile : profile[p].status = "active" /\ profile[p].due < now}

Due == {p \in Profile : profile[p].status = "active" /\ profile[p].due <= now}

\* The hourly job reads the active profiles that are due, and runs one after the other.
Schedule(r) ==
  /\ pc[r] = "idle" /\ Due # {}
  /\ Goto(r, "claim")
  /\ todo' = [todo EXCEPT ![r] = {<<p, profile[p].due>> : p \in Due}]
  /\ UNCHANGED <<dbVars, now, claim, number, form, used, amiss>>

\* A manual run reads its profile whatever its status, and asks no date.
Trigger(r, p) ==
  /\ pc[r] = "idle" /\ profile[p].due <= MaxPeriod
  /\ Goto(r, "claim")
  /\ todo' = [todo EXCEPT ![r] = {<<p, profile[p].due>>}]
  /\ UNCHANGED <<dbVars, now, claim, number, form, used, amiss>>

\* Mutant of Claimable: the claim asks for the status alone.
ClaimableAnyDate(p, k) == profile[p].status = "active"

\* Claim a period: the profile must be active, and due when it was read to be.
Claimable(p, k) == profile[p].status = "active" /\ profile[p].due = k

Claim(r, p, k) ==
  /\ pc[r] = "claim" /\ <<p, k>> \in todo[r]
  /\ todo' = [todo EXCEPT ![r] = @ \ {<<p, k>>}]
  /\ IF Claimable(p, k)
       THEN LET doc == [profile[p] EXCEPT !.due = k + 1, !.count = @ + 1] IN
            /\ profile' = [profile EXCEPT ![p] = doc]
            /\ claim' = [claim EXCEPT ![r] = [id |-> p, period |-> k, doc |-> doc]]
            /\ Goto(r, "number")
       ELSE /\ Goto(r, IF todo'[r] = {} THEN "idle" ELSE "claim")
            /\ UNCHANGED <<profile, claim>>
  /\ UNCHANGED <<counter, invoice, owed, now, number, form, used, amiss>>

\* createInvoice enters here, with no profile: it reserves a number first.
NewInvoice(r) ==
  /\ pc[r] = "idle" /\ used.manual < MaxManual
  /\ Goto(r, "number") /\ Spend("manual")
  /\ UNCHANGED <<dbVars, now, todo, claim, number, form, amiss>>

\* Mutant of Reserve: read now, advanced by nobody.
ReserveOnlyRead(r) ==
  /\ pc[r] = "number"
  /\ number' = [number EXCEPT ![r] = counter]
  /\ Goto(r, "invoice")
  /\ UNCHANGED <<dbVars, now, todo, claim, form, used, amiss>>

\* reserveInvoiceNumber: read and advanced in one update.
Reserve(r) ==
  /\ pc[r] = "number"
  /\ number' = [number EXCEPT ![r] = counter]
  /\ counter' = counter + 1
  /\ Goto(r, "invoice")
  /\ UNCHANGED <<profile, invoice, owed, now, todo, claim, form, used, amiss>>

InvoiceOf(r) == [number |-> number[r], id |-> claim[r].id, period |-> claim[r].period]

\* Where a call that throws leads: the error answer of createInvoice, the catch block of a run.
Throw(r) ==
  IF claim[r] = NoClaim THEN Done(r)
                        ELSE Goto(r, "release") /\ UNCHANGED <<todo, claim, number>>

\* The invoice is stored, unless the unique index refuses its number.
Create(r) ==
  /\ pc[r] = "invoice"
  /\ \/ number[r] \in Numbers /\ Throw(r) /\ UNCHANGED invoice
     \/ /\ number[r] \notin Numbers
        /\ invoice' = invoice \cup {InvoiceOf(r)}
        /\ IF claim[r] = NoClaim
             THEN Done(r)
             ELSE /\ Goto(r, IF claim[r].id \in AutoSend THEN "charge" ELSE "finish")
                  /\ UNCHANGED <<todo, claim, number>>
  /\ UNCHANGED <<profile, counter, owed, now, form, used, amiss>>

\* The customer's outstandingBalance takes the total of an invoice that was sent.
Charge(r) ==
  /\ pc[r] = "charge"
  /\ owed' = owed \cup {number[r]}
  /\ Goto(r, "finish")
  /\ UNCHANGED <<profile, counter, invoice, now, todo, claim, number, form, used, amiss>>

\* The claim is given back, if nobody has moved the date on since.
GiveBack(doc, k) ==
  IF doc.due = k + 1 THEN [doc EXCEPT !.due = k, !.count = @ - 1] ELSE doc

\* The claim was the last one of the profile, by what the claim itself returned.
IsLast(doc) ==
  \/ doc.max > 0 /\ doc.count >= doc.max
  \/ doc.last > 0 /\ doc.due > doc.last

Finish(r) ==
  /\ pc[r] = "finish"
  /\ profile' = IF IsLast(claim[r].doc)
                  THEN [profile EXCEPT ![claim[r].id].status = "completed"] ELSE profile
  /\ Done(r)
  /\ UNCHANGED <<counter, invoice, owed, now, form, used, amiss>>

\* The catch block.  The history tells a claim given back although its invoice is stored
\* ("rebill") and one that somebody's later claim keeps from being given back ("overtaken").
Release(r) ==
  LET p == claim[r].id  k == claim[r].period IN
  /\ pc[r] = "release"
  /\ profile' = [profile EXCEPT ![p] = GiveBack(@, k)]
  /\ amiss' = amiss \cup (IF profile[p].due # k + 1 THEN {<<"overtaken", p, k>>}
                          ELSE IF InvoiceOf(r) \in invoice THEN {<<"rebill", p, k>>} ELSE {})
  /\ Done(r)
  /\ UNCHANGED <<counter, invoice, owed, now, form, used>>

\* A call of a run or of createInvoice throws before it has any effect.
Fail(r) ==
  /\ pc[r] \in {"number", "invoice", "charge", "finish"} /\ used.faults < MaxFaults
  /\ Spend("faults") /\ Throw(r)
  /\ UNCHANGED <<dbVars, now, form, amiss>>

\* The update of the catch block itself throws: the error leaves the run, the claim stays.
ReleaseFails(r) ==
  /\ pc[r] = "release" /\ used.faults < MaxFaults
  /\ Spend("faults") /\ Note("dropped", r) /\ Done(r)
  /\ UNCHANGED <<dbVars, now, form>>

\* The server stops in the middle of an execution.
Crash(r) ==
  /\ pc[r] # "idle" /\ used.faults < MaxFaults
  /\ Spend("faults") /\ Goto(r, "idle")
  /\ todo' = [todo EXCEPT ![r] = {}]
  /\ claim' = [claim EXCEPT ![r] = NoClaim]
  /\ number' = [number EXCEPT ![r] = 0]
  /\ IF claim[r] = NoClaim THEN UNCHANGED amiss ELSE Note("dropped", r)
  /\ UNCHANGED <<dbVars, now, form>>

\* What an edit of a profile means: the date is another one, or it runs again ("edited"); it is
\* to end elsewhere ("limited").
Again(doc, e) == e.due # doc.due \/ (e.status = "active" /\ doc.status # "active")
Ends(doc, e) == e.max # doc.max \/ e.last # doc.last
Meaning(doc, e) ==
  (IF Again(doc, e) THEN {"edited"} ELSE {}) \cup (IF Ends(doc, e) THEN {"limited"} ELSE {})

StatusOf(doc, e) == IF e.status = "kept" THEN doc.status ELSE e.status

\* updateRecurringProfile: status, date and limits are whatever the form says.
Edit(p, e) ==
  /\ used.edits < MaxEdits /\ Spend("edits")
  /\ profile' = [profile EXCEPT ![p] = [status |-> StatusOf(@, e), due |-> e.due,
                                        count |-> @.count, max |-> e.max, last |-> e.last]]
  /\ amiss' = amiss \cup {<<what, p, 0>> : what \in Meaning(profile[p], e)}
  /\ UNCHANGED <<counter, invoice, owed, now, runVars, form>>

\* updateOrganizationSettings reads the organization ...
OpenSettings ==
  /\ form = 0 /\ used.edits < MaxEdits
  /\ form' = counter
  /\ UNCHANGED <<dbVars, now, runVars, used, amiss>>

\* ... and saves all of its settings, the counter as read or a higher one.
SaveSettings(n) ==
  /\ form > 0 /\ n >= form
  /\ used.edits < MaxEdits /\ Spend("edits")
  /\ counter' = n /\ form' = 0
  /\ amiss' = IF n < counter THEN amiss \cup {<<"renumbered", NoProfile, 0>>} ELSE amiss
  /\ UNCHANGED <<profile, invoice, owed, now, runVars>>

Tick == now < MaxPeriod /\ now' = now + 1 /\ UNCHANGED <<dbVars, runVars, form, used, amiss>>

Step(r) ==
  \/ \E d \in todo[r] : Claim(r, d[1], d[2])
  \/ Reserve(r) \/ Create(r) \/ Charge(r) \/ Finish(r) \/ Release(r)
Next ==
  \/ \E r \in Job : Schedule(r)
  \/ \E r \in Clerk : NewInvoice(r) \/ \E p \in Profile : Trigger(r, p)
  \/ \E r \in Run : Step(r) \/ Fail(r) \/ ReleaseFails(r) \/ Crash(r)
  \/ \E p \in Profile, e \in EditForm : Edit(p, e)
  \/ OpenSettings \/ \E n \in {form, form + 1} : SaveSettings(n)
  \/ Tick

Spec == Init /\ [][Next]_vars

\* cron starts the job every hour, and a started execution goes on until it ends or crashes.
FairSpec ==
  /\ Spec
  /\ \A r \in Run : WF_vars(Step(r))
  /\ \A r \in Job : WF_vars(Schedule(r))

-------------------------------------------------------------------------------

RunDoc == [status : {"none", "active", "paused", "cancelled", "completed"}, due : Nat, count : Int,
           max : Nat, last : Nat]

\* The state has its type.
TypeOK ==
  /\ profile \in [Profile -> RunDoc]
  /\ counter \in Nat /\ now \in 1..MaxPeriod /\ form \in Nat
  /\ invoice \subseteq [number : Nat, id : Profile \cup {NoProfile}, period : Nat]
  /\ owed \subseteq Nat
  /\ pc \in [Run -> {"idle", "claim", "number", "invoice", "charge", "finish", "release"}]
  /\ todo \in [Run -> SUBSET (Profile \X Nat)]
  /\ claim \in [Run -> [id : Profile \cup {NoProfile}, period : Nat, doc : RunDoc]]
  /\ number \in [Run -> Nat]
  /\ used \in [{"faults", "edits", "manual"} -> Nat]
  /\ amiss \subseteq {"rebill", "overtaken", "dropped", "edited", "limited", "renumbered"}
                       \X (Profile \cup {NoProfile}) \X Nat

Edited(p) == Happened("edited", p, 0)
Limited(p) == Happened("limited", p, 0)
\* Claims of p that neither ended nor were given back.
Stuck(p) == {a \in amiss : a[1] \in {"dropped", "overtaken"} /\ a[2] = p}

\* Overlapping jobs and manual runs bill a period of a profile once: a second invoice means
\* that the date was set back, or that a claim was given back with its invoice stored.
BilledOnce == \A p \in Profile : \A i, j \in InvoicesOf(p) :
  i.period = j.period /\ i # j => Edited(p) \/ Happened("rebill", p, i.period)

\* The date never passes a period that is neither billed nor being billed, but for a claim
\* that a crash or an error of the catch block dropped, or that a later claim overtook.
NothingSkipped == \A p \in Profile : Edited(p) \/
  \A k \in 1..(profile[p].due - 1) :
    \/ Billed(p, k)
    \/ \E r \in Run : claim[r].id = p /\ claim[r].period = k
    \/ Happened("dropped", p, k) \/ Happened("overtaken", p, k)

\* totalGeneratedCount and nextRunDate tell the same story: whatever runs overlap, fail and
\* are given back, the count is the number of periods the date has passed.
CountTellsDate == \A p \in Profile : Edited(p) \/ profile[p].count = profile[p].due - 1

\* A profile that has reached its last occurrence stays active only while the run that
\* claimed it is still at work, so that a later run finds it completed: unless its end was moved.
StopsInTime == \A p \in Profile :
  /\ profile[p].status = "active" /\ IsLast(profile[p])
  /\ ~Edited(p) /\ ~Limited(p) /\ Stuck(p) = {}
  => \E r \in Run : claim[r].id = p /\ IsLast(claim[r].doc)

\* Numbers reserved and not yet used differ from each other and from those of all invoices,
\* unless a settings form set the counter back.
NumbersApart ==
  Happened("renumbered", NoProfile, 0) \/
  \A r \in Run : pc[r] = "invoice" =>
    /\ number[r] \notin Numbers /\ number[r] < counter
    /\ \A s \in Run \ {r} : number[s] # number[r]

\* What was sent is owed, or about to be, and nothing else is: but for runs that ended
\* between the invoice and the balance.
OwedIsSent ==
  /\ \A n \in owed : \E i \in invoice : i.number = n /\ i.id \in AutoSend
  /\ \A i \in invoice : i.id \in AutoSend /\ i.number \notin owed =>
       \/ \E r \in Run : InvoiceOf(r) = i
       \/ \E what \in {"rebill", "dropped", "overtaken"} : Happened(what, i.id, i.period)

\* Whatever runs overlap, fail and are given back, each profile is billed once for each period
\* up to its date, its count tells that date, and it stops where it should.
BilledAsDue == TypeOK /\ BilledOnce /\ NothingSkipped /\ CountTellsDate /\ StopsInTime

\* Whatever is refused or fails, no two invoices are given one number, and the balances owe
\* what was sent.
InvoicesAreKept == NumbersApart /\ OwedIsSent

\* Hourly runs catch up: whatever fails in between, sooner or later no active profile is due.
CaughtUp == <>[](\A p \in Profile : profile[p].status = "active" => profile[p].due > now)

\* What scheduler.ts says of the job: extra runs never double-bill.  The catch block gives the
\* claim back even when its invoice is stored, and the next run bills the period again.
NeverBilledTwice == \A p \in Profile : \A i, j \in InvoicesOf(p) :
  i.period = j.period /\ i # j => Edited(p)
===============================================================================
